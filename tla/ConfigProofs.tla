---------------------------- MODULE ConfigProofs ----------------------------
(***************************************************************************)
(* The start of the program for any file.  What the stages have settled    *)
(* stays so (Settled); the lists of a host hold what it asks for, in order *)
(* (Sifted), so that the first of each name is the one that it prefers.    *)
(***************************************************************************)
EXTENDS Config, SequenceTheorems, TLAPS

-----------------------------------------------------------------------------
(* Types *)

LEMMA ConfigIs ==
  ASSUME NEW c \in FileConfig
  PROVE  /\ c.hosts \in Seq(HostConfig) /\ c.checks \in Seq(CheckConfig)
         /\ c.sched \in Schedule /\ c.tls \in Switch
         /\ c.port \in Int /\ c.ttl \in Int /\ c.repeat \in Int
         /\ c.notifiers \in Seq(Strings) /\ c.telegram \in BOOLEAN
  BY DEF FileConfig

LEMMA WithHosts ==
  ASSUME NEW c \in FileConfig, NEW hs \in Seq(HostConfig), NEW d, d = [c EXCEPT !.hosts = hs]
  PROVE  /\ d \in FileConfig /\ d.hosts = hs /\ d.checks = c.checks
         /\ d.sched = c.sched /\ d.tls = c.tls /\ d.notifiers = c.notifiers
         /\ d.repeat = c.repeat /\ d.ttl = c.ttl /\ d.port = c.port /\ d.telegram = c.telegram
  BY DEF FileConfig

LEMMA WithChecks ==
  ASSUME NEW c \in FileConfig, NEW cs \in Seq(CheckConfig), NEW d, d = [c EXCEPT !.checks = cs]
  PROVE  /\ d \in FileConfig /\ d.checks = cs /\ d.hosts = c.hosts
         /\ d.sched = c.sched /\ d.tls = c.tls /\ d.notifiers = c.notifiers
         /\ d.repeat = c.repeat /\ d.ttl = c.ttl /\ d.port = c.port /\ d.telegram = c.telegram
  BY DEF FileConfig

LEMMA FilledPositive ==
  ASSUME NEW set \in Schedule, NEW from \in Schedule, \A s \in Settings : from[s] > 0
  PROVE  /\ Filled(set, from) \in Schedule
         /\ \A s \in Settings : Filled(set, from)[s] > 0
  BY DEF Filled, OrElse, Schedule

LEMMA BuiltinPositive == Builtin \in Schedule /\ \A s \in Settings : Builtin[s] > 0
  BY DEF Builtin, Schedule, Settings

LEMMA Defaulted ==
  ASSUME cfg \in FileConfig, ApplyDefaults
  PROVE  /\ cfg' \in FileConfig /\ cfg'.hosts = cfg.hosts /\ cfg'.checks = cfg.checks
         /\ \A s \in Settings : cfg'.sched[s] > 0
         /\ cfg'.tls \in BOOLEAN /\ cfg'.notifiers # <<>>
         /\ cfg'.repeat > 0 /\ cfg'.ttl > 0
  <1> DEFINE sched     == Filled(cfg.sched, Builtin)
             tls       == TlsDefault(cfg.tls)
             notifiers == IF cfg.notifiers = <<>> THEN <<"log">>
                          ELSE [i \in DOMAIN cfg.notifiers |-> Lower(cfg.notifiers[i])]
             repeat    == OrElse(cfg.repeat, 120)
             port      == IF cfg.port = 0 THEN 8080 ELSE cfg.port
             ttl       == OrElse(cfg.ttl, 86400)
  <1>1. sched \in Schedule /\ \A s \in Settings : sched[s] > 0
    BY ConfigIs, FilledPositive, BuiltinPositive
  <1>2. tls \in BOOLEAN
    BY ConfigIs DEF Switch, TlsDefault
  <1>3. notifiers \in Seq(Strings) /\ notifiers # <<>>
    <2>1. cfg.notifiers \in Seq(Strings)
      BY ConfigIs
    <2>2. \A n \in Strings : Lower(n) \in Strings
      BY StringsAssumption DEF Lower
    <2>3. CASE cfg.notifiers = <<>>
      BY <2>3, StringsAssumption
    <2>4. CASE cfg.notifiers # <<>>
      <3> DEFINE low == [i \in DOMAIN cfg.notifiers |-> Lower(cfg.notifiers[i])]
      <3>1. low \in Seq(Strings) /\ Len(low) = Len(cfg.notifiers)
        <4>1. \A i \in DOMAIN cfg.notifiers : Lower(cfg.notifiers[i]) \in Strings
          BY <2>1, <2>2
        <4> QED
          BY <2>1, <4>1
      <3>2. low # <<>>
        BY <2>1, <2>4, <3>1
      <3> QED
        BY <2>4, <3>1, <3>2
    <2> QED
      BY <2>3, <2>4
  <1>4. repeat \in Int /\ repeat > 0 /\ ttl \in Int /\ ttl > 0 /\ port \in Int
    BY ConfigIs DEF OrElse
  <1>5. cfg' = [cfg EXCEPT !.sched = sched, !.tls = tls, !.notifiers = notifiers,
                           !.repeat = repeat, !.port = port, !.ttl = ttl]
    BY DEF ApplyDefaults
  <1> HIDE DEF sched, tls, notifiers, repeat, port, ttl
  <1>6. /\ cfg' \in FileConfig /\ cfg'.hosts = cfg.hosts /\ cfg'.checks = cfg.checks
        /\ cfg'.sched = sched /\ cfg'.tls = tls /\ cfg'.notifiers = notifiers
        /\ cfg'.repeat = repeat /\ cfg'.ttl = ttl
    BY <1>1, <1>2, <1>3, <1>4, <1>5 DEF FileConfig, Switch
  <1> QED
    BY <1>1, <1>2, <1>3, <1>4, <1>6

LEMMA Injected ==
  ASSUME cfg \in FileConfig, next \in 1..Len(cfg.hosts), InjectPing
  PROVE  /\ cfg' \in FileConfig /\ cfg'.hosts = cfg.hosts
         /\ Len(cfg'.checks) \in Nat /\ Len(cfg'.checks) >= Len(cfg.checks)
         /\ cfg'.sched = cfg.sched /\ cfg'.tls = cfg.tls /\ cfg'.notifiers = cfg.notifiers
         /\ cfg'.repeat = cfg.repeat /\ cfg'.ttl = cfg.ttl
  <1> DEFINE h == cfg.hosts[next]
             cs == Append(cfg.checks, PingCheck(h))
  <1>1. h \in HostConfig /\ cfg.checks \in Seq(CheckConfig) /\ cfg.sched \in Schedule
    BY ConfigIs
  <1>2. PingCheck(h) \in CheckConfig
    BY <1>1, StringsAssumption DEF PingCheck, CheckConfig, HostConfig, Text
  <1>3. cs \in Seq(CheckConfig) /\ Len(cs) = Len(cfg.checks) + 1 /\ Len(cfg.checks) \in Nat
    BY <1>1, <1>2
  <1>4. CASE h.ping
    <2>1. cfg' = [cfg EXCEPT !.checks = cs]
      BY <1>4 DEF InjectPing
    <2> HIDE DEF cs
    <2> QED
      BY <1>3, <2>1, WithChecks
  <1>5. CASE ~h.ping
    BY <1>3, <1>5 DEF InjectPing
  <1> QED
    BY <1>4, <1>5

LEMMA ChecksDefaulted ==
  ASSUME cfg \in FileConfig, \A s \in Settings : cfg.sched[s] > 0, ApplyCheckDefaults
  PROVE  /\ cfg' \in FileConfig /\ cfg'.hosts = cfg.hosts /\ Len(cfg'.checks) = Len(cfg.checks)
         /\ \A c \in DOMAIN cfg'.checks, s \in Settings : cfg'.checks[c].set[s] > 0
         /\ cfg'.sched = cfg.sched /\ cfg'.tls = cfg.tls /\ cfg'.notifiers = cfg.notifiers
         /\ cfg'.repeat = cfg.repeat /\ cfg'.ttl = cfg.ttl
  <1> DEFINE cs == [i \in DOMAIN cfg.checks |-> WithDefaults(cfg.checks[i])]
  <1>1. cfg.checks \in Seq(CheckConfig) /\ cfg.sched \in Schedule
    BY ConfigIs
  <1>2. ASSUME NEW c \in CheckConfig
        PROVE  /\ WithDefaults(c) \in CheckConfig
               /\ \A s \in Settings : WithDefaults(c).set[s] > 0
    <2>1. c.set \in Schedule
      BY DEF CheckConfig
    <2>2. /\ Filled(c.set, cfg.sched) \in Schedule
          /\ \A s \in Settings : Filled(c.set, cfg.sched)[s] > 0
      BY <1>1, <2>1, FilledPositive
    <2>3. WithDefaults(c) \in CheckConfig /\ WithDefaults(c).set = Filled(c.set, cfg.sched)
      BY <2>2, StringsAssumption DEF WithDefaults, CheckConfig, Text
    <2> QED
      BY <2>2, <2>3
  <1>3. /\ cs \in Seq(CheckConfig) /\ Len(cs) = Len(cfg.checks)
        /\ \A c \in DOMAIN cs : cfg.checks[c] \in CheckConfig /\ cs[c] = WithDefaults(cfg.checks[c])
    BY <1>1, <1>2
  <1>4. cfg' = [cfg EXCEPT !.checks = cs]
    BY DEF ApplyCheckDefaults
  <1> HIDE DEF cs
  <1>5. \A c \in DOMAIN cs, s \in Settings : cs[c].set[s] > 0
    BY <1>2, <1>3
  <1> QED
    BY <1>3, <1>4, <1>5, WithChecks

LEMMA HostEntered ==
  ASSUME cfg \in FileConfig, next \in 1..Len(cfg.hosts), cfg.tls \in BOOLEAN, EnterHost
  PROVE  /\ cfg' \in FileConfig /\ cfg'.checks = cfg.checks /\ Len(cfg'.hosts) = Len(cfg.hosts)
         /\ \A e \in DOMAIN cfg.hosts :
              /\ cfg'.hosts[e].hostname = cfg.hosts[e].hostname
              /\ cfg'.hosts[e].labels = cfg.hosts[e].labels
              /\ e # next => cfg'.hosts[e] = cfg.hosts[e]
         /\ cfg'.hosts[next].tls \in BOOLEAN
         /\ cfg'.sched = cfg.sched /\ cfg'.tls = cfg.tls /\ cfg'.notifiers = cfg.notifiers
         /\ cfg'.repeat = cfg.repeat /\ cfg'.ttl = cfg.ttl
  <1> DEFINE tls == IF cfg.hosts[next].tls = None THEN cfg.tls ELSE cfg.hosts[next].tls
             h   == [cfg.hosts[next] EXCEPT !.tls = tls]
             hs  == [cfg.hosts EXCEPT ![next] = h]
  <1>1. cfg.hosts \in Seq(HostConfig) /\ cfg.hosts[next] \in HostConfig
    BY ConfigIs
  <1>2. tls \in BOOLEAN
    BY <1>1 DEF HostConfig, Switch
  <1>3. cfg' = [cfg EXCEPT !.hosts = hs]
    BY DEF EnterHost
  <1> HIDE DEF tls
  <1>4. /\ h \in HostConfig /\ h.hostname = cfg.hosts[next].hostname
        /\ h.labels = cfg.hosts[next].labels /\ h.tls = tls
    BY <1>1, <1>2 DEF HostConfig, Switch
  <1> HIDE DEF h
  <1>5. /\ hs \in Seq(HostConfig) /\ Len(hs) = Len(cfg.hosts) /\ hs[next] = h
        /\ \A e \in DOMAIN cfg.hosts : e # next => hs[e] = cfg.hosts[e]
    BY <1>1, <1>4
  <1> HIDE DEF hs
  <1>6. \A e \in DOMAIN cfg.hosts :
          hs[e].hostname = cfg.hosts[e].hostname /\ hs[e].labels = cfg.hosts[e].labels
    BY <1>4, <1>5
  <1>7. /\ cfg' \in FileConfig /\ cfg'.hosts = hs /\ cfg'.checks = cfg.checks
        /\ cfg'.sched = cfg.sched /\ cfg'.tls = cfg.tls /\ cfg'.notifiers = cfg.notifiers
        /\ cfg'.repeat = cfg.repeat /\ cfg'.ttl = cfg.ttl
    BY <1>3, <1>5, WithHosts
  <1> QED
    BY <1>2, <1>4, <1>5, <1>6, <1>7

-----------------------------------------------------------------------------
(* What the stages have settled *)

Early    == {"read", "defaults", "inject", "checks"}
Accepted == {"notifiers", "board", "launch", "running"}
Ready    == {"validate"} \cup Accepted
Compiled == {"hosts", "adding"} \cup Ready

\* The second loop of compileMaps has dealt with entry e, or has begun to.
Done(e)    == e \in DOMAIN cfg.hosts /\ (at \in Ready \/ (at \in {"hosts", "adding"} /\ e < next))
Entered(e) == Done(e) \/ (at = "adding" /\ e = next)

\* What has not been reached is as it was made.
Fresh ==
  /\ at \in {"read", "defaults", "checks", "validate"} => next = 1
  /\ at \in Early =>
       byLabel = [l \in Labels |-> <<>>] /\ byHost = [h \in Hostnames |-> <<>>] /\ anyHost = <<>>
  /\ at \in Early \cup {"maps"} => assignments = <<>> /\ assigned = <<>>
  /\ at \in Early \cup {"maps"} \cup (Compiled \ Accepted) => sinks = <<>>
  /\ at \notin {"board", "launch", "running", "fatal"} => board = <<>>
  /\ at \notin {"launch", "running", "fatal"} => triggers = <<>>

DefaultsKept ==
  /\ at \in {"inject", "checks", "maps"} \cup Compiled =>
       /\ \A s \in Settings : cfg.sched[s] > 0
       /\ cfg.tls \in BOOLEAN /\ cfg.notifiers # <<>> /\ cfg.repeat > 0 /\ cfg.ttl > 0
  /\ at \in {"maps"} \cup Compiled =>
       \A c \in DOMAIN cfg.checks, s \in Settings : cfg.checks[c].set[s] > 0

HostsKept ==
  /\ at = "adding" => next \in DOMAIN cfg.hosts
  /\ \A e \in DOMAIN cfg.hosts : Entered(e) =>
       cfg.hosts[e].hostname \in Hostnames /\ cfg.hosts[e].tls \in BOOLEAN

SinksKept ==
  /\ at \in Accepted => Valid
  /\ at = "notifiers" =>
       Len(sinks) = next - 1 /\ \A i \in 1..(next - 1) : sinks[i] = cfg.notifiers[i]
  /\ at \in {"board", "launch", "running"} => sinks = cfg.notifiers

Settled ==
  TypeOK /\ file \in FileConfig /\ Fresh /\ DefaultsKept /\ HostsKept /\ SinksKept

USE DEF Early, Accepted, Ready, Compiled

LEMMA Numbers ==
  ASSUME TypeOK
  PROVE  /\ Len(cfg.hosts) \in Nat /\ Len(cfg.checks) \in Nat /\ Len(cfg.notifiers) \in Nat
         /\ Len(assignments) \in Nat /\ Rounds \in Nat /\ next \in Nat /\ next >= 1
         /\ next <= Rounds + 1
         /\ DOMAIN cfg.hosts = 1..Len(cfg.hosts) /\ DOMAIN cfg.checks = 1..Len(cfg.checks)
  <1>1. /\ Len(cfg.hosts) \in Nat /\ Len(cfg.checks) \in Nat /\ Len(cfg.notifiers) \in Nat
        /\ DOMAIN cfg.hosts = 1..Len(cfg.hosts) /\ DOMAIN cfg.checks = 1..Len(cfg.checks)
    BY ConfigIs DEF TypeOK
  <1>2. Len(assignments) \in Nat
    BY DEF TypeOK
  <1>3. Rounds \in Nat
    BY <1>1, <1>2 DEF Rounds
  <1> QED
    BY <1>1, <1>2, <1>3 DEF TypeOK

LEMMA AssignmentsAre ==
  ASSUME TypeOK
  PROVE  /\ DOMAIN assignments = 1..Len(assignments)
         /\ \A k \in DOMAIN assignments :
              /\ assignments[k] \in [host : DOMAIN cfg.hosts, check : DOMAIN cfg.checks]
              /\ assignments[k].host \in DOMAIN cfg.hosts
              /\ assignments[k].check \in DOMAIN cfg.checks
  <1> DEFINE A == [host : DOMAIN cfg.hosts, check : DOMAIN cfg.checks]
  <1>1. assignments \in Seq(A)
    BY DEF TypeOK
  <1>2. /\ DOMAIN assignments = 1..Len(assignments)
        /\ \A k \in DOMAIN assignments :
             assignments[k] \in A
    <2> HIDE DEF A
    <2> QED
      BY <1>1
  <1> QED
    BY <1>2

LEMMA InitSettled == Init => Settled
  <1> SUFFICES ASSUME Init PROVE Settled
    OBVIOUS
  <1>1. cfg \in FileConfig /\ cfg = file
    BY FilesAssumption DEF Init
  <1>2. Len(cfg.hosts) \in Nat /\ Len(cfg.checks) \in Nat
    BY <1>1, ConfigIs
  <1>3. TypeOK
    BY <1>1, <1>2 DEF Init, TypeOK, Stages, Rounds, Range
  <1>4. Fresh /\ DefaultsKept /\ SinksKept /\ HostsKept
    BY DEF Init, Fresh, DefaultsKept, SinksKept, HostsKept, Entered, Done
  <1> QED
    BY <1>1, <1>3, <1>4 DEF Settled

LEMMA ReadSettled == ASSUME Settled, Read PROVE Settled'
  <1>1. TypeOK'
    BY Numbers DEF Read, Settled, TypeOK, Stages, Rounds, maps, entry, made
  <1>2. Fresh' /\ DefaultsKept' /\ SinksKept' /\ HostsKept'
    BY DEF Settled, Read, Fresh, DefaultsKept, SinksKept, HostsKept, Entered, Done, maps, entry, made
  <1> QED
    BY <1>1, <1>2 DEF Settled, Read

LEMMA DefaultsSettled == ASSUME Settled, ApplyDefaults PROVE Settled'
  <1>1. /\ cfg' \in FileConfig /\ cfg'.hosts = cfg.hosts /\ cfg'.checks = cfg.checks
        /\ \A s \in Settings : cfg'.sched[s] > 0
        /\ cfg'.tls \in BOOLEAN /\ cfg'.notifiers # <<>>
        /\ cfg'.repeat > 0 /\ cfg'.ttl > 0
    BY Defaulted DEF Settled, TypeOK
  <1>2. /\ at = "defaults" /\ at' = "inject"
        /\ UNCHANGED <<file, maps, next, entry, assignments, made>>
    BY DEF ApplyDefaults
  <1>3. TypeOK'
    BY <1>1, <1>2, Numbers DEF Settled, TypeOK, Stages, Rounds, maps, entry, made
  <1>4. Fresh' /\ DefaultsKept' /\ SinksKept' /\ HostsKept'
    BY <1>1, <1>2
       DEF Settled, Fresh, DefaultsKept, SinksKept, HostsKept, Entered, Done, maps, entry, made
  <1> QED
    BY <1>2, <1>3, <1>4 DEF Settled

LEMMA InjectSettled == ASSUME Settled, InjectPing PROVE Settled'
  <1>1. /\ at = "inject" /\ at' = "inject" /\ next \in 1..Len(cfg.hosts) /\ next' = next + 1
        /\ UNCHANGED <<file, maps, entry, assignments, made>>
    BY Numbers DEF Settled, InjectPing, Round, Rounds
  <1>2. /\ cfg' \in FileConfig /\ cfg'.hosts = cfg.hosts
        /\ Len(cfg'.checks) \in Nat /\ Len(cfg'.checks) >= Len(cfg.checks)
        /\ cfg'.sched = cfg.sched /\ cfg'.tls = cfg.tls /\ cfg'.notifiers = cfg.notifiers
        /\ cfg'.repeat = cfg.repeat /\ cfg'.ttl = cfg.ttl
    BY <1>1, Injected DEF Settled, TypeOK
  <1>3. TypeOK'
    <2>1. Len(cfg'.checks) >= Len(file.checks)
      <3>1. Len(file.checks) \in Nat
        BY ConfigIs DEF Settled
      <3>2. Len(cfg.checks) \in Nat /\ Len(cfg.checks) >= Len(file.checks)
        BY Numbers DEF Settled, TypeOK
      <3> QED
        BY <1>2, <3>1, <3>2
    <2>2. next' \in 1..(Rounds' + 1)
      BY <1>1, <1>2, Numbers DEF Settled, Rounds
    <2> QED
      BY <1>1, <1>2, <2>1, <2>2 DEF Settled, Fresh, TypeOK, Stages, maps, entry, made
  <1>4. Fresh' /\ DefaultsKept' /\ SinksKept' /\ HostsKept'
    BY <1>1, <1>2
       DEF Settled, Fresh, DefaultsKept, SinksKept, HostsKept, Entered, Done, maps, entry, made
  <1> QED
    BY <1>1, <1>3, <1>4 DEF Settled

LEMMA ChecksSettled == ASSUME Settled, ApplyCheckDefaults PROVE Settled'
  <1>1. /\ at = "checks" /\ at' = "maps"
        /\ UNCHANGED <<file, maps, next, entry, assignments, made>>
    BY DEF ApplyCheckDefaults
  <1>2. /\ cfg' \in FileConfig /\ cfg'.hosts = cfg.hosts /\ Len(cfg'.checks) = Len(cfg.checks)
        /\ \A c \in DOMAIN cfg'.checks, s \in Settings : cfg'.checks[c].set[s] > 0
        /\ cfg'.sched = cfg.sched /\ cfg'.tls = cfg.tls /\ cfg'.notifiers = cfg.notifiers
        /\ cfg'.repeat = cfg.repeat /\ cfg'.ttl = cfg.ttl
    BY <1>1, ChecksDefaulted DEF Settled, TypeOK, DefaultsKept
  <1>3. TypeOK'
    BY <1>1, <1>2, Numbers DEF Settled, Fresh, TypeOK, Stages, Rounds, maps, entry, made
  <1>4. Fresh' /\ DefaultsKept' /\ SinksKept' /\ HostsKept'
    BY <1>1, <1>2
       DEF Settled, Fresh, DefaultsKept, SinksKept, HostsKept, Entered, Done, maps, entry, made
  <1> QED
    BY <1>1, <1>3, <1>4 DEF Settled

LEMMA CompileSettled == ASSUME Settled, CompileCheck PROVE Settled'
  <1>1. /\ at = "maps" /\ at' = "maps" /\ next \in DOMAIN cfg.checks /\ next' = next + 1
        /\ UNCHANGED <<file, cfg, entry, assignments, made>>
    BY Numbers DEF Settled, CompileCheck, Round, Rounds
  <1>2. ASSUME NEW list \in Seq(DOMAIN cfg.checks), NEW wanted
        PROVE  Joined(list, wanted) \in Seq(DOMAIN cfg.checks)
    <2>1. CASE wanted
      BY <1>1, <2>1, AppendProperties DEF Joined
    <2>2. CASE ~wanted
      BY <2>2 DEF Joined
    <2> QED
      BY <2>1, <2>2
  <1>3. /\ anyHost' \in Seq(DOMAIN cfg.checks)
        /\ byLabel' \in [Labels -> Seq(DOMAIN cfg.checks)]
        /\ byHost' \in [Hostnames -> Seq(DOMAIN cfg.checks)]
    BY <1>2 DEF Settled, TypeOK, CompileCheck
  <1>4. next' \in 1..(Rounds' + 1)
    BY <1>1, Numbers DEF Settled, Rounds
  <1>5. TypeOK'
    BY <1>1, <1>3, <1>4 DEF Settled, TypeOK, Stages, entry, made
  <1>6. Fresh' /\ DefaultsKept' /\ SinksKept' /\ HostsKept'
    BY <1>1 DEF Settled, Fresh, DefaultsKept, SinksKept, HostsKept, Entered, Done, entry, made
  <1> QED
    BY <1>1, <1>5, <1>6 DEF Settled

LEMMA EnterSettled == ASSUME Settled, EnterHost PROVE Settled'
  <1>1. /\ at = "hosts" /\ next \in DOMAIN cfg.hosts /\ next \in 1..Len(cfg.hosts)
        /\ source' = 0 /\ item' = 1 /\ assigned' = <<>>
        /\ UNCHANGED <<file, maps, next, assignments, made>>
        /\ at' \in {"fatal", "adding"}
        /\ at' = "adding" => cfg.hosts[next].hostname # None
    BY Numbers DEF Settled, EnterHost, Rounds
  <1>2. /\ cfg' \in FileConfig /\ cfg'.checks = cfg.checks /\ Len(cfg'.hosts) = Len(cfg.hosts)
        /\ \A e \in DOMAIN cfg.hosts :
              /\ cfg'.hosts[e].hostname = cfg.hosts[e].hostname
              /\ cfg'.hosts[e].labels = cfg.hosts[e].labels
              /\ e # next => cfg'.hosts[e] = cfg.hosts[e]
        /\ cfg'.hosts[next].tls \in BOOLEAN
        /\ cfg'.sched = cfg.sched /\ cfg'.tls = cfg.tls /\ cfg'.notifiers = cfg.notifiers
        /\ cfg'.repeat = cfg.repeat /\ cfg'.ttl = cfg.ttl
    BY <1>1, HostEntered DEF Settled, TypeOK, DefaultsKept
  <1>3. DOMAIN cfg'.hosts = DOMAIN cfg.hosts
    BY <1>2, ConfigIs, Numbers DEF Settled
  <1>4. TypeOK'
    <2>1. next' \in 1..(Rounds' + 1)
      BY <1>1, <1>2, Numbers DEF Settled, Rounds
    <2>2. at' = "adding" => /\ source' \in 0..(Len(cfg'.hosts[next'].labels) + 1)
                            /\ item' \in 1..(Len(List') + 1)
      <3> SUFFICES ASSUME at' = "adding"
                   PROVE  /\ source' \in 0..(Len(cfg'.hosts[next'].labels) + 1)
                          /\ item' \in 1..(Len(List') + 1)
        OBVIOUS
      <3>1. cfg.hosts[next] \in HostConfig
        BY <1>1, ConfigIs DEF Settled, TypeOK
      <3>2. Len(cfg.hosts[next].labels) \in Nat /\ cfg.hosts[next].hostname \in Hostnames
        BY <1>1, <3>1 DEF HostConfig
      <3>0. 0 \notin DOMAIN cfg.hosts[next].labels
        BY <3>1 DEF HostConfig
      <3>3. List' = byHost[cfg.hosts[next].hostname]
        <4>1. /\ source' = 0 /\ byHost' = byHost /\ next' = next
              /\ cfg'.hosts[next'].hostname = cfg.hosts[next].hostname
              /\ 0 \notin DOMAIN cfg'.hosts[next'].labels
          BY <1>1, <1>2, <3>0 DEF maps
        <4> QED
          BY <4>1 DEF List, Listed
      <3>4. Len(List') \in Nat
        BY <3>2, <3>3 DEF Settled, TypeOK
      <3> QED
        BY <1>1, <1>2, <3>2, <3>4
    <2> QED
      BY <1>1, <1>2, <1>3, <2>1, <2>2 DEF Settled, TypeOK, Stages, maps, made
  <1>5. Fresh' /\ DefaultsKept' /\ SinksKept'
    BY <1>1, <1>2
       DEF Settled, Fresh, DefaultsKept, SinksKept, maps, made
  <1>6. HostsKept'
    <2>1. at' = "adding" => cfg.hosts[next].hostname \in Hostnames
      <3>1. cfg.hosts[next] \in HostConfig
        BY <1>1, ConfigIs DEF Settled, TypeOK
      <3> QED
        BY <1>1, <3>1 DEF HostConfig
    <2>2. ASSUME NEW e \in DOMAIN cfg.hosts, Entered(e)'
          PROVE  cfg'.hosts[e].hostname \in Hostnames /\ cfg'.hosts[e].tls \in BOOLEAN
      <3>1. CASE e = next
        BY <1>1, <1>2, <2>1, <2>2, <3>1 DEF Entered, Done
      <3>2. CASE e # next
        <4>1. Entered(e)
          BY <1>1, <2>2, <3>2 DEF Entered, Done
        <4> QED
          BY <1>2, <3>2, <4>1 DEF Settled, HostsKept
      <3> QED
        BY <3>1, <3>2
    <2> QED
      BY <1>1, <1>3, <2>2 DEF HostsKept
  <1> QED
    BY <1>1, <1>4, <1>5, <1>6 DEF Settled

\* The list that addCheck is called for.
LEMMA ListIs ==
  ASSUME TypeOK, HostsKept, at = "adding"
  PROVE  /\ next \in DOMAIN cfg.hosts /\ cfg.hosts[next] \in HostConfig
         /\ cfg.hosts[next].hostname \in Hostnames /\ Len(cfg.hosts[next].labels) \in Nat
         /\ DOMAIN cfg.hosts[next].labels = 1..Len(cfg.hosts[next].labels)
         /\ \A p \in PlacesOf(next) :
              /\ Listed(cfg.hosts[next], p) \in Seq(DOMAIN cfg.checks)
              /\ Len(Listed(cfg.hosts[next], p)) \in Nat
              /\ DOMAIN Listed(cfg.hosts[next], p) = 1..Len(Listed(cfg.hosts[next], p))
         /\ source \in PlacesOf(next) /\ List = Listed(cfg.hosts[next], source)
         /\ item \in 1..(Len(List) + 1)
  <1> DEFINE h == cfg.hosts[next]
  <1>1. next \in DOMAIN cfg.hosts /\ h \in HostConfig
    BY ConfigIs DEF TypeOK, HostsKept
  <1>2. h.hostname \in Hostnames
    BY <1>1 DEF HostsKept, Entered
  <1>3. h.labels \in Seq(Labels)
    BY <1>1 DEF HostConfig
  <1>4. ASSUME NEW p \in PlacesOf(next) PROVE Listed(h, p) \in Seq(DOMAIN cfg.checks)
    <2>1. CASE p = 0
      <3>1. 0 \notin DOMAIN h.labels
        BY <1>3
      <3>2. Listed(h, p) = byHost[h.hostname]
        BY <2>1, <3>1 DEF Listed
      <3> QED
        BY <1>2, <3>2 DEF TypeOK
    <2>2. CASE p # 0 /\ p \in DOMAIN h.labels
      <3>1. h.labels[p] \in Labels
        BY <1>3, <2>2
      <3>2. Listed(h, p) = byLabel[h.labels[p]]
        BY <2>2 DEF Listed
      <3> QED
        BY <3>1, <3>2 DEF TypeOK
    <2>3. CASE p # 0 /\ p \notin DOMAIN h.labels
      BY <2>3 DEF Listed, TypeOK
    <2> QED
      BY <2>1, <2>2, <2>3
  <1> QED
    BY <1>1, <1>2, <1>3, <1>4 DEF PlacesOf, List, TypeOK

LEMMA AddSettled == ASSUME Settled, AddCheck PROVE Settled'
  <1>1. /\ at = "adding" /\ at' = "adding" /\ item <= Len(List) /\ item' = item + 1
        /\ UNCHANGED <<file, cfg, maps, next, source, made>>
        /\ next \in DOMAIN cfg.hosts /\ List' = List
    BY DEF Settled, HostsKept, AddCheck, List, Listed, maps
  <1>2. List[item] \in DOMAIN cfg.checks /\ Len(List) \in Nat /\ item \in Nat /\ item >= 1
    BY <1>1, ListIs DEF Settled
  <1>3. /\ assigned' \in Seq(DOMAIN cfg.checks)
        /\ assignments' \in Seq([host : DOMAIN cfg.hosts, check : DOMAIN cfg.checks])
    <2> DEFINE D == DOMAIN cfg.checks
               A == [host : DOMAIN cfg.hosts, check : D]
               a == [host |-> next, check |-> List[item]]
    <2>1. a \in A /\ List[item] \in D
      BY <1>1, <1>2
    <2>2. assigned \in Seq(D) /\ assignments \in Seq(A)
      BY DEF Settled, TypeOK
    <2>3. \/ UNCHANGED <<assigned, assignments>>
          \/ assigned' = Append(assigned, List[item]) /\ assignments' = Append(assignments, a)
      BY DEF AddCheck
    <2> HIDE DEF A, a, D
    <2>4. assigned' \in Seq(D)
      BY <2>1, <2>2, <2>3
    <2>5. assignments' \in Seq(A)
      BY <2>1, <2>2, <2>3
    <2> QED
      BY <2>4, <2>5 DEF A, D
  <1>4. TypeOK'
    <2>1. next' \in 1..(Rounds' + 1) /\ item' \in 1..(Len(List') + 1)
      BY <1>1, <1>2, Numbers DEF Settled, Rounds
    <2>2. Range(triggers') = {}
      BY <1>1 DEF Settled, Fresh, Range, made
    <2> QED
      BY <1>1, <1>3, <2>1, <2>2 DEF Settled, TypeOK, maps, made
  <1>5. Fresh' /\ DefaultsKept' /\ SinksKept' /\ HostsKept'
    BY <1>1 DEF Settled, Fresh, DefaultsKept, SinksKept, HostsKept, Entered, Done, maps, made
  <1> QED
    BY <1>1, <1>4, <1>5 DEF Settled

LEMMA NextListSettled == ASSUME Settled, NextList PROVE Settled'
  <1>1. /\ at = "adding" /\ at' = "adding" /\ source <= Len(cfg.hosts[next].labels)
        /\ source' = source + 1 /\ item' = 1
        /\ UNCHANGED <<file, cfg, maps, next, assigned, assignments, made>>
    BY DEF NextList
  <1>2. /\ source' \in PlacesOf(next) /\ List' = Listed(cfg.hosts[next], source')
        /\ Len(List') \in Nat
    <2>1. source' \in PlacesOf(next)
      BY <1>1, ListIs DEF Settled, PlacesOf
    <2>2. List' = Listed(cfg.hosts[next], source')
      BY <1>1 DEF List, Listed, maps
    <2> QED
      BY <1>1, <2>1, <2>2, ListIs DEF Settled
  <1>3. TypeOK'
    <2>1. /\ next' \in 1..(Rounds' + 1) /\ item' \in 1..(Len(List') + 1)
          /\ source' \in 0..(Len(cfg'.hosts[next'].labels) + 1)
      BY <1>1, <1>2, Numbers DEF Settled, Rounds, PlacesOf
    <2> QED
      BY <1>1, <2>1 DEF Settled, TypeOK, maps, made
  <1>4. Fresh' /\ DefaultsKept' /\ SinksKept' /\ HostsKept'
    BY <1>1 DEF Settled, Fresh, DefaultsKept, SinksKept, HostsKept, Entered, Done, maps, made
  <1> QED
    BY <1>1, <1>3, <1>4 DEF Settled

LEMMA LeaveSettled == ASSUME Settled, LeaveHost PROVE Settled'
  <1>1. /\ at = "adding" /\ at' = "hosts" /\ next' = next + 1
        /\ byHost' = [byHost EXCEPT ![cfg.hosts[next].hostname] = assigned]
        /\ UNCHANGED <<file, cfg, byLabel, anyHost, entry, assignments, made>>
        /\ next \in 1..Len(cfg.hosts) /\ Len(cfg.hosts) \in Nat
    BY Numbers DEF Settled, HostsKept, LeaveHost, ByHostAfter
  <1>2. byHost' \in [Hostnames -> Seq(DOMAIN cfg.checks)]
    BY <1>1 DEF Settled, TypeOK
  <1>3. TypeOK'
    <2>1. next' \in 1..(Rounds' + 1)
      BY <1>1 DEF Rounds
    <2> QED
      BY <1>1, <1>2, <2>1 DEF Settled, TypeOK, Stages, entry, made
  <1>4. Fresh' /\ DefaultsKept' /\ SinksKept'
    BY <1>1 DEF Settled, Fresh, DefaultsKept, SinksKept, entry, made
  <1>5. HostsKept'
    <2>1. \A e \in DOMAIN cfg.hosts : Entered(e)' => Entered(e)
      BY <1>1, Numbers DEF Settled, Entered, Done
    <2> QED
      BY <1>1, <2>1 DEF Settled, HostsKept
  <1> QED
    BY <1>1, <1>3, <1>4, <1>5 DEF Settled

LEMMA ValidateSettled == ASSUME Settled, Validate PROVE Settled'
  <1>1. /\ at = "validate" /\ at' \in {"notifiers", "fatal"} /\ next = 1
        /\ at' = "notifiers" => Valid
        /\ UNCHANGED <<file, cfg, maps, next, entry, assignments, made>>
    BY DEF Validate, Settled, Fresh
  <1>2. TypeOK'
    BY <1>1, Numbers DEF Settled, TypeOK, Stages, Rounds, maps, entry, made
  <1>3. Fresh' /\ DefaultsKept' /\ HostsKept'
    BY <1>1 DEF Settled, Fresh, DefaultsKept, HostsKept, Entered, Done, maps, entry, made
  <1>4. SinksKept'
    <2>1. Valid' <=> Valid
      BY <1>1 DEF Valid, ValidAdmin, ValidNotifier, ValidCheck
    <2> QED
      BY <1>1, <2>1 DEF Settled, Fresh, SinksKept, made
  <1> QED
    BY <1>1, <1>2, <1>3, <1>4 DEF Settled

LEMMA NotifierSettled == ASSUME Settled, BuildNotifier PROVE Settled'
  <1>1. /\ at = "notifiers" /\ at' = "notifiers" /\ next \in 1..Len(cfg.notifiers)
        /\ next' = next + 1 /\ Len(cfg.notifiers) \in Nat
        /\ UNCHANGED <<file, cfg, maps, entry, assignments, board, triggers>>
    BY Numbers DEF Settled, BuildNotifier, Round, Rounds
  <1>2. Valid /\ Valid'
    BY <1>1 DEF Settled, SinksKept, Valid, ValidAdmin, ValidNotifier, ValidCheck
  <1>3. /\ cfg.notifiers[next] \in {"log", "telegram"} /\ Built(cfg.notifiers[next])
        /\ sinks' = Append(sinks, cfg.notifiers[next])
    BY <1>1, <1>2 DEF Valid, ValidNotifier, Built, BuildNotifier
  <1>4. /\ sinks' \in Seq({"log", "telegram", "nop"}) /\ Len(sinks') = next
        /\ \A i \in 1..next : sinks'[i] = cfg.notifiers[i]
    BY <1>1, <1>3 DEF Settled, TypeOK, SinksKept
  <1>5. TypeOK'
    BY <1>1, <1>4 DEF Settled, TypeOK, Stages, Rounds, maps, entry
  <1>6. Fresh' /\ DefaultsKept' /\ HostsKept'
    BY <1>1 DEF Settled, Fresh, DefaultsKept, HostsKept, Entered, Done, maps, entry
  <1>7. SinksKept'
    BY <1>1, <1>2, <1>4 DEF SinksKept
  <1> QED
    BY <1>1, <1>5, <1>6, <1>7 DEF Settled

LEMMA ManagerSettled == ASSUME Settled, NewManager PROVE Settled'
  <1>1. /\ at = "notifiers" /\ at' = "board" /\ next = Len(cfg.notifiers) + 1 /\ next' = 1
        /\ UNCHANGED <<file, cfg, maps, entry, assignments, board, triggers>>
    BY Numbers DEF Settled, NewManager, Past, Rounds
  <1>2. sinks = cfg.notifiers
    <2>1. /\ sinks \in Seq({"log", "telegram", "nop"}) /\ cfg.notifiers \in Seq(Strings)
          /\ Len(sinks) = Len(cfg.notifiers)
          /\ \A i \in 1..Len(sinks) : sinks[i] = cfg.notifiers[i]
      BY <1>1, ConfigIs, Numbers DEF Settled, TypeOK, SinksKept
    <2> QED
      BY <2>1
  <1>3. sinks' = cfg.notifiers
    BY <1>1, <1>2 DEF NewManager, Settled, DefaultsKept
  <1>4. Valid'
    BY <1>1 DEF Settled, SinksKept, Valid, ValidAdmin, ValidNotifier, ValidCheck
  <1>5. TypeOK'
    BY <1>1, <1>2, <1>3, Numbers DEF Settled, TypeOK, Stages, Rounds, maps, entry
  <1>6. Fresh' /\ DefaultsKept' /\ HostsKept'
    BY <1>1 DEF Settled, Fresh, DefaultsKept, HostsKept, Entered, Done, maps, entry
  <1>7. SinksKept'
    BY <1>1, <1>3, <1>4 DEF SinksKept
  <1> QED
    BY <1>1, <1>5, <1>6, <1>7 DEF Settled

LEMMA LaunchSettled == ASSUME Settled, NewBoard \/ Register PROVE Settled'
  <1>1. /\ at \in {"board", "launch"} /\ at' = at /\ next \in DOMAIN assignments
        /\ next' = next + 1 /\ next <= Len(assignments) /\ Len(assignments) \in Nat
        /\ UNCHANGED <<file, cfg, maps, entry, assignments, sinks>>
        /\ \/ at = "board" /\ UNCHANGED triggers
           \/ at = "launch" /\ UNCHANGED board
                /\ triggers' = Put(triggers, Key(assignments[next]), assignments[next])
    BY Numbers DEF Settled, TypeOK, NewBoard, Register, Round, Rounds
  <1>2. Range(triggers') \subseteq Range(assignments)
    BY <1>1 DEF Settled, TypeOK, Put, Range
  <1>3. TypeOK'
    <2>1. next' \in 1..(Rounds' + 1)
      BY <1>1 DEF Rounds
    <2> QED
      BY <1>1, <1>2, <2>1 DEF Settled, TypeOK, Stages, maps, entry
  <1>4. Valid'
    BY <1>1 DEF Settled, SinksKept, Valid, ValidAdmin, ValidNotifier, ValidCheck
  <1>5. Fresh' /\ DefaultsKept' /\ HostsKept' /\ SinksKept'
    BY <1>1, <1>4 DEF Settled, Fresh, DefaultsKept, HostsKept, SinksKept, Entered, Done, maps, entry
  <1> QED
    BY <1>1, <1>3, <1>5 DEF Settled

LEMMA OverSettled == ASSUME Settled, LoopOver PROVE Settled'
  <1>1. /\ next > Rounds /\ next' = 1
        /\ \/ at = "inject" /\ at' = "checks"
           \/ at = "maps" /\ at' = "hosts"
           \/ at = "hosts" /\ at' = "validate" /\ next = Len(cfg.hosts) + 1
           \/ at = "board" /\ at' = "launch"
           \/ at = "launch" /\ at' = "running"
        /\ UNCHANGED <<file, cfg, maps, entry, assignments, made>>
    BY Numbers DEF Settled, LoopOver, Past, Rounds
  <1>2. TypeOK'
    BY <1>1, Numbers DEF Settled, TypeOK, Stages, Rounds, maps, entry, made
  <1>3. Fresh' /\ DefaultsKept'
    BY <1>1 DEF Settled, Fresh, DefaultsKept, maps, entry, made
  <1>4. HostsKept'
    <2>1. \A e \in DOMAIN cfg.hosts : Entered(e)' => Entered(e)
      BY <1>1, Numbers DEF Settled, Entered, Done
    <2> QED
      BY <1>1, <2>1 DEF Settled, HostsKept
  <1>5. SinksKept'
    <2>1. Valid' <=> Valid
      BY <1>1 DEF Valid, ValidAdmin, ValidNotifier, ValidCheck
    <2> QED
      BY <1>1, <2>1 DEF Settled, SinksKept, made
  <1> QED
    BY <1>1, <1>2, <1>3, <1>4, <1>5 DEF Settled

LEMMA SettledStep == Settled /\ [Next]_vars => Settled'
  <1> SUFFICES ASSUME Settled, [Next]_vars PROVE Settled'
    OBVIOUS
  <1>1. CASE UNCHANGED vars
    BY <1>1
       DEF Settled, TypeOK, Rounds, List, Listed, Fresh, DefaultsKept, HostsKept, SinksKept, Entered, Done,
           Valid, ValidAdmin, ValidNotifier, ValidCheck, vars, maps, entry, made
  <1> QED
    BY <1>1, ReadSettled, DefaultsSettled, InjectSettled, ChecksSettled, CompileSettled,
       EnterSettled, AddSettled, NextListSettled, LeaveSettled, ValidateSettled,
       NotifierSettled, ManagerSettled, LaunchSettled, OverSettled DEF Next

LEMMA SettledAlways == Spec => []Settled
  BY InitSettled, SettledStep, PTL DEF Spec

\* The compiled configuration and the maps of loader.go keep their types.
THEOREM ConfigTypeCorrect == Spec => []TypeOK
  <1>1. Settled => TypeOK
    BY DEF Settled
  <1> QED
    BY <1>1, SettledAlways, PTL

\* A configuration that Load accepts and main runs on is one that the scheduler, the
\* alert manager and the session manager can rely on.
THEOREM RunsAsAssumed == Spec => []AssumptionsMet
  <1>1. Settled => AssumptionsMet
    <2> SUFFICES ASSUME Settled, at = "running" PROVE AssumptionsMet
      BY DEF AssumptionsMet
    <2>1. ASSUME NEW k \in DOMAIN assignments
          PROVE  /\ \A s \in Settings : CheckOf(assignments[k]).set[s] > 0
                 /\ CheckOf(assignments[k]).type \in {"nrpe", "ping"}
                 /\ cfg.hosts[assignments[k].host].hostname \in Hostnames
                 /\ cfg.hosts[assignments[k].host].tls \in BOOLEAN
      <3>1. assignments[k].host \in DOMAIN cfg.hosts /\ assignments[k].check \in DOMAIN cfg.checks
        BY AssignmentsAre DEF Settled
      <3>2. Entered(assignments[k].host)
        BY <3>1 DEF Entered, Done
      <3>3. ValidCheck(CheckOf(assignments[k]))
        BY <3>1 DEF Settled, SinksKept, Valid, CheckOf
      <3> QED
        BY <3>1, <3>2, <3>3 DEF Settled, HostsKept, DefaultsKept, ValidCheck, CheckOf
    <2> QED
      BY <2>1 DEF AssumptionsMet, Settled, DefaultsKept, SinksKept, Valid
  <1> QED
    BY <1>1, SettledAlways, PTL

-----------------------------------------------------------------------------
(* The lists of a host *)

Sifted(list, W) ==
  Range(list) = W /\ \A i, j \in DOMAIN list : i < j => list[i] < list[j]

Reached == IF at = "maps" THEN 1..(next - 1) ELSE DOMAIN cfg.checks

\* What an earlier entry of hostname h has left for the next one.
Inherited(h) ==
  LET list == byHost[h] IN
  /\ Range(list) = Expected(h, next - 1)
  /\ \A i, j \in DOMAIN list : NameOf(list[i]) = NameOf(list[j]) => i = j
  /\ \A e \in Twins(h, next - 1), c \in DOMAIN cfg.checks :
       AsksName(e, c) => \E i \in DOMAIN list : NameOf(list[i]) = NameOf(c)

ListsKept ==
  /\ at \in {"maps", "hosts", "adding"} =>
       /\ Sifted(anyHost, {c \in Reached : cfg.checks[c].any})
       /\ \A l \in Labels : Sifted(byLabel[l], {c \in Reached : l \in cfg.checks[c].labels})
  /\ \A h \in Hostnames :
       \/ at \notin {"maps", "hosts", "adding"}
       \/ /\ at = "maps" \/ Twins(h, next - 1) = {}
          /\ Sifted(byHost[h], {c \in Reached : h \in cfg.checks[c].hosts})
       \/ /\ at # "maps" /\ Twins(h, next - 1) # {}
          /\ Inherited(h)

\* The i-th check of the p-th list, and which places come first.
Of(p)     == Listed(cfg.hosts[next], p)
Passed(p, i)       == p < source \/ (p = source /\ i < item)
Sooner(p, i, q, j) == p < q \/ (p = q /\ i <= j)

\* The place holds the first check of its name.
Leads(p, i) ==
  \A q \in PlacesOf(next) : \A j \in DOMAIN Of(q) :
    NameOf(Of(q)[j]) = NameOf(Of(p)[i]) => Sooner(p, i, q, j)

AddedKept ==
  at = "adding" =>
    /\ \A k \in DOMAIN assigned : \E p \in PlacesOf(next) : \E i \in DOMAIN Of(p) :
         Passed(p, i) /\ Leads(p, i) /\ assigned[k] = Of(p)[i]
    /\ \A p \in PlacesOf(next) : \A i \in DOMAIN Of(p) : Passed(p, i) =>
         \E k \in DOMAIN assigned : NameOf(assigned[k]) = NameOf(Of(p)[i])
    /\ \A k, l \in DOMAIN assigned : NameOf(assigned[k]) = NameOf(assigned[l]) => k = l

AssignedKept ==
  at \in Compiled \cup {"maps"} =>
    /\ \A k \in DOMAIN assignments : Entered(assignments[k].host)
    /\ \A e \in DOMAIN cfg.hosts : Done(e) => ChecksOf(e) = Expected(cfg.hosts[e].hostname, e)
    /\ at = "adding" => ChecksOf(next) = Range(assigned)
    /\ IsInjective(assignments)

Kept == ListsKept /\ AddedKept /\ AssignedKept

LEMMA OfIs ==
  ASSUME Settled, ListsKept, at = "adding"
  PROVE  /\ \A p \in PlacesOf(next) : p # 0 =>
              Sifted(Of(p), {c \in DOMAIN cfg.checks : Asks(next, c, p)})
         /\ Of(0) = byHost[cfg.hosts[next].hostname]
         /\ Twins(cfg.hosts[next].hostname, next - 1) = {} =>
              Sifted(Of(0), {c \in DOMAIN cfg.checks : Asks(next, c, 0)})
  <1> DEFINE h == cfg.hosts[next]
  <1>1. /\ h \in HostConfig /\ h.hostname \in Hostnames /\ Len(h.labels) \in Nat
        /\ DOMAIN h.labels = 1..Len(h.labels) /\ h.labels \in Seq(Labels)
    BY ListIs DEF Settled, HostConfig
  <1>2. Of(0) = byHost[h.hostname]
    BY <1>1 DEF Of, Listed
  <1>3. ASSUME NEW c, NEW p \in PlacesOf(next)
        PROVE  Asks(next, c, p) <=> \/ p = 0 /\ h.hostname \in cfg.checks[c].hosts
                                    \/ p \in 1..Len(h.labels) /\ h.labels[p] \in cfg.checks[c].labels
                                    \/ p = Len(h.labels) + 1 /\ cfg.checks[c].any
    BY <1>1 DEF Asks
  <1>4. ASSUME NEW p \in PlacesOf(next), p # 0
        PROVE  Sifted(Of(p), {c \in DOMAIN cfg.checks : Asks(next, c, p)})
    <2>1. p \in 1..Len(h.labels) \/ p = Len(h.labels) + 1
      BY <1>1, <1>4 DEF PlacesOf
    <2>2. CASE p \in 1..Len(h.labels)
      <3>1. Of(p) = byLabel[h.labels[p]] /\ h.labels[p] \in Labels
        BY <1>1, <1>4, <2>2 DEF Of, Listed
      <3>2. \A c : Asks(next, c, p) <=> h.labels[p] \in cfg.checks[c].labels
        BY <1>1, <1>3, <1>4, <2>2
      <3>3. Sifted(Of(p), {c \in DOMAIN cfg.checks : h.labels[p] \in cfg.checks[c].labels})
        BY <3>1 DEF ListsKept, Reached
      <3> QED
        BY <3>2, <3>3
    <2>3. CASE p = Len(h.labels) + 1
      <3>1. Of(p) = anyHost
        BY <1>1, <1>4, <2>3 DEF Of, Listed
      <3>2. \A c : Asks(next, c, p) <=> cfg.checks[c].any
        BY <1>1, <1>3, <1>4, <2>3
      <3>3. Sifted(Of(p), {c \in DOMAIN cfg.checks : cfg.checks[c].any})
        BY <3>1 DEF ListsKept, Reached
      <3> QED
        BY <3>2, <3>3
    <2> QED
      BY <2>1, <2>2, <2>3
  <1>5. ASSUME Twins(h.hostname, next - 1) = {}
        PROVE  Sifted(Of(0), {c \in DOMAIN cfg.checks : Asks(next, c, 0)})
    <2>1. Sifted(byHost[h.hostname], {c \in Reached : h.hostname \in cfg.checks[c].hosts})
      BY <1>1, <1>5 DEF ListsKept
    <2>2. Reached = DOMAIN cfg.checks
      BY DEF Reached
    <2>3. \A c : Asks(next, c, 0) <=> h.hostname \in cfg.checks[c].hosts
      BY <1>1, <1>3 DEF PlacesOf
    <2> QED
      BY <1>2, <2>1, <2>2, <2>3
  <1> QED
    BY <1>2, <1>4, <1>5

\* A list that no earlier entry has left holds what is asked for there, in order.
LEMMA Asked ==
  ASSUME Settled, ListsKept, at = "adding", NEW p \in PlacesOf(next),
         p # 0 \/ Twins(cfg.hosts[next].hostname, next - 1) = {}
  PROVE  /\ \A i \in DOMAIN Of(p) :
              Of(p)[i] \in DOMAIN cfg.checks /\ Asks(next, Of(p)[i], p)
         /\ \A c \in DOMAIN cfg.checks : Asks(next, c, p) => \E i \in DOMAIN Of(p) : Of(p)[i] = c
         /\ \A i, j \in DOMAIN Of(p) : i <= j <=> Of(p)[i] <= Of(p)[j]
  <1> DEFINE W == {c \in DOMAIN cfg.checks : Asks(next, c, p)}
  <1>1. Sifted(Of(p), W)
    BY OfIs
  <1>2. /\ Of(p) \in Seq(DOMAIN cfg.checks) /\ Len(Of(p)) \in Nat
        /\ DOMAIN Of(p) = 1..Len(Of(p)) /\ DOMAIN cfg.checks = 1..Len(cfg.checks)
        /\ Len(cfg.checks) \in Nat
    BY ListIs, Numbers DEF Settled, Of
  <1>3. \A i \in DOMAIN Of(p) : Of(p)[i] \in W /\ Of(p)[i] \in Nat
    BY <1>1, <1>2 DEF Sifted, Range
  <1>4. \A c \in W : \E i \in DOMAIN Of(p) : Of(p)[i] = c
    BY <1>1 DEF Sifted, Range
  <1>5. ASSUME NEW i \in DOMAIN Of(p), NEW j \in DOMAIN Of(p)
        PROVE  i <= j <=> Of(p)[i] <= Of(p)[j]
    <2>1. i \in Nat /\ j \in Nat /\ Of(p)[i] \in Nat /\ Of(p)[j] \in Nat
      BY <1>2, <1>3
    <2>2. i < j => Of(p)[i] < Of(p)[j]
      BY <1>1 DEF Sifted
    <2>3. j < i => Of(p)[j] < Of(p)[i]
      BY <1>1 DEF Sifted
    <2> QED
      BY <2>1, <2>2, <2>3
  <1> QED
    BY <1>3, <1>4, <1>5

\* The entry's own preference, when no earlier entry of its hostname decides.
LEMMA OwnChoice ==
  ASSUME Settled, ListsKept, at = "adding", NEW p \in PlacesOf(next), NEW i \in DOMAIN Of(p),
         p # 0 \/ Twins(cfg.hosts[next].hostname, next - 1) = {},
         Leads(p, i),
         \A d \in Namesakes(Of(p)[i]) : Asks(next, d, 0) =>
           Twins(cfg.hosts[next].hostname, next - 1) = {}
  PROVE  Of(p)[i] \in DOMAIN cfg.checks /\ Prefers(next, Of(p)[i])
  <1> DEFINE c == Of(p)[i]
  <1>1. c \in DOMAIN cfg.checks /\ Asks(next, c, p)
    BY Asked
  <1>2. ASSUME NEW d \in Namesakes(c), NEW q \in PlacesOf(next), Asks(next, d, q)
        PROVE  p < q \/ (p = q /\ c <= d)
    <2>1. q # 0 \/ Twins(cfg.hosts[next].hostname, next - 1) = {}
      BY <1>2
    <2>2. d \in DOMAIN cfg.checks /\ NameOf(d) = NameOf(c)
      BY DEF Namesakes
    <2>3. PICK j \in DOMAIN Of(q) : Of(q)[j] = d
      BY <1>2, <2>1, <2>2, Asked
    <2>4. p < q \/ (p = q /\ i <= j)
      BY <2>2, <2>3 DEF Leads, Sooner
    <2>5. p = q /\ i <= j => c <= d
      BY <2>3, Asked
    <2> QED
      BY <2>4, <2>5
  <1> QED
    BY <1>1, <1>2 DEF Prefers

\* The converse: what it prefers is the first of its name in the lists.
LEMMA OwnLeads ==
  ASSUME Settled, ListsKept, at = "adding", NEW c \in DOMAIN cfg.checks, Prefers(next, c),
         \/ Twins(cfg.hosts[next].hostname, next - 1) = {}
         \/ /\ ~Asks(next, c, 0)
            /\ \A j \in DOMAIN Of(0) : NameOf(Of(0)[j]) # NameOf(c)
  PROVE  \E p \in PlacesOf(next) : \E i \in DOMAIN Of(p) : Leads(p, i) /\ Of(p)[i] = c
  <1>1. PICK p \in PlacesOf(next) :
          /\ Asks(next, c, p)
          /\ \A d \in Namesakes(c), q \in PlacesOf(next) : Asks(next, d, q) => p < q \/ (p = q /\ c <= d)
    BY DEF Prefers
  <1>2. p # 0 \/ Twins(cfg.hosts[next].hostname, next - 1) = {}
    BY <1>1
  <1>3. PICK i \in DOMAIN Of(p) : Of(p)[i] = c
    BY <1>1, <1>2, Asked
  <1>4. ASSUME NEW q \in PlacesOf(next), NEW j \in DOMAIN Of(q), NameOf(Of(q)[j]) = NameOf(c)
        PROVE  Sooner(p, i, q, j)
    <2>1. q # 0 \/ Twins(cfg.hosts[next].hostname, next - 1) = {}
      BY <1>4
    <2>2. Of(q)[j] \in Namesakes(c) /\ Asks(next, Of(q)[j], q)
      BY <1>4, <2>1, Asked DEF Namesakes
    <2>3. p < q \/ (p = q /\ c <= Of(q)[j])
      BY <1>1, <2>2
    <2>4. p = q /\ c <= Of(q)[j] => i <= j
      BY <1>2, <1>3, Asked
    <2> QED
      BY <2>3, <2>4 DEF Sooner
  <1> QED
    BY <1>3, <1>4 DEF Leads

LEMMA AsksByName ==
  ASSUME TypeOK, NEW e \in DOMAIN cfg.hosts, NEW c
  PROVE  /\ Asks(e, c, 0) <=> cfg.hosts[e].hostname \in cfg.checks[c].hosts
         /\ 0 \in PlacesOf(e) /\ Len(cfg.hosts[e].labels) \in Nat
  <1>1. cfg.hosts[e] \in HostConfig
    BY ConfigIs DEF TypeOK
  <1>2. /\ Len(cfg.hosts[e].labels) \in Nat
        /\ DOMAIN cfg.hosts[e].labels = 1..Len(cfg.hosts[e].labels)
    BY <1>1 DEF HostConfig
  <1> QED
    BY <1>2 DEF Asks, PlacesOf

LEMMA TwinsAre ==
  ASSUME TypeOK, NEW n \in DOMAIN cfg.hosts
  PROVE  /\ \A h, x : x \in Twins(h, n) <=>
              x \in Twins(h, n - 1) \/ (x = n /\ cfg.hosts[n].hostname = h)
         /\ \A h, x : x \in Twins(h, n) => x \in DOMAIN cfg.hosts /\ cfg.hosts[x].hostname = h
         /\ \A h, x : x \in Twins(h, n - 1) => x # n
  BY Numbers DEF Twins

\* What its own name asks for, the earlier entries of the name have asked for as well.
LEMMA ByNameBefore ==
  ASSUME Settled, ListsKept, at = "adding",
         NEW d \in DOMAIN cfg.checks, Asks(next, d, 0),
         Twins(cfg.hosts[next].hostname, next - 1) # {}
  PROVE  \E j \in DOMAIN Of(0) : NameOf(Of(0)[j]) = NameOf(d)
  <1> DEFINE h == cfg.hosts[next].hostname
  <1>1. next \in DOMAIN cfg.hosts /\ h \in Hostnames
    BY ListIs DEF Settled
  <1>2. PICK x \in Twins(h, next - 1) : TRUE
    OBVIOUS
  <1>3. x \in DOMAIN cfg.hosts /\ cfg.hosts[x].hostname = h
    BY <1>1, <1>2, TwinsAre DEF Settled
  <1>4. Asks(x, d, 0) /\ 0 \in PlacesOf(x)
    BY <1>1, <1>3, AsksByName DEF Settled
  <1>5. AsksName(x, d)
    BY <1>4 DEF AsksName, Namesakes
  <1>6. Inherited(h)
    BY <1>1 DEF ListsKept
  <1> QED
    BY <1>2, <1>5, <1>6, OfIs DEF Inherited

\* What a host is to run, by all entries of its name so far, are the first checks of
\* each name in the lists.
LEMMA Chosen ==
  ASSUME Settled, ListsKept, at = "adding", NEW c
  PROVE  c \in Expected(cfg.hosts[next].hostname, next) <=>
           \E p \in PlacesOf(next) : \E i \in DOMAIN Of(p) : Leads(p, i) /\ Of(p)[i] = c
  <1> DEFINE h == cfg.hosts[next].hostname
             T == Twins(h, next - 1)
  <1>1. /\ next \in DOMAIN cfg.hosts /\ h \in Hostnames /\ TypeOK
        /\ \A x : x \in Twins(h, next) <=> x \in T \/ x = next
        /\ \A x \in Twins(h, next) : x \in DOMAIN cfg.hosts /\ cfg.hosts[x].hostname = h
        /\ 0 \in PlacesOf(next)
    BY ListIs, TwinsAre, AsksByName DEF Settled
  <1>2. ASSUME NEW e, NEW d, NEW f, NameOf(d) = NameOf(f), AsksName(e, d) PROVE AsksName(e, f)
    BY <1>2 DEF AsksName, Namesakes
  <1>3. ASSUME NEW d \in DOMAIN cfg.checks, NEW e, Prefers(e, d) PROVE AsksName(e, d)
    BY <1>3 DEF Prefers, AsksName, Namesakes
  <1>4. Decides(next, c) <=> \A x \in T : ~AsksName(x, c)
    BY DEF Decides
  <1>5. CASE T = {}
    <2>1. c \in Expected(h, next) <=> c \in DOMAIN cfg.checks /\ Prefers(next, c)
      BY <1>1, <1>4, <1>5 DEF Expected
    <2>2. ASSUME c \in DOMAIN cfg.checks, Prefers(next, c)
          PROVE  \E p \in PlacesOf(next) : \E i \in DOMAIN Of(p) : Leads(p, i) /\ Of(p)[i] = c
      BY <1>5, <2>2, OwnLeads
    <2>3. ASSUME NEW p \in PlacesOf(next), NEW i \in DOMAIN Of(p), Leads(p, i), Of(p)[i] = c
          PROVE  c \in DOMAIN cfg.checks /\ Prefers(next, c)
      BY <1>5, <2>3, OwnChoice
    <2> QED
      BY <2>1, <2>2, <2>3
  <1>6. CASE T # {}
    <2>1. Inherited(h) /\ Of(0) = byHost[h]
      BY <1>1, <1>6, OfIs DEF ListsKept
    <2>2. \A d : d \in Expected(h, next - 1) <=> \E j \in DOMAIN Of(0) : Of(0)[j] = d
      BY <2>1 DEF Inherited, Range
    <2>3. c \in Expected(h, next) <=>
            \/ c \in Expected(h, next - 1)
            \/ c \in DOMAIN cfg.checks /\ Decides(next, c) /\ Prefers(next, c)
      BY <1>1 DEF Expected
    <2>4. ASSUME NEW j \in DOMAIN Of(0), NameOf(Of(0)[j]) = NameOf(c)
          PROVE  \E x \in T : AsksName(x, c)
      <3>1. Of(0)[j] \in Expected(h, next - 1)
        BY <2>2
      <3>2. PICK x \in T : Of(0)[j] \in DOMAIN cfg.checks /\ Prefers(x, Of(0)[j])
        BY <3>1 DEF Expected
      <3> QED
        BY <1>2, <1>3, <2>4, <3>2
    <2>5. ASSUME c \in Expected(h, next - 1)
          PROVE  \E i \in DOMAIN Of(0) : Leads(0, i) /\ Of(0)[i] = c
      <3>1. PICK i \in DOMAIN Of(0) : Of(0)[i] = c
        BY <2>2, <2>5
      <3>2. ASSUME NEW q \in PlacesOf(next), NEW j \in DOMAIN Of(q), NameOf(Of(q)[j]) = NameOf(c)
            PROVE  Sooner(0, i, q, j)
        <4>1. CASE q = 0
          <5>1. i = j
            BY <2>1, <3>1, <3>2, <4>1 DEF Inherited
          <5>2. i \in Nat
            BY <1>1, ListIs DEF Settled, Of
          <5> QED
            BY <4>1, <5>1, <5>2 DEF Sooner
        <4>2. CASE q # 0
          BY <1>1, <4>2, AsksByName DEF Sooner, PlacesOf
        <4> QED
          BY <4>1, <4>2
      <3> QED
        BY <3>1, <3>2 DEF Leads
    <2>6. ASSUME c \in DOMAIN cfg.checks, Decides(next, c), Prefers(next, c)
          PROVE  \E p \in PlacesOf(next) : \E i \in DOMAIN Of(p) : Leads(p, i) /\ Of(p)[i] = c
      <3>1. \A j \in DOMAIN Of(0) : NameOf(Of(0)[j]) # NameOf(c)
        BY <1>4, <2>4, <2>6
      <3>2. ~Asks(next, c, 0)
        BY <1>6, <2>6, <3>1, ByNameBefore
      <3> QED
        BY <2>6, <3>1, <3>2, OwnLeads
    <2>7. ASSUME NEW p \in PlacesOf(next), NEW i \in DOMAIN Of(p), Leads(p, i), Of(p)[i] = c
          PROVE  \/ c \in Expected(h, next - 1)
                 \/ c \in DOMAIN cfg.checks /\ Decides(next, c) /\ Prefers(next, c)
      <3>1. CASE p = 0
        BY <2>2, <2>7, <3>1
      <3>2. CASE p # 0
        <4>1. \A j \in DOMAIN Of(0) : NameOf(Of(0)[j]) # NameOf(c)
          BY <1>1, <2>7, <3>2, AsksByName DEF Leads, Sooner, PlacesOf
        <4>2. \A d \in Namesakes(c) : ~Asks(next, d, 0)
          BY <1>6, <4>1, ByNameBefore DEF Namesakes
        <4>3. c \in DOMAIN cfg.checks /\ Prefers(next, c)
          BY <2>7, <3>2, <4>2, OwnChoice
        <4>4. \A x \in T : ~AsksName(x, c)
          BY <2>1, <4>1, <4>3 DEF Inherited
        <4> QED
          BY <1>4, <4>3, <4>4
      <3> QED
        BY <3>1, <3>2
    <2> QED
      BY <1>1, <2>3, <2>5, <2>6, <2>7
  <1> QED
    BY <1>5, <1>6

\* When the loop of a host is over, what it took is what the host is to run.
LEMMA FirstsTaken ==
  ASSUME Settled, ListsKept, AddedKept, at = "adding",
         item > Len(List), source > Len(cfg.hosts[next].labels)
  PROVE  /\ Range(assigned) = Expected(cfg.hosts[next].hostname, next)
         /\ \A k, l \in DOMAIN assigned : NameOf(assigned[k]) = NameOf(assigned[l]) => k = l
         /\ \A e \in Twins(cfg.hosts[next].hostname, next), c \in DOMAIN cfg.checks :
              AsksName(e, c) => \E k \in DOMAIN assigned : NameOf(assigned[k]) = NameOf(c)
  <1> DEFINE h == cfg.hosts[next].hostname
             T == Twins(h, next - 1)
  <1>1. /\ next \in DOMAIN cfg.hosts /\ h \in Hostnames
        /\ \A x : x \in Twins(h, next) <=> x \in T \/ x = next
        /\ 0 \in PlacesOf(next)
    BY ListIs, TwinsAre, AsksByName DEF Settled
  <1>2. ASSUME NEW p \in PlacesOf(next), NEW i \in DOMAIN Of(p)
        PROVE  /\ Passed(p, i) /\ i \in Nat /\ p \in Int
               /\ \E k \in DOMAIN assigned : NameOf(assigned[k]) = NameOf(Of(p)[i])
    <2>1. Passed(p, i) /\ i \in Nat /\ p \in Int
      BY ListIs DEF Settled, Of, Passed, PlacesOf
    <2> QED
      BY <2>1 DEF AddedKept
  <1>3. ASSUME NEW c \in Range(assigned) PROVE c \in Expected(h, next)
    <2>1. PICK k \in DOMAIN assigned : assigned[k] = c
      BY DEF Range
    <2>2. \E p \in PlacesOf(next) : \E i \in DOMAIN Of(p) : Leads(p, i) /\ Of(p)[i] = c
      BY <2>1 DEF AddedKept
    <2> QED
      BY <2>2, Chosen
  <1>4. ASSUME NEW c \in Expected(h, next) PROVE c \in Range(assigned)
    <2>0. PICK p \in PlacesOf(next) : \E i \in DOMAIN Of(p) : Leads(p, i) /\ Of(p)[i] = c
      BY Chosen
    <2>1. PICK i \in DOMAIN Of(p) : Leads(p, i) /\ Of(p)[i] = c
      BY <2>0
    <2>2. PICK k \in DOMAIN assigned : NameOf(assigned[k]) = NameOf(c)
      BY <1>2, <2>1
    <2>3. PICK q \in PlacesOf(next) : \E j \in DOMAIN Of(q) : Leads(q, j) /\ assigned[k] = Of(q)[j]
      BY DEF AddedKept
    <2>6. PICK j \in DOMAIN Of(q) : Leads(q, j) /\ assigned[k] = Of(q)[j]
      BY <2>3
    <2>4. Sooner(p, i, q, j) /\ Sooner(q, j, p, i)
      BY <2>1, <2>2, <2>6 DEF Leads
    <2>5. p = q /\ i = j
      BY <1>2, <2>4 DEF Sooner
    <2> QED
      BY <2>1, <2>5, <2>6 DEF Range
  <1>5. ASSUME NEW c \in DOMAIN cfg.checks, NEW j \in DOMAIN Of(0), NameOf(Of(0)[j]) = NameOf(c)
        PROVE  \E k \in DOMAIN assigned : NameOf(assigned[k]) = NameOf(c)
    BY <1>1, <1>2, <1>5
  <1>6. ASSUME NEW e \in Twins(h, next), NEW c \in DOMAIN cfg.checks, AsksName(e, c)
        PROVE  \E k \in DOMAIN assigned : NameOf(assigned[k]) = NameOf(c)
    <2>1. CASE e = next
      <3>1. PICK d \in Namesakes(c), q \in PlacesOf(next) : Asks(next, d, q)
        BY <1>6, <2>1 DEF AsksName
      <3>2. d \in DOMAIN cfg.checks /\ NameOf(d) = NameOf(c)
        BY DEF Namesakes
      <3>3. CASE q # 0 \/ T = {}
        <4>1. PICK i \in DOMAIN Of(q) : Of(q)[i] = d
          BY <3>1, <3>2, <3>3, Asked
        <4> QED
          BY <1>2, <3>2, <4>1
      <3>4. CASE q = 0 /\ T # {}
        BY <1>5, <3>1, <3>2, <3>4, ByNameBefore
      <3> QED
        BY <3>3, <3>4
    <2>2. CASE e \in T
      <3>1. Inherited(h) /\ Of(0) = byHost[h]
        BY <1>1, <2>2, OfIs DEF ListsKept
      <3>2. \E j \in DOMAIN Of(0) : NameOf(Of(0)[j]) = NameOf(c)
        BY <1>6, <2>2, <3>1 DEF Inherited
      <3> QED
        BY <1>5, <3>2
    <2> QED
      BY <1>1, <2>1, <2>2
  <1>7. Range(assigned) = Expected(h, next)
    BY <1>3, <1>4
  <1> QED
    BY <1>6, <1>7 DEF AddedKept

-----------------------------------------------------------------------------
(* The steps *)

\* Nothing that a check is asked for by depends on the TLS setting of a host.
LEMMA SameAsked ==
  ASSUME Settled, cfg'.checks = cfg.checks, DOMAIN cfg'.hosts = DOMAIN cfg.hosts,
         \A e \in DOMAIN cfg.hosts : /\ cfg'.hosts[e].hostname = cfg.hosts[e].hostname
                                     /\ cfg'.hosts[e].labels = cfg.hosts[e].labels
  PROVE  /\ \A c : NameOf(c)' = NameOf(c)
         /\ \A e \in DOMAIN cfg.hosts : \A c : AsksName(e, c)' <=> AsksName(e, c)
         /\ \A h : \A n \in 0..Len(cfg.hosts) :
              Twins(h, n)' = Twins(h, n) /\ Expected(h, n)' = Expected(h, n)
  <1>1. \A c : NameOf(c)' = NameOf(c)
    BY DEF NameOf
  <1>2. \A c : Namesakes(c)' = Namesakes(c)
    BY <1>1 DEF Namesakes
  <1>3. \A e \in DOMAIN cfg.hosts : PlacesOf(e)' = PlacesOf(e)
    BY DEF PlacesOf
  <1>4. \A e \in DOMAIN cfg.hosts : \A c, p : Asks(e, c, p)' <=> Asks(e, c, p)
    BY DEF Asks
  <1>5. \A e \in DOMAIN cfg.hosts : \A c : AsksName(e, c)' <=> AsksName(e, c)
    BY <1>2, <1>3, <1>4 DEF AsksName
  <1>6. \A e \in DOMAIN cfg.hosts : \A c : Prefers(e, c)' <=> Prefers(e, c)
    BY <1>2, <1>3, <1>4 DEF Prefers
  <1>7. DOMAIN cfg.hosts = 1..Len(cfg.hosts) /\ Len(cfg.hosts) \in Nat
    BY Numbers DEF Settled
  <1>8. \A h : \A n \in 0..Len(cfg.hosts) :
          Twins(h, n)' = Twins(h, n) /\ Twins(h, n) \subseteq DOMAIN cfg.hosts
    BY <1>7 DEF Twins
  <1>9. ASSUME NEW d \in DOMAIN cfg.hosts, NEW c PROVE Decides(d, c)' <=> Decides(d, c)
    <2>1. d - 1 \in 0..Len(cfg.hosts)
      BY <1>7
    <2>2. Decides(d, c)' <=> \A x \in Twins(cfg.hosts[d].hostname, d - 1) : ~AsksName(x, c)'
      BY <1>8, <2>1 DEF Decides
    <2> QED
      BY <1>5, <1>8, <2>1, <2>2 DEF Decides
  <1>10. ASSUME NEW h, NEW n \in 0..Len(cfg.hosts) PROVE Expected(h, n)' = Expected(h, n)
    BY <1>6, <1>8, <1>9 DEF Expected
  <1> QED
    BY <1>1, <1>5, <1>8, <1>10

LEMMA InitKept == Init => Kept
  BY DEF Init, Kept, ListsKept, AddedKept, AssignedKept

\* Before compileMaps and when the start has failed there is nothing to keep.
LEMMA OutsideKept == ASSUME at' \in Early \cup {"fatal"} PROVE Kept'
  BY DEF Kept, ListsKept, AddedKept, AssignedKept

\* After it nothing changes what is assigned.
LEMMA ReadyKept ==
  ASSUME Settled, Kept, at \in Ready, at' \in Ready, cfg' = cfg, assignments' = assignments
  PROVE  Kept'
  <1>1. ListsKept' /\ AddedKept'
    BY DEF ListsKept, AddedKept
  <1>2. \A e : ChecksOf(e)' = ChecksOf(e)
    BY DEF ChecksOf
  <1>3. \A e : (Done(e)' <=> Done(e)) /\ (Entered(e)' <=> Entered(e))
    BY DEF Done, Entered
  <1>4. \A e \in DOMAIN cfg.hosts :
          Expected(cfg.hosts[e].hostname, e)' = Expected(cfg.hosts[e].hostname, e)
    <2>1. \A e \in DOMAIN cfg.hosts : e \in 0..Len(cfg.hosts)
      BY Numbers DEF Settled
    <2> QED
      BY <2>1, SameAsked
  <1>5. AssignedKept'
    BY <1>2, <1>3, <1>4 DEF Kept, AssignedKept
  <1> QED
    BY <1>1, <1>5 DEF Kept

LEMMA ChecksKept == ASSUME Settled, ApplyCheckDefaults PROVE Kept'
  <1>1. /\ at' = "maps" /\ next' = 1 /\ assignments' = <<>> /\ anyHost' = <<>>
        /\ byLabel' = [l \in Labels |-> <<>>] /\ byHost' = [h \in Hostnames |-> <<>>]
    BY DEF Settled, Fresh, ApplyCheckDefaults, maps
  <1>2. Reached' = {}
    BY <1>1 DEF Reached
  <1>3. Sifted(<<>>, {})
    BY DEF Sifted, Range
  <1>4. /\ Sifted(anyHost', {c \in Reached' : cfg'.checks[c].any})
        /\ \A l \in Labels : Sifted(byLabel'[l], {c \in Reached' : l \in cfg'.checks[c].labels})
        /\ \A h \in Hostnames : Sifted(byHost'[h], {c \in Reached' : h \in cfg'.checks[c].hosts})
    BY <1>1, <1>2, <1>3
  <1>5. ListsKept'
    BY <1>1, <1>4 DEF ListsKept, Sifted
  <1>6. AddedKept' /\ AssignedKept'
    BY <1>1 DEF AddedKept, AssignedKept, Done, IsInjective
  <1> QED
    BY <1>5, <1>6 DEF Kept

LEMMA JoinedSifted ==
  ASSUME NEW list \in Seq(Nat), next \in Nat, NEW W, W \subseteq 1..(next - 1),
         Sifted(list, W), NEW wanted
  PROVE  Sifted(Joined(list, wanted), W \cup (IF wanted THEN {next} ELSE {}))
  <1>1. CASE ~wanted
    BY <1>1 DEF Joined
  <1>2. CASE wanted
    <2> DEFINE longer == Append(list, next)
    <2>1. /\ longer \in Seq(Nat) /\ DOMAIN longer = 1..(Len(list) + 1) /\ Len(list) \in Nat
          /\ DOMAIN list = 1..Len(list)
          /\ longer[Len(list) + 1] = next /\ \A i \in 1..Len(list) : longer[i] = list[i]
      OBVIOUS
    <2> HIDE DEF longer
    <2>2. \A i \in 1..Len(list) : list[i] \in W /\ list[i] \in Nat /\ list[i] < next
      BY <2>1 DEF Sifted, Range
    <2>3. \A c \in W : \E i \in 1..Len(list) : list[i] = c
      BY <2>1 DEF Sifted, Range
    <2>4. Range(longer) = W \cup {next}
      <3>1. ASSUME NEW d \in W PROVE \E i \in DOMAIN longer : longer[i] = d
        <4>1. PICK i \in 1..Len(list) : list[i] = d
          BY <2>3
        <4> QED
          BY <2>1, <4>1
      <3>2. \A i \in DOMAIN longer : longer[i] \in W \cup {next}
        BY <2>1, <2>2
      <3>3. Len(list) + 1 \in DOMAIN longer
        BY <2>1
      <3> QED
        BY <2>1, <3>1, <3>2, <3>3 DEF Range
    <2>5. ASSUME NEW i \in DOMAIN longer, NEW j \in DOMAIN longer, i < j
          PROVE  longer[i] < longer[j]
      <3>1. CASE j = Len(list) + 1
        BY <2>1, <2>2, <2>5, <3>1
      <3>2. CASE j # Len(list) + 1
        <4>1. i \in DOMAIN list /\ j \in DOMAIN list /\ longer[i] = list[i] /\ longer[j] = list[j]
          BY <2>1, <2>5, <3>2
        <4> QED
          BY <2>5, <4>1 DEF Sifted
      <3> QED
        BY <3>1, <3>2
    <2>6. Sifted(longer, W \cup {next})
      BY <2>4, <2>5 DEF Sifted
    <2> QED
      BY <1>2, <2>6 DEF Joined, longer
  <1> QED
    BY <1>1, <1>2

LEMMA CompileKept == ASSUME Settled, Kept, CompileCheck PROVE Kept'
  <1> DEFINE c == cfg.checks[next]
  <1>1. /\ at = "maps" /\ at' = "maps" /\ next \in DOMAIN cfg.checks /\ next \in Nat /\ next >= 1
        /\ next' = next + 1 /\ cfg' = cfg /\ assignments' = assignments
        /\ anyHost' = Joined(anyHost, c.any)
        /\ \A l \in Labels : byLabel'[l] = Joined(byLabel[l], l \in c.labels)
        /\ \A h \in Hostnames : byHost'[h] = Joined(byHost[h], h \in c.hosts)
    BY Numbers DEF Settled, CompileCheck, Round, Rounds
  <1>2. /\ anyHost \in Seq(Nat) /\ \A l \in Labels : byLabel[l] \in Seq(Nat)
        /\ \A h \in Hostnames : byHost[h] \in Seq(Nat)
    <2>1. DOMAIN cfg.checks \subseteq Nat
      BY Numbers DEF Settled
    <2>2. \A list \in Seq(DOMAIN cfg.checks) : list \in Seq(Nat)
      BY <2>1
    <2> QED
      BY <2>2 DEF Settled, TypeOK
  <1>3. Reached = 1..(next - 1) /\ Reached' = 1..next
    BY <1>1 DEF Reached
  <1>4. \A d : d \in Reached' <=> d \in Reached \/ d = next
    BY <1>1, <1>3
  <1>5. Sifted(anyHost', {d \in Reached' : cfg.checks[d].any})
    <2> DEFINE W == {d \in Reached : cfg.checks[d].any}
    <2>1. {d \in Reached' : cfg.checks[d].any} = W \cup (IF c.any THEN {next} ELSE {})
      BY <1>4
    <2>2. Sifted(anyHost, W) /\ W \subseteq 1..(next - 1)
      BY <1>1, <1>3 DEF Kept, ListsKept
    <2> QED
      BY <1>1, <1>2, <2>1, <2>2, JoinedSifted
  <1>6. ASSUME NEW l \in Labels
        PROVE  Sifted(byLabel'[l], {d \in Reached' : l \in cfg.checks[d].labels})
    <2> DEFINE W == {d \in Reached : l \in cfg.checks[d].labels}
    <2>1. {d \in Reached' : l \in cfg.checks[d].labels}
            = W \cup (IF l \in c.labels THEN {next} ELSE {})
      BY <1>4
    <2>2. Sifted(byLabel[l], W) /\ W \subseteq 1..(next - 1)
      BY <1>1, <1>3 DEF Kept, ListsKept
    <2>3. Sifted(Joined(byLabel[l], l \in c.labels), W \cup (IF l \in c.labels THEN {next} ELSE {}))
      <3> HIDE DEF W
      <3>1. byLabel[l] \in Seq(Nat) /\ next \in Nat
        BY <1>1, <1>2
      <3> QED
        BY <2>2, <3>1, JoinedSifted
    <2> QED
      BY <1>1, <2>1, <2>3
  <1>7. ASSUME NEW h \in Hostnames
        PROVE  Sifted(byHost'[h], {d \in Reached' : h \in cfg.checks[d].hosts})
    <2> DEFINE W == {d \in Reached : h \in cfg.checks[d].hosts}
    <2>1. {d \in Reached' : h \in cfg.checks[d].hosts}
            = W \cup (IF h \in c.hosts THEN {next} ELSE {})
      BY <1>4
    <2>2. Sifted(byHost[h], W) /\ W \subseteq 1..(next - 1)
      BY <1>1, <1>3 DEF Kept, ListsKept
    <2>3. Sifted(Joined(byHost[h], h \in c.hosts), W \cup (IF h \in c.hosts THEN {next} ELSE {}))
      <3> HIDE DEF W
      <3>1. byHost[h] \in Seq(Nat) /\ next \in Nat
        BY <1>1, <1>2
      <3> QED
        BY <2>2, <3>1, JoinedSifted
    <2> QED
      BY <1>1, <2>1, <2>3
  <1>8. ListsKept'
    BY <1>1, <1>5, <1>6, <1>7 DEF ListsKept
  <1>9. AddedKept' /\ AssignedKept'
    BY <1>1 DEF Settled, Fresh, AddedKept, AssignedKept, Done, IsInjective
  <1> QED
    BY <1>8, <1>9 DEF Kept

\* The places of the lists are numbered from 0, those in a list from 1.
Numbered ==
  at = "adding" =>
    \A p \in PlacesOf(next) : p \in Nat /\ \A i \in DOMAIN Of(p) : i \in Nat /\ i >= 1

LEMMA PlacesAre == Settled => Numbered
  BY ListIs DEF Settled, Of, PlacesOf, Numbered

LEMMA PlacesAreNext == Settled' => Numbered'
  BY PlacesAre, PTL

LEMMA EnterKept == ASSUME Settled, Settled', Kept, EnterHost PROVE Kept'
  <1>1. /\ at = "hosts" /\ next \in DOMAIN cfg.hosts /\ next \in 1..Len(cfg.hosts)
        /\ source' = 0 /\ item' = 1 /\ assigned' = <<>>
        /\ byLabel' = byLabel /\ byHost' = byHost /\ anyHost' = anyHost /\ next' = next
        /\ assignments' = assignments
        /\ at' \in {"fatal", "adding"}
    BY Numbers DEF Settled, EnterHost, Rounds, maps
  <1>2. /\ cfg'.checks = cfg.checks /\ Len(cfg'.hosts) = Len(cfg.hosts)
        /\ \A e \in DOMAIN cfg.hosts : /\ cfg'.hosts[e].hostname = cfg.hosts[e].hostname
                                       /\ cfg'.hosts[e].labels = cfg.hosts[e].labels
    BY <1>1, HostEntered DEF Settled, TypeOK, DefaultsKept
  <1>3. DOMAIN cfg'.hosts = DOMAIN cfg.hosts /\ DOMAIN cfg.hosts = 1..Len(cfg.hosts)
        /\ Len(cfg.hosts) \in Nat
    BY <1>2, ConfigIs, Numbers DEF Settled, TypeOK
  <1>4. /\ \A c : NameOf(c)' = NameOf(c)
        /\ \A e \in DOMAIN cfg.hosts : \A c : AsksName(e, c)' <=> AsksName(e, c)
        /\ \A h : \A n \in 0..Len(cfg.hosts) :
             Twins(h, n)' = Twins(h, n) /\ Expected(h, n)' = Expected(h, n)
    BY <1>2, <1>3, SameAsked
  <1>5. CASE at' = "fatal"
    BY <1>5, OutsideKept
  <1>6. CASE at' = "adding"
    <2>1. Reached' = Reached
      BY <1>1, <1>2, <1>6 DEF Reached
    <2>2. next - 1 \in 0..Len(cfg.hosts)
      BY <1>1, <1>3
    <2>3. \A h : Twins(h, next - 1)' = Twins(h, next - 1) /\ Expected(h, next - 1)' = Expected(h, next - 1)
      BY <1>1, <1>4, <2>2
    <2>4. \A h, e : e \in Twins(h, next - 1) => e \in DOMAIN cfg.hosts
      BY <1>1, <1>3 DEF Twins
    <2>5. ASSUME NEW h \in Hostnames, Inherited(h) PROVE Inherited(h)'
      <3>1. /\ Range(byHost[h]) = Expected(h, next - 1)
            /\ \A i, j \in DOMAIN byHost[h] : NameOf(byHost[h][i]) = NameOf(byHost[h][j]) => i = j
            /\ \A e \in Twins(h, next - 1), c \in DOMAIN cfg.checks :
                 AsksName(e, c) => \E i \in DOMAIN byHost[h] : NameOf(byHost[h][i]) = NameOf(c)
        BY <2>5 DEF Inherited
      <3> QED
        BY <1>1, <1>2, <1>4, <2>3, <2>4, <3>1 DEF Inherited
    <2>6. /\ Sifted(anyHost, {c \in Reached : cfg.checks[c].any})
          /\ \A l \in Labels : Sifted(byLabel[l], {c \in Reached : l \in cfg.checks[c].labels})
      BY <1>1 DEF Kept, ListsKept
    <2>7. ASSUME NEW h \in Hostnames
          PROVE  \/ /\ Twins(h, next - 1)' = {}
                    /\ Sifted(byHost[h], {c \in Reached : h \in cfg.checks[c].hosts})
                 \/ /\ Twins(h, next - 1)' # {}
                    /\ Inherited(h)'
      BY <1>1, <2>3, <2>5 DEF Kept, ListsKept
    <2>8. ListsKept'
      BY <1>1, <1>2, <1>6, <2>1, <2>6, <2>7 DEF ListsKept
    <2>9. AddedKept'
      <3>1. ASSUME NEW p \in PlacesOf(next)', NEW i \in DOMAIN (Of(p)'), Passed(p, i)'
            PROVE  FALSE
        <4>1. p \in Nat /\ i \in Nat /\ i >= 1
          BY <1>6, PlacesAreNext DEF Numbered
        <4> QED
          BY <1>1, <3>1, <4>1 DEF Passed
      <3>2. assigned' = <<>>
        BY <1>1
      <3> QED
        BY <3>1, <3>2 DEF AddedKept
    <2>10. AssignedKept'
      <3>1. \A e \in DOMAIN cfg.hosts :
              /\ Done(e)' <=> Done(e)
              /\ Entered(e) => Entered(e)' /\ Done(e)
              /\ Done(e) => e < next /\ e \in 0..Len(cfg.hosts)
        BY <1>1, <1>3, <1>6 DEF Done, Entered
      <3>2. \A e : ChecksOf(e)' = ChecksOf(e)
        BY <1>1 DEF ChecksOf
      <3>3. \A k \in DOMAIN assignments : assignments[k].host \in DOMAIN cfg.hosts
        BY AssignmentsAre DEF Settled
      <3>4. \A k \in DOMAIN assignments : Done(assignments[k].host) /\ Entered(assignments[k].host)'
        BY <1>1, <3>1, <3>3 DEF Kept, AssignedKept
      <3>5. \A k \in DOMAIN assignments : assignments[k].host # next
        BY <1>1, <3>1, <3>3, <3>4
      <3>6. ChecksOf(next)' = {}
        BY <1>1, <3>2, <3>5 DEF ChecksOf, Range
      <3>7. \A e \in DOMAIN cfg.hosts : Done(e)' =>
              ChecksOf(e)' = Expected(cfg.hosts[e].hostname, e)'
        BY <1>1, <1>2, <1>4, <3>1, <3>2 DEF Kept, AssignedKept
      <3>8. Range(assigned') = {}
        BY <1>1 DEF Range
      <3> QED
        BY <1>1, <1>2, <1>3, <3>4, <3>6, <3>7, <3>8 DEF Kept, AssignedKept
    <2> QED
      BY <2>8, <2>9, <2>10 DEF Kept
  <1> QED
    BY <1>1, <1>5, <1>6

\* While a host is gone through, its lists and what is asked for stay.
LEMMA SameLists ==
  ASSUME Settled, at = "adding", cfg' = cfg, byLabel' = byLabel, byHost' = byHost,
         anyHost' = anyHost, next' = next
  PROVE  /\ \A p : Of(p)' = Of(p) /\ \A i : Leads(p, i)' <=> Leads(p, i)
         /\ PlacesOf(next)' = PlacesOf(next)
         /\ \A c : NameOf(c)' = NameOf(c)
         /\ at' = "adding" /\ ListsKept => ListsKept'
         /\ \A e \in DOMAIN cfg.hosts :
              Expected(cfg.hosts[e].hostname, e)' = Expected(cfg.hosts[e].hostname, e)
  <1>1. \A p : Of(p)' = Of(p)
    BY DEF Of, Listed
  <1>2. PlacesOf(next)' = PlacesOf(next)
    BY DEF PlacesOf
  <1>3. \A c : NameOf(c)' = NameOf(c)
    BY DEF NameOf
  <1>4. \A p, i : Leads(p, i)' <=> Leads(p, i)
    BY <1>1, <1>2, <1>3 DEF Leads
  <1>5. /\ \A e \in DOMAIN cfg.hosts : \A c : AsksName(e, c)' <=> AsksName(e, c)
        /\ \A h : \A n \in 0..Len(cfg.hosts) :
             Twins(h, n)' = Twins(h, n) /\ Expected(h, n)' = Expected(h, n)
    BY SameAsked
  <1>6. next - 1 \in 0..Len(cfg.hosts) /\ \A e \in DOMAIN cfg.hosts : e \in 0..Len(cfg.hosts)
    BY Numbers, ListIs DEF Settled
  <1>7. \A h : /\ Twins(h, next - 1)' = Twins(h, next - 1)
               /\ Expected(h, next - 1)' = Expected(h, next - 1)
               /\ Twins(h, next - 1) \subseteq DOMAIN cfg.hosts
    BY <1>5, <1>6, Numbers DEF Settled, Twins
  <1>8. \A h \in Hostnames : Inherited(h)' <=> Inherited(h)
    BY <1>3, <1>5, <1>7 DEF Inherited
  <1>9. ASSUME at' = "adding", ListsKept PROVE ListsKept'
    <2>1. Reached' = Reached
      BY <1>9 DEF Reached
    <2> QED
      BY <1>7, <1>8, <1>9, <2>1 DEF ListsKept
  <1> QED
    BY <1>1, <1>2, <1>3, <1>4, <1>5, <1>6, <1>9

LEMMA NextListKept == ASSUME Settled, Kept, NextList PROVE Kept'
  <1>1. /\ at = "adding" /\ at' = "adding" /\ item > Len(List)
        /\ source' = source + 1 /\ item' = 1
        /\ cfg' = cfg /\ byLabel' = byLabel /\ byHost' = byHost /\ anyHost' = anyHost
        /\ next' = next /\ assigned' = assigned /\ assignments' = assignments
    BY DEF NextList, maps
  <1>2. /\ \A p : Of(p)' = Of(p) /\ \A i : Leads(p, i)' <=> Leads(p, i)
        /\ PlacesOf(next)' = PlacesOf(next)
        /\ \A c : NameOf(c)' = NameOf(c)
        /\ ListsKept'
        /\ \A e \in DOMAIN cfg.hosts :
             Expected(cfg.hosts[e].hostname, e)' = Expected(cfg.hosts[e].hostname, e)
    BY <1>1, SameLists DEF Kept
  <1>3. ASSUME NEW p \in PlacesOf(next), NEW i \in DOMAIN Of(p)
        PROVE  Passed(p, i)' <=> Passed(p, i)
    <2>1. /\ source \in PlacesOf(next) /\ List = Of(source) /\ Len(List) \in Nat /\ item \in Nat
          /\ DOMAIN List = 1..Len(List)
      BY <1>1, ListIs DEF Settled, Of
    <2>2. p \in Nat /\ i \in Nat /\ i >= 1 /\ source \in Nat
      BY <1>1, <2>1, PlacesAre DEF Numbered
    <2>3. p = source => i <= Len(List)
      BY <2>1
    <2> QED
      BY <1>1, <2>1, <2>2, <2>3 DEF Passed
  <1>4. AddedKept'
    BY <1>1, <1>2, <1>3 DEF Kept, AddedKept
  <1>5. AssignedKept'
    <2>1. \A e : (Done(e)' <=> Done(e)) /\ (Entered(e)' <=> Entered(e)) /\ ChecksOf(e)' = ChecksOf(e)
      BY <1>1 DEF Done, Entered, ChecksOf
    <2> QED
      BY <1>1, <1>2, <2>1 DEF Kept, AssignedKept
  <1> QED
    BY <1>2, <1>4, <1>5 DEF Kept

LEMMA AddKept == ASSUME Settled, Kept, AddCheck PROVE Kept'
  <1> DEFINE c    == List[item]
             taken == \E k \in DOMAIN assigned : NameOf(assigned[k]) = NameOf(c)
             a    == [host |-> next, check |-> c]
  <1>1. /\ at = "adding" /\ at' = "adding" /\ item <= Len(List)
        /\ source' = source /\ item' = item + 1
        /\ cfg' = cfg /\ byLabel' = byLabel /\ byHost' = byHost /\ anyHost' = anyHost
        /\ next' = next
        /\ taken => assigned' = assigned /\ assignments' = assignments
        /\ ~taken => assigned' = Append(assigned, c) /\ assignments' = Append(assignments, a)
    BY DEF AddCheck, maps
  <1>2. /\ \A p : Of(p)' = Of(p) /\ \A i : Leads(p, i)' <=> Leads(p, i)
        /\ PlacesOf(next)' = PlacesOf(next)
        /\ \A d : NameOf(d)' = NameOf(d)
        /\ ListsKept'
        /\ \A e \in DOMAIN cfg.hosts :
             Expected(cfg.hosts[e].hostname, e)' = Expected(cfg.hosts[e].hostname, e)
    BY <1>1, SameLists DEF Kept
  <1>3. /\ source \in PlacesOf(next) /\ item \in DOMAIN Of(source) /\ c = Of(source)[item]
        /\ source \in Nat /\ item \in Nat /\ next \in DOMAIN cfg.hosts
    <2>1. /\ source \in PlacesOf(next) /\ List = Of(source) /\ Len(List) \in Nat /\ item \in Nat
          /\ item >= 1 /\ DOMAIN List = 1..Len(List) /\ next \in DOMAIN cfg.hosts
      BY <1>1, ListIs DEF Settled, Of
    <2>2. item \in DOMAIN List
      BY <1>1, <2>1
    <2> QED
      BY <1>1, <2>1, <2>2, PlacesAre DEF Numbered
  <1>4. ASSUME NEW p \in PlacesOf(next), NEW i \in DOMAIN Of(p)
        PROVE  /\ Passed(p, i)' <=> Passed(p, i) \/ (p = source /\ i = item)
               /\ ~Passed(p, i) => Sooner(source, item, p, i)
    <2>1. p \in Nat /\ i \in Nat
      BY <1>1, PlacesAre DEF Numbered
    <2> QED
      BY <1>1, <1>3, <2>1 DEF Passed, Sooner
  <1>5. /\ \A k \in DOMAIN assigned : \E p \in PlacesOf(next) : \E i \in DOMAIN Of(p) :
             Passed(p, i) /\ Leads(p, i) /\ assigned[k] = Of(p)[i]
        /\ \A p \in PlacesOf(next) : \A i \in DOMAIN Of(p) : Passed(p, i) =>
             \E k \in DOMAIN assigned : NameOf(assigned[k]) = NameOf(Of(p)[i])
        /\ \A k, l \in DOMAIN assigned : NameOf(assigned[k]) = NameOf(assigned[l]) => k = l
        /\ \A k \in DOMAIN assignments : Entered(assignments[k].host)
        /\ \A e \in DOMAIN cfg.hosts : Done(e) => ChecksOf(e) = Expected(cfg.hosts[e].hostname, e)
        /\ ChecksOf(next) = Range(assigned)
        /\ IsInjective(assignments)
    BY <1>1 DEF Kept, AddedKept, AssignedKept
  <1>6. ASSUME NEW k, \E p \in PlacesOf(next) : \E i \in DOMAIN Of(p) :
                        Passed(p, i) /\ Leads(p, i) /\ k = Of(p)[i]
        PROVE  \E p \in PlacesOf(next) : \E i \in DOMAIN Of(p) :
                 Passed(p, i)' /\ Leads(p, i)' /\ k = Of(p)[i]
    BY <1>2, <1>4, <1>6
  <1>7. \A e : (Done(e)' <=> Done(e)) /\ (Entered(e)' <=> Entered(e))
    BY <1>1 DEF Done, Entered
  <1>8. CASE taken
    <2>1. AddedKept'
      <3>1. \A k \in DOMAIN assigned : \E p \in PlacesOf(next) : \E i \in DOMAIN Of(p) :
              Passed(p, i)' /\ Leads(p, i)' /\ assigned[k] = Of(p)[i]
        BY <1>5, <1>6
      <3>2. \A p \in PlacesOf(next) : \A i \in DOMAIN Of(p) : Passed(p, i)' =>
              \E k \in DOMAIN assigned : NameOf(assigned[k]) = NameOf(Of(p)[i])
        BY <1>3, <1>4, <1>5, <1>8
      <3> HIDE DEF taken
      <3> QED
        BY <1>1, <1>2, <1>5, <1>8, <3>1, <3>2 DEF AddedKept
    <2>2. AssignedKept'
      <3>1. \A e : ChecksOf(e)' = ChecksOf(e)
        BY <1>1, <1>8 DEF ChecksOf
      <3> QED
        BY <1>1, <1>2, <1>5, <1>7, <1>8, <3>1 DEF AssignedKept
    <2> QED
      BY <1>2, <2>1, <2>2 DEF Kept
  <1>9. CASE ~taken
    <2> DEFINE n == Len(assigned)
               m == Len(assignments)
    <2>1. /\ n \in Nat /\ DOMAIN assigned = 1..n /\ DOMAIN assigned' = 1..(n + 1)
          /\ assigned'[n + 1] = c /\ \A k \in DOMAIN assigned : assigned'[k] = assigned[k]
      <3> DEFINE D == DOMAIN cfg.checks
      <3>1. assigned \in Seq(D) /\ assigned' = Append(assigned, c)
        BY <1>1, <1>9 DEF Settled, TypeOK
      <3> HIDE DEF D, c
      <3> QED
        BY <3>1
    <2>2. /\ m \in Nat /\ DOMAIN assignments = 1..m /\ DOMAIN assignments' = 1..(m + 1)
          /\ assignments'[m + 1] = a
          /\ \A k \in DOMAIN assignments : assignments'[k] = assignments[k]
      <3> DEFINE A == [host : DOMAIN cfg.hosts, check : DOMAIN cfg.checks]
      <3>1. assignments \in Seq(A) /\ assignments' = Append(assignments, a)
        BY <1>1, <1>9 DEF Settled, TypeOK
      <3> HIDE DEF A, a
      <3> QED
        BY <3>1
    <2>3. a.host = next /\ a.check = c
      OBVIOUS
    <2>4. \A k \in DOMAIN assigned : NameOf(assigned[k]) # NameOf(c)
      BY <1>9
    <2> HIDE DEF n, m, c, a, taken
    <2>5. /\ n + 1 \in DOMAIN assigned' /\ \A k \in DOMAIN assigned : k \in DOMAIN assigned'
          /\ \A k \in DOMAIN assigned' : k \in DOMAIN assigned \/ k = n + 1
      BY <2>1
    <2>6. /\ m + 1 \in DOMAIN assignments' /\ \A k \in DOMAIN assignments : k \in DOMAIN assignments'
          /\ \A k \in DOMAIN assignments' : k \in DOMAIN assignments \/ k = m + 1
      BY <2>2
    <2>7. Leads(source, item)
      <3>1. ASSUME NEW q \in PlacesOf(next), NEW j \in DOMAIN Of(q), NameOf(Of(q)[j]) = NameOf(c)
            PROVE  Sooner(source, item, q, j)
        BY <1>4, <1>5, <2>4, <3>1
      <3> QED
        BY <1>3, <3>1 DEF Leads
    <2>8. AddedKept'
      <3>1. \A k \in DOMAIN assigned' : \E p \in PlacesOf(next) : \E i \in DOMAIN Of(p) :
              Passed(p, i)' /\ Leads(p, i)' /\ assigned'[k] = Of(p)[i]
        <4>1. ASSUME NEW k \in DOMAIN assigned
              PROVE  \E p \in PlacesOf(next) : \E i \in DOMAIN Of(p) :
                       Passed(p, i)' /\ Leads(p, i)' /\ assigned'[k] = Of(p)[i]
          BY <1>5, <1>6, <2>1
        <4>2. \E p \in PlacesOf(next) : \E i \in DOMAIN Of(p) :
                Passed(p, i)' /\ Leads(p, i)' /\ assigned'[n + 1] = Of(p)[i]
          <5>1. PICK p \in PlacesOf(next) : p = source
            BY <1>3
          <5>2. PICK i \in DOMAIN Of(p) : i = item
            BY <1>3, <5>1
          <5>3. Passed(p, i)' /\ Leads(p, i)'
            BY <1>2, <1>4, <2>7, <5>1, <5>2
          <5> QED
            BY <1>3, <2>1, <5>1, <5>2, <5>3
        <4> QED
          BY <2>5, <4>1, <4>2
      <3>2. ASSUME NEW p \in PlacesOf(next), NEW i \in DOMAIN Of(p), Passed(p, i)'
            PROVE  \E k \in DOMAIN assigned' : NameOf(assigned'[k]) = NameOf(Of(p)[i])
        <4>1. CASE Passed(p, i)
          BY <1>5, <2>1, <2>5, <4>1
        <4>2. CASE ~Passed(p, i)
          BY <1>3, <1>4, <2>1, <2>5, <3>2, <4>2
        <4> QED
          BY <4>1, <4>2
      <3>3. \A k, l \in DOMAIN assigned' : NameOf(assigned'[k]) = NameOf(assigned'[l]) => k = l
        BY <1>5, <2>1, <2>4, <2>5
      <3> QED
        BY <1>1, <1>2, <3>1, <3>2, <3>3 DEF AddedKept
    <2>9. AssignedKept'
      <3>1. /\ \A e, x : x \in ChecksOf(e) <=>
                 \E k \in DOMAIN assignments : assignments[k].host = e /\ assignments[k].check = x
            /\ \A e, x : x \in ChecksOf(e)' <=>
                 \E k \in DOMAIN assignments' : assignments'[k].host = e /\ assignments'[k].check = x
        BY DEF ChecksOf, Range
      <3>2. ASSUME NEW e PROVE ChecksOf(e)' = ChecksOf(e) \cup (IF e = next THEN {c} ELSE {})
        <4>1. ASSUME NEW x \in ChecksOf(e)' PROVE x \in ChecksOf(e) \/ (e = next /\ x = c)
          BY <2>2, <2>3, <2>6, <3>1
        <4>2. ASSUME NEW x \in ChecksOf(e) PROVE x \in ChecksOf(e)'
          <5>1. PICK k \in DOMAIN assignments : assignments[k].host = e /\ assignments[k].check = x
            BY <3>1
          <5> QED
            BY <2>2, <2>6, <3>1, <5>1
        <4>3. e = next => c \in ChecksOf(e)'
          BY <2>2, <2>3, <2>6, <3>1
        <4> QED
          BY <4>1, <4>2, <4>3
      <3>3. \A k \in DOMAIN assignments' : Entered(assignments[k].host)'
        <4>1. ASSUME NEW k \in DOMAIN assignments', NEW e, e = assignments'[k].host
              PROVE  Entered(e)'
          <5>1. CASE k \in DOMAIN assignments
            BY <1>5, <1>7, <2>2, <4>1, <5>1
          <5>2. CASE k = m + 1
            BY <1>1, <2>2, <2>3, <4>1, <5>2 DEF Entered
          <5> QED
            BY <2>6, <5>1, <5>2
        <4> QED
          BY <4>1
      <3>4. \A e \in DOMAIN cfg.hosts : Done(e) => e # next
        BY <1>1, Numbers DEF Settled, Done
      <3>5. \A e \in DOMAIN cfg.hosts : Done(e)' => ChecksOf(e)' = Expected(cfg.hosts[e].hostname, e)'
        <4>1. ASSUME NEW e, e # next PROVE ChecksOf(e)' = ChecksOf(e)
          BY <3>2, <4>1
        <4> QED
          BY <1>2, <1>5, <1>7, <3>4, <4>1
      <3>6. ChecksOf(next)' = Range(assigned)'
        <4>1. PICK e : e = next
          OBVIOUS
        <4>2. ChecksOf(e)' = Range(assigned) \cup {c}
          BY <1>5, <3>2, <4>1
        <4>3. Range(assigned)' = Range(assigned) \cup {c}
          BY <2>1, <2>5 DEF Range
        <4>4. ChecksOf(next)' = ChecksOf(e)'
          BY <1>1, <4>1
        <4> QED
          BY <4>2, <4>3, <4>4
      <3>7. IsInjective(assignments')
        <4>1. c \notin ChecksOf(next)
          BY <1>5, <2>4 DEF Range
        <4>2. \A k \in DOMAIN assignments : assignments[k] # a
          BY <2>3, <4>1 DEF ChecksOf, Range
        <4> QED
          BY <1>5, <2>2, <2>6, <4>2 DEF IsInjective
      <3> QED
        BY <1>1, <1>2, <3>3, <3>5, <3>6, <3>7 DEF AssignedKept
    <2> QED
      BY <1>2, <2>8, <2>9 DEF Kept
  <1> QED
    BY <1>8, <1>9

LEMMA LeaveKept == ASSUME Settled, Kept, LeaveHost PROVE Kept'
  <1>0. PICK h : h = cfg.hosts[next].hostname
    OBVIOUS
  <1>1. /\ at = "adding" /\ at' = "hosts" /\ next' = next + 1
        /\ item > Len(List) /\ source > Len(cfg.hosts[next].labels)
        /\ byHost' = [byHost EXCEPT ![h] = assigned]
        /\ cfg' = cfg /\ byLabel' = byLabel /\ anyHost' = anyHost
        /\ assigned' = assigned /\ assignments' = assignments
    BY <1>0 DEF LeaveHost, ByHostAfter, entry
  <1>2. /\ next \in DOMAIN cfg.hosts /\ next \in Nat /\ next' - 1 = next /\ h \in Hostnames
        /\ next \in 0..Len(cfg.hosts) /\ next - 1 \in 0..Len(cfg.hosts) /\ TypeOK
        /\ \A e \in DOMAIN cfg.hosts : e \in 0..Len(cfg.hosts) /\ e \in Nat
    <2>1. next \in DOMAIN cfg.hosts /\ h \in Hostnames
      BY <1>0, <1>1, ListIs DEF Settled
    <2> QED
      BY <1>1, <2>1, Numbers DEF Settled
  <1>3. /\ \A c : NameOf(c)' = NameOf(c)
        /\ \A e \in DOMAIN cfg.hosts : \A c : AsksName(e, c)' <=> AsksName(e, c)
        /\ \A g : \A n \in 0..Len(cfg.hosts) :
             Twins(g, n)' = Twins(g, n) /\ Expected(g, n)' = Expected(g, n)
    BY <1>1, SameAsked
  <1>4. /\ \A x : x \in Twins(h, next) <=> x \in Twins(h, next - 1) \/ x = next
        /\ \A g : g # h => \A x : x \in Twins(g, next) <=> x \in Twins(g, next - 1)
        /\ \A g, x : x \in Twins(g, next) => x \in DOMAIN cfg.hosts
    BY <1>0, <1>2, TwinsAre
  <1>5. /\ Range(assigned) = Expected(h, next)
        /\ \A k, l \in DOMAIN assigned : NameOf(assigned[k]) = NameOf(assigned[l]) => k = l
        /\ \A e \in Twins(h, next), c \in DOMAIN cfg.checks :
             AsksName(e, c) => \E k \in DOMAIN assigned : NameOf(assigned[k]) = NameOf(c)
    BY <1>0, <1>1, FirstsTaken DEF Kept
  <1>6. byHost'[h] = assigned /\ \A g \in Hostnames : g # h => byHost'[g] = byHost[g]
    BY <1>1, <1>2 DEF TypeOK
  <1>7. \A g : /\ Twins(g, next - 1)' = Twins(g, next)
               /\ Expected(g, next - 1)' = Expected(g, next)
    BY <1>2, <1>3
  <1>8. Inherited(h)'
    <2>1. Range(byHost'[h]) = Expected(h, next - 1)'
      BY <1>5, <1>6, <1>7
    <2>2. \A i, j \in DOMAIN byHost'[h] :
            NameOf(byHost[h][i])' = NameOf(byHost[h][j])' => i = j
      BY <1>1, <1>5, <1>6 DEF NameOf
    <2>3. \A e \in Twins(h, next - 1)', c \in DOMAIN cfg'.checks :
            AsksName(e, c)' => \E i \in DOMAIN byHost'[h] : NameOf(byHost[h][i])' = NameOf(c)'
      BY <1>1, <1>3, <1>4, <1>5, <1>6, <1>7 DEF NameOf
    <2> QED
      BY <1>1, <2>1, <2>2, <2>3 DEF Inherited
  <1>9. ASSUME NEW g \in Hostnames, g # h
        PROVE  /\ Twins(g, next - 1)' = Twins(g, next - 1)
               /\ Expected(g, next - 1)' = Expected(g, next - 1)
               /\ Inherited(g) => Inherited(g)'
    <2>1. Twins(g, next) = Twins(g, next - 1)
      <3>1. \A x : x \in Twins(g, next) <=> x \in Twins(g, next - 1)
        BY <1>4, <1>9
      <3> QED
        BY <3>1 DEF Twins
    <2>2. Expected(g, next) = Expected(g, next - 1)
      BY <2>1 DEF Expected
    <2> QED
      BY <1>1, <1>3, <1>4, <1>6, <1>7, <1>9, <2>1, <2>2 DEF Inherited, NameOf
  <1>10. ListsKept'
    <2>1. Reached' = DOMAIN cfg.checks /\ Reached = DOMAIN cfg.checks
      BY <1>1 DEF Reached
    <2>2. /\ Sifted(anyHost, {c \in Reached : cfg.checks[c].any})
          /\ \A l \in Labels : Sifted(byLabel[l], {c \in Reached : l \in cfg.checks[c].labels})
          /\ \A g \in Hostnames :
               \/ /\ Twins(g, next - 1) = {}
                  /\ Sifted(byHost[g], {c \in Reached : g \in cfg.checks[c].hosts})
               \/ /\ Twins(g, next - 1) # {}
                  /\ Inherited(g)
      BY <1>1 DEF Kept, ListsKept
    <2>3. ASSUME NEW g \in Hostnames
          PROVE  \/ /\ Twins(g, next - 1)' = {}
                    /\ Sifted(byHost'[g], {c \in Reached' : g \in cfg.checks[c].hosts})
                 \/ /\ Twins(g, next - 1)' # {}
                    /\ Inherited(g)'
      <3>1. CASE g = h
        BY <1>4, <1>7, <1>8, <3>1
      <3>2. CASE g # h
        BY <1>6, <1>9, <2>1, <2>2, <3>2
      <3> QED
        BY <3>1, <3>2
    <2> QED
      BY <1>1, <2>1, <2>2, <2>3 DEF ListsKept
  <1>11. AddedKept'
    BY <1>1 DEF AddedKept
  <1>12. AssignedKept'
    <2>1. \A e : ChecksOf(e)' = ChecksOf(e)
      BY <1>1 DEF ChecksOf
    <2>2. \A e \in DOMAIN cfg.hosts :
            /\ Done(e)' <=> Done(e) \/ e = next
            /\ Entered(e) => Entered(e)'
      BY <1>1, <1>2 DEF Done, Entered
    <2>3. \A k \in DOMAIN assignments : assignments[k].host \in DOMAIN cfg.hosts
      BY AssignmentsAre DEF Settled
    <2>4. \A e \in DOMAIN cfg.hosts :
            Expected(cfg.hosts[e].hostname, e)' = Expected(cfg.hosts[e].hostname, e)
      BY <1>1, <1>2, <1>3
    <2>5. ChecksOf(next) = Expected(h, next)
      BY <1>1, <1>5 DEF Kept, AssignedKept
    <2>6. \A e \in DOMAIN cfg.hosts : Done(e) \/ e = next =>
            ChecksOf(e) = Expected(cfg.hosts[e].hostname, e)
      BY <1>0, <1>1, <2>5 DEF Kept, AssignedKept
    <2>7. \A e \in DOMAIN cfg.hosts : Done(e)' =>
            ChecksOf(e)' = Expected(cfg.hosts[e].hostname, e)'
      BY <2>1, <2>2, <2>4, <2>6
    <2>8. \A k \in DOMAIN assignments : Entered(assignments[k].host)'
      BY <1>1, <2>2, <2>3 DEF Kept, AssignedKept
    <2> QED
      BY <1>1, <2>7, <2>8 DEF Kept, AssignedKept
  <1> QED
    BY <1>10, <1>11, <1>12 DEF Kept

LEMMA OverKept == ASSUME Settled, Kept, LoopOver PROVE Kept'
  <1>1. /\ next > Rounds /\ next' = 1
        /\ \/ at = "inject" /\ at' = "checks"
           \/ at = "maps" /\ at' = "hosts" /\ next = Len(cfg.checks) + 1
           \/ at = "hosts" /\ at' = "validate" /\ next = Len(cfg.hosts) + 1
           \/ at = "board" /\ at' = "launch"
           \/ at = "launch" /\ at' = "running"
        /\ cfg' = cfg /\ byLabel' = byLabel /\ byHost' = byHost /\ anyHost' = anyHost
        /\ assignments' = assignments
    BY Numbers DEF Settled, LoopOver, Past, Rounds, maps
  <1>2. CASE at = "inject"
    BY <1>1, <1>2, OutsideKept
  <1>3. CASE at \in {"board", "launch"}
    BY <1>1, <1>3, ReadyKept
  <1>4. CASE at = "maps"
    <2>1. Reached' = Reached /\ \A h : Twins(h, next - 1)' = {}
      BY <1>1, <1>4, Numbers DEF Settled, Reached, Twins
    <2>2. ListsKept'
      BY <1>1, <1>4, <2>1 DEF Kept, ListsKept
    <2>3. AddedKept' /\ AssignedKept'
      <3>1. \A e : ~Done(e)'
        BY <1>1, <1>4, Numbers DEF Settled, Done
      <3> QED
        BY <1>1, <1>4, <3>1 DEF Settled, Fresh, AddedKept, AssignedKept, IsInjective
    <2> QED
      BY <2>2, <2>3 DEF Kept
  <1>5. CASE at = "hosts"
    <2>1. ListsKept' /\ AddedKept'
      BY <1>1, <1>5 DEF ListsKept, AddedKept
    <2>2. \A e \in DOMAIN cfg.hosts : Done(e) /\ Entered(e)' /\ e \in 0..Len(cfg.hosts)
      BY <1>1, <1>5, Numbers DEF Settled, Done, Entered
    <2>3. \A e : ChecksOf(e)' = ChecksOf(e)
      BY <1>1 DEF ChecksOf
    <2>4. \A e \in DOMAIN cfg.hosts :
            Expected(cfg.hosts[e].hostname, e)' = Expected(cfg.hosts[e].hostname, e)
      BY <1>1, <2>2, SameAsked
    <2>5. \A k \in DOMAIN assignments : assignments[k].host \in DOMAIN cfg.hosts
      BY AssignmentsAre DEF Settled
    <2>6. AssignedKept'
      BY <1>1, <1>5, <2>2, <2>3, <2>4, <2>5 DEF Kept, AssignedKept
    <2> QED
      BY <2>1, <2>6 DEF Kept
  <1> QED
    BY <1>1, <1>2, <1>3, <1>4, <1>5

LEMMA KeptStep == Settled /\ Settled' /\ Kept /\ [Next]_vars => Kept'
  <1> SUFFICES ASSUME Settled, Settled', Kept, [Next]_vars PROVE Kept'
    OBVIOUS
  <1>1. CASE Read \/ ApplyDefaults \/ InjectPing
    BY <1>1, OutsideKept DEF Read, ApplyDefaults, InjectPing, Round
  <1>2. CASE Validate \/ BuildNotifier \/ NewManager \/ NewBoard \/ Register
    <2>1. /\ at \in Ready /\ at' \in Ready \cup {"fatal"}
          /\ cfg' = cfg /\ assignments' = assignments
      BY <1>2 DEF Validate, BuildNotifier, NewManager, NewBoard, Register, Round, Past
    <2> QED
      BY <2>1, OutsideKept, ReadyKept
  <1>3. CASE UNCHANGED vars
    <2>1. /\ at' = at /\ cfg' = cfg /\ byLabel' = byLabel /\ byHost' = byHost /\ anyHost' = anyHost
          /\ next' = next /\ source' = source /\ item' = item /\ assigned' = assigned
          /\ assignments' = assignments
      BY <1>3 DEF vars, maps, entry
    <2>2. /\ \A c : NameOf(c)' = NameOf(c) /\ Namesakes(c)' = Namesakes(c)
          /\ \A e : PlacesOf(e)' = PlacesOf(e) /\ \A c, p : Asks(e, c, p)' <=> Asks(e, c, p)
          /\ \A h, n : Twins(h, n)' = Twins(h, n)
      BY <2>1 DEF NameOf, Namesakes, PlacesOf, Asks, Twins
    <2>3. \A e, c : (AsksName(e, c)' <=> AsksName(e, c)) /\ (Prefers(e, c)' <=> Prefers(e, c))
      BY <2>2 DEF AsksName, Prefers
    <2>4. \A d, c : Decides(d, c)' <=> Decides(d, c)
      BY <2>1, <2>2, <2>3 DEF Decides
    <2>5. \A h, n : Expected(h, n)' = Expected(h, n)
      BY <2>1, <2>2, <2>3, <2>4 DEF Expected
    <2>6. ListsKept'
      <3>1. Reached' = Reached
        BY <2>1 DEF Reached
      <3>2. \A h : Inherited(h)' <=> Inherited(h)
        BY <2>1, <2>2, <2>3, <2>5 DEF Inherited
      <3> QED
        BY <2>1, <2>2, <3>1, <3>2 DEF Kept, ListsKept
    <2>7. AddedKept'
      <3>1. \A p : Of(p)' = Of(p) /\ \A i : Passed(p, i)' <=> Passed(p, i)
        BY <2>1 DEF Of, Listed, Passed
      <3>2. \A p, i : Leads(p, i)' <=> Leads(p, i)
        BY <2>1, <2>2, <3>1 DEF Leads
      <3> QED
        BY <2>1, <2>2, <3>1, <3>2 DEF Kept, AddedKept
    <2>8. AssignedKept'
      <3>1. \A e : (Done(e)' <=> Done(e)) /\ (Entered(e)' <=> Entered(e)) /\ ChecksOf(e)' = ChecksOf(e)
        BY <2>1 DEF Done, Entered, ChecksOf
      <3> QED
        BY <2>1, <2>5, <3>1 DEF Kept, AssignedKept
    <2> QED
      BY <2>6, <2>7, <2>8 DEF Kept
  <1> QED
    BY <1>1, <1>2, <1>3, ChecksKept, CompileKept, EnterKept, AddKept, NextListKept, LeaveKept,
       OverKept DEF Next

LEMMA KeptAlways == Spec => []Kept
  BY InitKept, KeptStep, SettledAlways, PTL DEF Spec

\* What compileMaps assigns, for every file: each entry of a host runs, once each,
\* the most specific check of every name that the hostname asks for.
THEOREM AssignsRight == Spec => []AssignedRight
  <1>1. Settled /\ Kept => AssignedRight
    BY DEF Kept, AssignedKept, Done, AssignedRight
  <1> QED
    BY <1>1, SettledAlways, KeptAlways, PTL

-----------------------------------------------------------------------------
(* The rows of the board and the channels *)

KeysTo(n) == {Key(assignments[k]) : k \in 1..n}

RowsKept ==
  /\ at = "board" => DOMAIN board = KeysTo(next - 1)
  /\ at \in {"launch", "running"} => DOMAIN board = KeysTo(Len(assignments))
  /\ at = "launch" => DOMAIN triggers = KeysTo(next - 1)
  /\ at = "running" => DOMAIN triggers = KeysTo(Len(assignments))
  /\ at \in {"board", "launch", "running"} => \A x \in DOMAIN board : \E k \in DOMAIN assignments :
       Key(assignments[k]) = x /\ board[x] = CheckOf(assignments[k]).set["MinFail"]
  /\ at \in {"launch", "running"} => \A x \in DOMAIN triggers : \E k \in DOMAIN assignments :
       Key(assignments[k]) = x /\ triggers[x] = assignments[k]

LEMMA InitRows == Init => RowsKept
  BY DEF Init, RowsKept

\* A round more.
LEMMA PutKeys ==
  ASSUME next \in Nat, next >= 1, NEW f, DOMAIN f = KeysTo(next - 1), NEW v, NEW g,
         g = Put(f, Key(assignments[next]), v)
  PROVE  /\ DOMAIN g = KeysTo(next)
         /\ \A x \in DOMAIN g : \/ x = Key(assignments[next]) /\ g[x] = v
                                \/ x \in DOMAIN f /\ g[x] = f[x]
  <1>1. \A k : k \in 1..next <=> k \in 1..(next - 1) \/ k = next
    OBVIOUS
  <1>2. KeysTo(next) = KeysTo(next - 1) \cup {Key(assignments[next])}
    BY <1>1 DEF KeysTo
  <1> QED
    BY <1>2 DEF Put

LEMMA RowsStep == Settled /\ RowsKept /\ [Next]_vars => RowsKept'
  <1> SUFFICES ASSUME Settled, RowsKept, [Next]_vars PROVE RowsKept'
    OBVIOUS
  <1> DEFINE Late == {"board", "launch", "running"}
  <1>1. ASSUME at' \notin Late PROVE RowsKept'
    BY <1>1 DEF RowsKept
  <1>2. ASSUME cfg' = cfg, assignments' = assignments
        PROVE  /\ \A a : Key(a)' = Key(a) /\ CheckOf(a)' = CheckOf(a)
               /\ \A n : KeysTo(n)' = KeysTo(n)
    BY <1>2 DEF Key, CheckOf, KeysTo
  <1>3. /\ Len(assignments) \in Nat /\ next \in Nat /\ next >= 1
        /\ DOMAIN assignments = 1..Len(assignments)
    BY Numbers, AssignmentsAre DEF Settled
  <1>4. CASE NewManager
    <2>1. /\ at' = "board" /\ next' = 1 /\ cfg' = cfg /\ assignments' = assignments /\ board' = <<>>
      BY <1>4 DEF NewManager, Past, Settled, Fresh
    <2>2. KeysTo(0)' = {}
      BY DEF KeysTo
    <2> QED
      BY <2>1, <2>2 DEF RowsKept
  <1>5. CASE NewBoard
    <2> DEFINE a == assignments[next]
               v == CheckOf(a).set["MinFail"]
    <2>1. /\ at = "board" /\ at' = "board" /\ next' = next + 1 /\ next \in DOMAIN assignments
          /\ cfg' = cfg /\ assignments' = assignments /\ board' = Put(board, Key(a), v)
      BY <1>3, <1>5 DEF NewBoard, Round, Rounds
    <2>2. /\ DOMAIN board' = KeysTo(next)
          /\ \A x \in DOMAIN board' : \/ x = Key(a) /\ board'[x] = v
                                      \/ x \in DOMAIN board /\ board'[x] = board[x]
      <3> HIDE DEF v
      <3> QED
        BY <1>3, <2>1, PutKeys DEF RowsKept
    <2>3. KeysTo(next - 1)' = KeysTo(next)
      BY <1>2, <1>3, <2>1 DEF KeysTo
    <2>4. \A x \in DOMAIN board' : \E k \in DOMAIN assignments :
            Key(assignments[k]) = x /\ board'[x] = CheckOf(assignments[k]).set["MinFail"]
      BY <2>1, <2>2 DEF RowsKept
    <2> QED
      BY <1>2, <2>1, <2>2, <2>3, <2>4 DEF RowsKept, Key, CheckOf
  <1>6. CASE Register
    <2> DEFINE a == assignments[next]
    <2>1. /\ at = "launch" /\ at' = "launch" /\ next' = next + 1 /\ next \in DOMAIN assignments
          /\ cfg' = cfg /\ assignments' = assignments /\ board' = board
          /\ triggers' = Put(triggers, Key(a), a)
      BY <1>3, <1>6 DEF Register, Round, Rounds
    <2>2. /\ DOMAIN triggers' = KeysTo(next)
          /\ \A x \in DOMAIN triggers' : \/ x = Key(a) /\ triggers'[x] = a
                                         \/ x \in DOMAIN triggers /\ triggers'[x] = triggers[x]
      BY <1>3, <2>1, PutKeys DEF RowsKept
    <2>3. KeysTo(next - 1)' = KeysTo(next)
      BY <1>2, <1>3, <2>1 DEF KeysTo
    <2>4. \A x \in DOMAIN triggers' : \E k \in DOMAIN assignments :
            Key(assignments[k]) = x /\ triggers'[x] = assignments[k]
      BY <2>1, <2>2 DEF RowsKept
    <2> QED
      BY <1>2, <2>1, <2>2, <2>3, <2>4 DEF RowsKept, Key, CheckOf
  <1>7. CASE LoopOver
    <2>1. /\ next > Rounds /\ next <= Rounds + 1 /\ next' = 1 /\ cfg' = cfg
          /\ assignments' = assignments /\ board' = board /\ triggers' = triggers
          /\ at' \in Late => \/ at = "board" /\ at' = "launch" /\ next = Len(assignments) + 1
                             \/ at = "launch" /\ at' = "running" /\ next = Len(assignments) + 1
      BY <1>3, <1>7, Numbers DEF Settled, LoopOver, Past, Rounds, made
    <2>2. KeysTo(0)' = {}
      BY DEF KeysTo
    <2>3. CASE at' = "launch"
      <3>1. /\ at = "board" /\ next = Len(assignments) + 1 /\ triggers = <<>>
        BY <2>1, <2>3 DEF Settled, Fresh
      <3>2. DOMAIN board = KeysTo(Len(assignments))
        BY <1>3, <3>1 DEF RowsKept
      <3> QED
        BY <1>2, <2>1, <2>2, <2>3, <3>1, <3>2 DEF RowsKept
    <2>4. CASE at' = "running"
      <3>1. /\ at = "launch" /\ next = Len(assignments) + 1
        BY <2>1, <2>4
      <3>2. DOMAIN triggers = KeysTo(Len(assignments))
        BY <1>3, <3>1 DEF RowsKept
      <3> QED
        BY <1>2, <2>1, <2>4, <3>1, <3>2 DEF RowsKept
    <2>5. at' \in Late => at' \in {"launch", "running"}
      BY <2>1
    <2> QED
      BY <1>1, <2>3, <2>4, <2>5
  <1>8. CASE UNCHANGED vars
    <2>1. /\ at' = at /\ cfg' = cfg /\ next' = next /\ assignments' = assignments
          /\ board' = board /\ triggers' = triggers
      BY <1>8 DEF vars, made
    <2> QED
      BY <1>2, <2>1 DEF RowsKept
  <1>9. CASE \/ Read \/ ApplyDefaults \/ InjectPing \/ ApplyCheckDefaults \/ CompileCheck
             \/ EnterHost \/ AddCheck \/ NextList \/ LeaveHost \/ Validate \/ BuildNotifier
    <2>1. at' \notin Late
      BY <1>9 DEF Read, ApplyDefaults, InjectPing, ApplyCheckDefaults, CompileCheck, EnterHost,
                  AddCheck, NextList, LeaveHost, Validate, BuildNotifier, Round
    <2> QED
      BY <1>1, <2>1
  <1> QED
    BY <1>4, <1>5, <1>6, <1>7, <1>8, <1>9 DEF Next

LEMMA RowsAlways == Spec => []RowsKept
  BY InitRows, RowsStep, SettledAlways, PTL DEF Spec

\* Of a hostname and a name one check at most is to run.
LEMMA OneExpected ==
  ASSUME TypeOK, NEW h, NEW m \in DOMAIN cfg.hosts, NEW n \in DOMAIN cfg.hosts,
         NEW c \in Expected(h, m), NEW d \in Expected(h, n), NameOf(c) = NameOf(d)
  PROVE  c = d
  <1>1. PICK x \in Twins(h, m) : Decides(x, c) /\ Prefers(x, c)
    BY DEF Expected
  <1>2. PICK y \in Twins(h, n) : Decides(y, d) /\ Prefers(y, d)
    BY DEF Expected
  <1>3. c \in DOMAIN cfg.checks /\ d \in DOMAIN cfg.checks /\ c \in Nat /\ d \in Nat
    BY Numbers DEF Expected
  <1>4. \A e : AsksName(e, c) <=> AsksName(e, d)
    BY DEF AsksName, Namesakes
  <1>5. AsksName(x, c) /\ AsksName(y, d)
    BY <1>1, <1>2, <1>3 DEF Prefers, AsksName, Namesakes
  <1>6. /\ x \in Nat /\ y \in Nat /\ x >= 1 /\ y >= 1
        /\ cfg.hosts[x].hostname = h /\ cfg.hosts[y].hostname = h
    BY Numbers DEF Twins
  <1>7. ~(y < x)
    <2>1. y < x => y \in Twins(cfg.hosts[x].hostname, x - 1)
      BY <1>6 DEF Twins
    <2> QED
      BY <1>1, <1>4, <1>5, <2>1 DEF Decides
  <1>8. ~(x < y)
    <2>1. x < y => x \in Twins(cfg.hosts[y].hostname, y - 1)
      BY <1>6 DEF Twins
    <2> QED
      BY <1>2, <1>4, <1>5, <2>1 DEF Decides
  <1>9. x = y
    BY <1>6, <1>7, <1>8
  <1>10. PICK p \in PlacesOf(x) : /\ Asks(x, c, p)
                                  /\ \A f \in Namesakes(c), q \in PlacesOf(x) :
                                       Asks(x, f, q) => p < q \/ (p = q /\ c <= f)
    BY <1>1 DEF Prefers
  <1>11. PICK q \in PlacesOf(x) : /\ Asks(x, d, q)
                                  /\ \A f \in Namesakes(d), r \in PlacesOf(x) :
                                       Asks(x, f, r) => q < r \/ (q = r /\ d <= f)
    BY <1>2, <1>9 DEF Prefers
  <1>12. c \in Namesakes(d) /\ d \in Namesakes(c)
    BY <1>3 DEF Namesakes
  <1>13. (p < q \/ (p = q /\ c <= d)) /\ (q < p \/ (q = p /\ d <= c))
    BY <1>10, <1>11, <1>12
  <1>14. p \in Int /\ q \in Int
    BY DEF PlacesOf
  <1> QED
    BY <1>3, <1>13, <1>14

\* Goroutines that share a key run one check, and the board and the channels know
\* every key.
THEOREM KeysAreOwned == Spec => []KeysOwned
  <1>1. Settled /\ Kept /\ RowsKept => KeysOwned
    <2> SUFFICES ASSUME Settled, Kept, RowsKept, at = "running" PROVE KeysOwned
      BY DEF KeysOwned
    <2>1. AssignedRight
      BY DEF Kept, AssignedKept, Done, AssignedRight
    <2>2. /\ DOMAIN assignments = 1..Len(assignments)
          /\ \A k \in DOMAIN assignments :
               /\ assignments[k].host \in DOMAIN cfg.hosts
               /\ assignments[k] \in [host : DOMAIN cfg.hosts, check : DOMAIN cfg.checks]
      BY AssignmentsAre DEF Settled
    <2>3. ASSUME NEW j \in DOMAIN assignments, NEW k \in DOMAIN assignments,
                 Key(assignments[j]) = Key(assignments[k])
          PROVE  assignments[j].check = assignments[k].check
      <3> DEFINE h == cfg.hosts[assignments[j].host].hostname
                 c == assignments[j].check
                 d == assignments[k].check
      <3>1. h = cfg.hosts[assignments[k].host].hostname /\ NameOf(c) = NameOf(d)
        BY <2>3 DEF Key, CheckOf, NameOf
      <3>2. c \in ChecksOf(assignments[j].host) /\ d \in ChecksOf(assignments[k].host)
        BY DEF ChecksOf, Range
      <3>3. c \in Expected(h, assignments[j].host) /\ d \in Expected(h, assignments[k].host)
        BY <2>1, <2>2, <3>1, <3>2 DEF AssignedRight
      <3> QED
        BY <2>2, <3>1, <3>3, OneExpected DEF Settled
    <2>4. ASSUME NEW j \in DOMAIN assignments, NEW k \in DOMAIN assignments, j < k,
                 Key(assignments[j]) = Key(assignments[k])
          PROVE  assignments[j].host # assignments[k].host
      <3>1. j # k
        BY <2>2, <2>4
      <3>2. assignments[j] # assignments[k]
        BY <2>1, <3>1 DEF AssignedRight, IsInjective
      <3> QED
        BY <2>2, <2>3, <2>4, <3>2
    <2>5. DOMAIN triggers = {Key(assignments[k]) : k \in DOMAIN assignments}
          /\ DOMAIN board = DOMAIN triggers
      BY <2>2 DEF RowsKept, KeysTo
    <2>6. ASSUME NEW x \in DOMAIN triggers
          PROVE  Key(triggers[x]) = x /\ board[x] = CheckOf(triggers[x]).set["MinFail"]
      <3>1. PICK k \in DOMAIN assignments : Key(assignments[k]) = x /\ triggers[x] = assignments[k]
        BY DEF RowsKept
      <3>2. PICK j \in DOMAIN assignments :
              Key(assignments[j]) = x /\ board[x] = CheckOf(assignments[j]).set["MinFail"]
        BY <2>5 DEF RowsKept
      <3>3. assignments[j].check = assignments[k].check
        BY <2>3, <3>1, <3>2
      <3> QED
        BY <3>1, <3>2, <3>3 DEF CheckOf
    <2> QED
      BY <2>3, <2>4, <2>5, <2>6 DEF KeysOwned
  <1> QED
    BY <1>1, SettledAlways, KeptAlways, RowsAlways, PTL
=============================================================================
