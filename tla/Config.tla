------------------------------- MODULE Config -------------------------------
(***************************************************************************)
(* The start of the program: config.Load (internal/config/loader.go) and   *)
(* what main makes of its result before anything runs, the notifiers       *)
(* (cmd/drnkexec/main.go), the rows of the status board                    *)
(* (state.NewManager) and the channels of the goroutines (Scheduler.Run).  *)
(* A loop is an action for its round; compileMaps adds the checks of a     *)
(* host one at a time, out of maps one of which it then writes.            *)
(*                                                                         *)
(* A string of the file is a member of a small set, None when it is empty  *)
(* or absent.  A pointer to a check is its index in cfg.checks, one to a   *)
(* host its index in cfg.hosts.                                            *)
(***************************************************************************)
EXTENDS Integers, Sequences, Functions, TLC

CONSTANTS
  Files,      \* what the file may say
  Hostnames,
  Labels,
  Strings,    \* names, commands, types and the like
  None

Settings == {"CheckInterval", "RetryInterval", "MinFail", "MinSuccess", "Timeout"}

Text     == Strings \cup {None}
Switch   == BOOLEAN \cup {None}
Schedule == [Settings -> Int]

HostConfig ==
  [hostname : Hostnames \cup {None}, ping : BOOLEAN, labels : Seq(Labels), tls : Switch]

\* The match lists are sets, for compileMaps drops what they repeat.
CheckConfig ==
  [name : Text, command : Text, type : Text, labels : SUBSET Labels,
   hosts : SUBSET (Hostnames \cup {None}), any : BOOLEAN, set : Schedule]

\* sched and tls are the defaults section; telegram says that token and chat are given.
FileConfig ==
  [hosts : Seq(HostConfig), checks : Seq(CheckConfig), sched : Schedule, tls : Switch,
   port : Int, username : Text, password : Text, ttl : Int,
   notifiers : Seq(Strings), telegram : BOOLEAN, repeat : Int]

ASSUME FilesAssumption == Files \subseteq FileConfig
ASSUME StringsAssumption ==
  {"Ping", "builtin_ping", "ping", "nrpe", "log", "telegram"} \subseteq Strings

\* The constants of loader.go.
Builtin == [s \in Settings |->
  CASE s = "CheckInterval" -> 60 [] s = "RetryInterval" -> 15
    [] s \in {"MinFail", "MinSuccess"} -> 1 [] s = "Timeout" -> 10]

VARIABLES
  at,           \* how far the start has come
  file,         \* the file, as it was read
  cfg,          \* the same while the defaults are filled in
  byLabel,      \* LookupMaps.ChecksByCheckLabel
  byHost,       \* LookupMaps.ChecksByHostname
  anyHost,      \* LookupMaps.AnyHostChecks
  next,         \* the round that the loop of a stage has reached
  source, item, \* of a host: the list addCheck is called for, the place in it
  assigned,     \* of a host: the checks added
  assignments,  \* LookupMaps.CheckAssignments, as [host, check] of indices
  sinks,        \* alerts.Manager.notifiers
  board,        \* state.Manager.hostChecks: (hostname, check name) to threshold
  triggers      \* Scheduler.triggers: the same keys to assignments

maps == <<byLabel, byHost, anyHost>>
entry == <<source, item, assigned>>
made == <<sinks, board, triggers>>
vars == <<at, file, cfg, maps, next, entry, assignments, made>>

Stages == {"read", "defaults", "inject", "checks", "maps", "hosts", "adding", "validate",
           "notifiers", "board", "launch", "running", "fatal"}

Init ==
  /\ at = "read" /\ file \in Files /\ cfg = file
  /\ byLabel = [l \in Labels |-> <<>>]
  /\ byHost  = [h \in Hostnames |-> <<>>]
  /\ anyHost = <<>> /\ next = 1 /\ assignments = <<>>
  /\ source = 0 /\ item = 1 /\ assigned = <<>>
  /\ sinks = <<>> /\ board = <<>> /\ triggers = <<>>

Rounds ==
  CASE at = "maps"                 -> Len(cfg.checks)
    [] at = "notifiers"            -> Len(cfg.notifiers)
    [] at \in {"board", "launch"} -> Len(assignments)
    [] OTHER                       -> Len(cfg.hosts)

Round(stage) == at = stage /\ next <= Rounds /\ next' = next + 1 /\ UNCHANGED at
Past(stage, after) == at = stage /\ next > Rounds /\ next' = 1 /\ at' = after

\* A loop has gone through all there is.
LoopOver ==
  /\ \/ Past("inject", "checks") \/ Past("maps", "hosts") \/ Past("hosts", "validate")
     \/ Past("board", "launch") \/ Past("launch", "running")
  /\ UNCHANGED <<file, cfg, maps, entry, assignments, made>>

-----------------------------------------------------------------------------
(* Load *)

\* readFile and yaml.Unmarshal, either of which may fail.
Read ==
  /\ at = "read"
  /\ at' \in {"defaults", "fatal"}
  /\ UNCHANGED <<file, cfg, maps, next, entry, assignments, made>>

\* Mutant: only what is missing is replaced, not what is negative.
OrElseZero(x, default) == IF x = 0 THEN default ELSE x

\* A setting that is absent or not positive is taken from elsewhere.
OrElse(x, default) == IF x <= 0 THEN default ELSE x
Filled(set, from) == [s \in Settings |-> OrElse(set[s], from[s])]

Lower(notifier) ==
  CASE notifier = "LOG" -> "log" [] notifier = "Telegram" -> "telegram" [] OTHER -> notifier

\* TLS is used unless the file says otherwise.
TlsDefault(v) == IF v = None THEN TRUE ELSE v

\* applyDefaultsSection, applyAlertDefaults, applyHTTPDefaults, applyAdminDefaults.
ApplyDefaults ==
  /\ at = "defaults" /\ at' = "inject"
  /\ cfg' = [cfg EXCEPT
       !.sched     = Filled(@, Builtin),
       !.tls       = TlsDefault(@),
       !.notifiers = IF @ = <<>> THEN <<"log">> ELSE [i \in DOMAIN @ |-> Lower(@[i])],
       !.repeat    = OrElse(@, 120),
       !.port      = IF @ = 0 THEN 8080 ELSE @,
       !.ttl       = OrElse(@, 86400)]
  /\ UNCHANGED <<file, maps, next, entry, assignments, made>>

PingCheck(h) ==
  [name |-> "Ping", command |-> "builtin_ping", type |-> "ping", labels |-> {},
   hosts |-> {h.hostname}, any |-> FALSE, set |-> cfg.sched]

\* Mutant: a Ping check takes the place of the checks of the file.
InjectPingOnly ==
  LET h == cfg.hosts[next] IN
  /\ Round("inject")
  /\ cfg' = IF h.ping THEN [cfg EXCEPT !.checks = <<PingCheck(h)>>] ELSE cfg
  /\ UNCHANGED <<file, maps, entry, assignments, made>>

\* The host's Ping goes behind the checks of the file, with the scheduler's defaults.
InjectPing ==
  LET h == cfg.hosts[next] IN
  /\ Round("inject")
  /\ cfg' = IF h.ping THEN [cfg EXCEPT !.checks = Append(@, PingCheck(h))] ELSE cfg
  /\ UNCHANGED <<file, maps, entry, assignments, made>>

WithDefaults(c) ==
  [c EXCEPT !.type = IF @ = None THEN "nrpe" ELSE @, !.set = Filled(@, cfg.sched)]

ApplyCheckDefaults ==
  /\ at = "checks" /\ at' = "maps"
  /\ cfg' = [cfg EXCEPT !.checks = [i \in DOMAIN @ |-> WithDefaults(@[i])]]
  /\ UNCHANGED <<file, maps, next, entry, assignments, made>>

Joined(list, wanted) == IF wanted THEN Append(list, next) ELSE list

\* A round of the first loop of compileMaps.
CompileCheck ==
  LET c == cfg.checks[next] IN
  /\ Round("maps")
  /\ anyHost' = Joined(anyHost, c.any)
  /\ byLabel' = [l \in Labels |-> Joined(byLabel[l], l \in c.labels)]
  /\ byHost'  = [h \in Hostnames |-> Joined(byHost[h], h \in c.hosts)]
  /\ UNCHANGED <<file, cfg, entry, assignments, made>>

\* A round of the second loop begins.
EnterHost ==
  /\ at = "hosts" /\ next <= Rounds
  /\ cfg' = [cfg EXCEPT !.hosts[next].tls = IF @ = None THEN cfg.tls ELSE @]
  /\ at' = IF cfg.hosts[next].hostname = None THEN "fatal" ELSE "adding"
  /\ source' = 0 /\ item' = 1 /\ assigned' = <<>>
  /\ UNCHANGED <<file, maps, next, assignments, made>>

\* Mutant: what is for any host comes before what the hostname asks for.
ListedAnyFirst(h, p) ==
  CASE p = 0               -> anyHost
    [] p \in DOMAIN h.labels -> byLabel[h.labels[p]]
    [] OTHER               -> byHost[h.hostname]

\* The lists of a host: by its hostname, by each of its labels, those for any host.
Listed(h, p) ==
  CASE p = 0               -> byHost[h.hostname]
    [] p \in DOMAIN h.labels -> byLabel[h.labels[p]]
    [] OTHER               -> anyHost

List == Listed(cfg.hosts[next], source)
NameOf(c) == cfg.checks[c].name

\* addCheck: of the checks of one name the first is taken.
AddCheck ==
  /\ at = "adding" /\ item <= Len(List)
  /\ item' = item + 1
  /\ IF \E k \in DOMAIN assigned : NameOf(assigned[k]) = NameOf(List[item])
     THEN UNCHANGED <<assigned, assignments>>
     ELSE /\ assigned' = Append(assigned, List[item])
          /\ assignments' = Append(assignments, [host |-> next, check |-> List[item]])
  /\ UNCHANGED <<at, file, cfg, maps, next, source, made>>

NextList ==
  /\ at = "adding" /\ item > Len(List) /\ source <= Len(cfg.hosts[next].labels)
  /\ source' = source + 1 /\ item' = 1
  /\ UNCHANGED <<at, file, cfg, maps, next, assigned, assignments, made>>

\* Mutant: the map of the hostnames stays as the checks made it.
ByHostKept == byHost

\* What is assigned to a host replaces the checks that name it, so that a later
\* entry of the same hostname starts from it.
ByHostAfter == [byHost EXCEPT ![cfg.hosts[next].hostname] = assigned]

LeaveHost ==
  /\ at = "adding" /\ item > Len(List) /\ source > Len(cfg.hosts[next].labels)
  /\ byHost' = ByHostAfter
  /\ at' = "hosts" /\ next' = next + 1
  /\ UNCHANGED <<file, cfg, byLabel, anyHost, entry, assignments, made>>

ValidAdmin == cfg.username # None /\ cfg.password # None /\ cfg.ttl > 0

ValidNotifier(n) == n = "log" \/ (n = "telegram" /\ cfg.telegram)

ValidCheck(c) ==
  /\ c.name # None /\ c.command # None /\ c.type \in {"nrpe", "ping"}
  /\ c.labels # {} \/ c.hosts # {} \/ c.any

Valid ==
  /\ cfg.port > 0 /\ ValidAdmin
  /\ \A i \in DOMAIN cfg.notifiers : ValidNotifier(cfg.notifiers[i])
  /\ cfg.hosts # <<>> /\ cfg.checks # <<>>
  /\ \A i \in DOMAIN cfg.checks : ValidCheck(cfg.checks[i])

\* validateConfig; main ends the process when Load returns an error.
Validate ==
  /\ at = "validate"
  /\ at' = IF Valid THEN "notifiers" ELSE "fatal"
  /\ UNCHANGED <<file, cfg, maps, next, entry, assignments, made>>

-----------------------------------------------------------------------------
(* main *)

\* What NewLoggerNotifier and NewTelegramNotifier make of a name.
Built(n) == n = "log" \/ (n = "telegram" /\ cfg.telegram)

\* A round of buildNotifiers, which leaves out what cannot be built.
BuildNotifier ==
  LET n == cfg.notifiers[next] IN
  /\ Round("notifiers")
  /\ sinks' = IF Built(n) THEN Append(sinks, n) ELSE sinks
  /\ UNCHANGED <<file, cfg, maps, entry, assignments, board, triggers>>

\* alerts.NewManager, to which no notifier at all is the one that does nothing.
NewManager ==
  /\ Past("notifiers", "board")
  /\ sinks' = IF sinks = <<>> THEN <<"nop">> ELSE sinks
  /\ UNCHANGED <<file, cfg, maps, entry, assignments, board, triggers>>

CheckOf(a) == cfg.checks[a.check]
Key(a) == <<cfg.hosts[a.host].hostname, CheckOf(a).name>>

Put(f, key, value) == [k \in DOMAIN f \cup {key} |-> IF k = key THEN value ELSE f[k]]

\* A round of state.NewManager: an assignment overwrites the row of an earlier one.
NewBoard ==
  LET a == assignments[next] IN
  /\ Round("board")
  /\ board' = Put(board, Key(a), CheckOf(a).set["MinFail"])
  /\ UNCHANGED <<file, cfg, maps, entry, assignments, sinks, triggers>>

\* A round of the loop of Run; registerTrigger overwrites what has the key.
Register ==
  LET a == assignments[next] IN
  /\ Round("launch")
  /\ triggers' = Put(triggers, Key(a), a)
  /\ UNCHANGED <<file, cfg, maps, entry, assignments, sinks, board>>

Next ==
  \/ Read \/ ApplyDefaults \/ InjectPing \/ ApplyCheckDefaults
  \/ CompileCheck \/ EnterHost \/ AddCheck \/ NextList \/ LeaveHost \/ Validate
  \/ BuildNotifier \/ NewManager \/ NewBoard \/ Register \/ LoopOver

Spec == Init /\ [][Next]_vars

-----------------------------------------------------------------------------
(* Properties *)

TypeOK ==
  /\ at \in Stages /\ cfg \in FileConfig
  /\ Len(cfg.hosts) = Len(file.hosts) /\ Len(cfg.checks) >= Len(file.checks)
  /\ next \in 1..(Rounds + 1)
  /\ anyHost \in Seq(DOMAIN cfg.checks)
  /\ byLabel \in [Labels -> Seq(DOMAIN cfg.checks)]
  /\ byHost  \in [Hostnames -> Seq(DOMAIN cfg.checks)]
  /\ at = "adding" => source \in 0..(Len(cfg.hosts[next].labels) + 1) /\ item \in 1..(Len(List) + 1)
  /\ assigned \in Seq(DOMAIN cfg.checks)
  /\ assignments \in Seq([host : DOMAIN cfg.hosts, check : DOMAIN cfg.checks])
  /\ sinks \in Seq({"log", "telegram", "nop"})
  /\ Range(triggers) \subseteq Range(assignments)

\* Entry e of the hosts asks for check c in place p: by its hostname, by one of its
\* labels in their order, or as any host does.
Asks(e, c, p) ==
  LET h == cfg.hosts[e]  k == cfg.checks[c] IN
  \/ p = 0 /\ h.hostname \in k.hosts
  \/ p \in DOMAIN h.labels /\ h.labels[p] \in k.labels
  \/ p = Len(h.labels) + 1 /\ k.any

PlacesOf(e) == 0..(Len(cfg.hosts[e].labels) + 1)
Namesakes(c) == {d \in DOMAIN cfg.checks : NameOf(d) = NameOf(c)}

\* It comes to c first, of the checks of one name that it asks for.
Prefers(e, c) ==
  \E p \in PlacesOf(e) :
    /\ Asks(e, c, p)
    /\ \A d \in Namesakes(c), q \in PlacesOf(e) : Asks(e, d, q) => p < q \/ (p = q /\ c <= d)

AsksName(e, c) == \E d \in Namesakes(c), p \in PlacesOf(e) : Asks(e, d, p)

\* Entry d is the one that decides for its hostname which check of that name runs:
\* no entry of the hostname before it asks for one.
Twins(h, n) == {d \in 1..n : cfg.hosts[d].hostname = h}
Decides(d, c) == \A x \in Twins(cfg.hosts[d].hostname, d - 1) : ~AsksName(x, c)

\* What hostname h runs by its entries up to the n-th.
Expected(h, n) ==
  {c \in DOMAIN cfg.checks : \E d \in Twins(h, n) : Decides(d, c) /\ Prefers(d, c)}

ChecksOf(e) == {a.check : a \in {b \in Range(assignments) : b.host = e}}

\* Every host entry runs, once each, exactly the checks that its hostname, its
\* labels and any_host ask for, of one name the most specific, wherever in the
\* file they are and though Ping checks are added by the loader; a hostname that
\* is listed again also runs what its earlier entries run.
AssignedRight ==
  at \in {"validate", "notifiers", "board", "launch", "running"} =>
    /\ \A e \in DOMAIN cfg.hosts : ChecksOf(e) = Expected(cfg.hosts[e].hostname, e)
    /\ IsInjective(assignments)

\* A configuration that is accepted, whatever it leaves out or gets wrong, is one
\* that the goroutines can run on: what Scheduler, Alerts and Sessions assume of
\* their thresholds, intervals and notifiers holds, every execution knows its
\* kind, its target and whether to use TLS, and every notifier listed is built.
AssumptionsMet ==
  at = "running" =>
    /\ \A k \in DOMAIN assignments :
         /\ \A s \in Settings : CheckOf(assignments[k]).set[s] > 0
         /\ CheckOf(assignments[k]).type \in {"nrpe", "ping"}
         /\ cfg.hosts[assignments[k].host].hostname \in Hostnames
         /\ cfg.hosts[assignments[k].host].tls \in BOOLEAN
    /\ sinks = cfg.notifiers /\ sinks # <<>>
    /\ cfg.repeat > 0 /\ cfg.ttl > 0 /\ cfg.port > 0

\* Assignments have one key only where a hostname is listed twice, and then they
\* are of one check: the goroutines that share a key share its thresholds and its
\* command too, and the row of the board and the channel of every key are theirs.
KeysOwned ==
  at = "running" =>
    /\ \A j, k \in DOMAIN assignments :
         j < k /\ Key(assignments[j]) = Key(assignments[k]) =>
           /\ assignments[j].check = assignments[k].check
           /\ assignments[j].host # assignments[k].host
    /\ DOMAIN triggers = {Key(assignments[k]) : k \in DOMAIN assignments}
    /\ DOMAIN board = DOMAIN triggers
    /\ \A k \in DOMAIN triggers :
         Key(triggers[k]) = k /\ board[k] = CheckOf(triggers[k]).set["MinFail"]
=============================================================================
