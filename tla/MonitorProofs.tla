---------------------------- MODULE MonitorProofs ----------------------------
(***************************************************************************)
(* The alert manager for any callers, keys and intervals: what was let     *)
(* through is spaced because lastAlert is the last of it, and stays so     *)
(* over the end of the incident.  Then the goroutines at work: they use    *)
(* the manager as Alerts has it, so that all that is proved of it with     *)
(* arbitrary callers holds of it with these; and an outage is told in      *)
(* time because the goroutine that is due has it as its next check.        *)
(***************************************************************************)
EXTENDS Monitor, SequenceTheorems, TLAPS

-----------------------------------------------------------------------------
(* The alert manager *)

\* lastAlert is the last instant said, and no later than now.
LastSaid ==
  \A k \in Keys :
    /\ \A i \in 1..Len(said[k]) : said[k][i] <= lastAlert[k]
    /\ lastAlert[k] <= now

IInv == TypeOK /\ LastSaid /\ AlertsSpaced

LEMMA AppendIs ==
  ASSUME NEW S, NEW s \in Seq(S), NEW e \in S
  PROVE  /\ Append(s, e) \in Seq(S) /\ Len(Append(s, e)) = Len(s) + 1 /\ Len(s) \in Nat
         /\ \A i \in 1..Len(s) : Append(s, e)[i] = s[i] /\ s[i] \in S
         /\ Append(s, e)[Len(s) + 1] = e
  OBVIOUS

LEMMA InitHolds == Init => IInv /\ Table!Init
  <1> SUFFICES ASSUME Init PROVE IInv /\ Table!Init
    OBVIOUS
  <1>1. TypeOK
    BY NumberAssumption DEF Init, TypeOK
  <1>2. LastSaid /\ AlertsSpaced
    BY NumberAssumption DEF Init, LastSaid, AlertsSpaced, Never
  <1>3. \A k \in Keys : ~TooSoon(k)
    BY NumberAssumption DEF Init, TooSoon, Never
  <1>4. Table!Init
    BY <1>3 DEF Init, Table!Init
  <1> QED
    BY <1>1, <1>2, <1>4 DEF IInv

\* An alert that is let through.
LEMMA Through ==
  ASSUME IInv, NEW c \in Callers, ~TooSoon(KeyOf[c]),
         lastAlert' = [lastAlert EXCEPT ![KeyOf[c]] = now],
         said' = [said EXCEPT ![KeyOf[c]] = Append(@, now)],
         active' = active \cup {KeyOf[c]}, now' = now,
         left' = [left EXCEPT ![c] = Notifiers]
  PROVE  IInv'
  <1> DEFINE k == KeyOf[c]
  <1>1. k \in Keys /\ now \in 0..MaxTime /\ now \in Int
    <2>1. k \in Keys
      BY KeyOfAssumption
    <2>2. now \in 0..MaxTime
      BY DEF IInv, TypeOK
    <2> QED
      BY <2>1, <2>2, NumberAssumption
  <1>2. said[k] \in Seq(0..MaxTime)
    BY <1>1 DEF IInv, TypeOK
  <1>3. /\ said'[k] = Append(said[k], now) /\ lastAlert'[k] = now
        /\ \A q \in Keys : q # k => said'[q] = said[q] /\ lastAlert'[q] = lastAlert[q]
    BY <1>1 DEF IInv, TypeOK
  <1>4. /\ said'[k] \in Seq(0..MaxTime) /\ Len(said'[k]) = Len(said[k]) + 1 /\ Len(said[k]) \in Nat
        /\ \A i \in 1..Len(said[k]) : said'[k][i] = said[k][i] /\ said[k][i] \in 0..MaxTime
        /\ said'[k][Len(said[k]) + 1] = now
    <2> DEFINE sk == said[k]
               T  == 0..MaxTime
    <2>1. sk \in Seq(T) /\ now \in T
      BY <1>1, <1>2
    <2> HIDE DEF sk, T
    <2>2. /\ Append(sk, now) \in Seq(T) /\ Len(Append(sk, now)) = Len(sk) + 1 /\ Len(sk) \in Nat
          /\ \A i \in 1..Len(sk) : Append(sk, now)[i] = sk[i] /\ sk[i] \in T
          /\ Append(sk, now)[Len(sk) + 1] = now
      BY <2>1, AppendIs
    <2> QED
      BY <1>3, <2>2 DEF sk, T
  <1>5. TypeOK'
    BY <1>1, <1>2, <1>3, <1>4, NumberAssumption DEF IInv, TypeOK
  <1>6. \A i \in 1..Len(said[k]) : said[k][i] <= lastAlert[k] /\ lastAlert[k] \in Int
    BY <1>1, NumberAssumption DEF IInv, LastSaid, TypeOK, Never
  <1>7. now - lastAlert[k] >= RepeatInterval /\ lastAlert[k] <= now
    <2>1. lastAlert[k] \in Int /\ RepeatInterval \in Int
      BY <1>1, NumberAssumption DEF IInv, TypeOK, Never
    <2>2. ~(now - lastAlert[k] < RepeatInterval)
      BY DEF TooSoon
    <2>3. lastAlert[k] <= now
      BY <1>1 DEF IInv, LastSaid
    <2> QED
      BY <1>1, <2>1, <2>2, <2>3
  <1> HIDE DEF k
  <1>8. LastSaid'
    <2> SUFFICES ASSUME NEW q \in Keys
                 PROVE /\ \A i \in 1..Len(said'[q]) : said'[q][i] <= lastAlert'[q]
                       /\ lastAlert'[q] <= now'
      BY DEF LastSaid
    <2>1. CASE q = k
      <3>1. ASSUME NEW i \in 1..Len(said'[k]) PROVE said'[k][i] <= now
        BY <1>1, <1>4, <1>6, <1>7
      <3> QED
        BY <1>1, <1>3, <2>1, <3>1
    <2>2. CASE q # k
      BY <1>3, <2>2 DEF IInv, LastSaid
    <2> QED
      BY <2>1, <2>2
  <1>9. AlertsSpaced'
    <2> SUFFICES ASSUME NEW q \in Keys, NEW i \in 1..Len(said'[q]), NEW j \in 1..Len(said'[q]), i < j
                 PROVE said'[q][j] - said'[q][i] >= RepeatInterval
      BY DEF AlertsSpaced
    <2>1. CASE q = k /\ j = Len(said[k]) + 1
      <3>1. i \in 1..Len(said[k])
        BY <1>4, <2>1
      <3>2. said[k][i] <= lastAlert[k] /\ said[k][i] \in Int /\ lastAlert[k] \in Int
        BY <1>4, <1>6, <3>1
      <3> QED
        BY <1>1, <1>4, <1>7, <2>1, <3>1, <3>2, NumberAssumption
    <2>2. CASE q = k /\ j # Len(said[k]) + 1
      BY <1>1, <1>4, <2>2 DEF IInv, AlertsSpaced
    <2>3. CASE q # k
      BY <1>3, <2>3 DEF IInv, AlertsSpaced
    <2> QED
      BY <2>1, <2>2, <2>3
  <1> QED
    BY <1>5, <1>8, <1>9 DEF IInv

LEMMA StepImplements == IInv /\ [Next]_vars => IInv' /\ [Table!Next]_(Table!vars)
  <1> SUFFICES ASSUME IInv, [Next]_vars PROVE IInv' /\ [Table!Next]_(Table!vars)
    OBVIOUS
  <1> DEFINE muted == {k \in Keys : TooSoon(k)}
  <1>1. CASE UNCHANGED vars
    BY <1>1 DEF vars, IInv, TypeOK, LastSaid, AlertsSpaced, Table!vars, TooSoon
  <1>2. ASSUME NEW c \in Callers, Alert(c) PROVE IInv' /\ Table!Alert(KeyOf[c])
    <2>1. CASE TooSoon(KeyOf[c])
      <3>1. active' = active \cup {KeyOf[c]} /\ UNCHANGED <<now, lastAlert, left, said>>
        BY <1>2, <2>1 DEF Alert
      <3>2. muted' = muted /\ KeyOf[c] \in muted
        BY <2>1, <3>1, KeyOfAssumption DEF TooSoon
      <3>3. IInv'
        BY <3>1, KeyOfAssumption DEF IInv, TypeOK, LastSaid, AlertsSpaced
      <3> QED
        BY <3>1, <3>2, <3>3 DEF Table!Alert
    <2>2. CASE ~TooSoon(KeyOf[c])
      <3>1. /\ lastAlert' = [lastAlert EXCEPT ![KeyOf[c]] = now]
            /\ said' = [said EXCEPT ![KeyOf[c]] = Append(@, now)]
            /\ active' = active \cup {KeyOf[c]} /\ now' = now
            /\ left' = [left EXCEPT ![c] = Notifiers]
        BY <1>2, <2>2 DEF Alert
      <3>2. IInv'
        BY <2>2, <3>1, Through
      <3>3. \A k \in Keys : TooSoon(k)' <=> TooSoon(k) \/ k = KeyOf[c]
        BY <3>1, KeyOfAssumption, NumberAssumption DEF TooSoon, IInv, TypeOK
      <3>4. muted' = muted \cup {KeyOf[c]}
        BY <3>3, KeyOfAssumption
      <3> QED
        BY <3>1, <3>2, <3>4 DEF Table!Alert
    <2> QED
      BY <2>1, <2>2
  <1>3. ASSUME NEW c \in Callers, Resolve(c) PROVE IInv' /\ Table!Resolve(KeyOf[c])
    <2>1. /\ KeyOf[c] \in active /\ active' = active \ {KeyOf[c]}
          /\ UNCHANGED <<now, lastAlert, said>>
          /\ left' = [left EXCEPT ![c] = Notifiers]
      BY <1>3 DEF Resolve
    <2>2. IInv'
      BY <2>1, NumberAssumption DEF IInv, TypeOK, LastSaid, AlertsSpaced
    <2> QED
      BY <2>1, <2>2 DEF Table!Resolve, TooSoon
  <1>4. ASSUME NEW c \in Callers, Send(c) PROVE IInv' /\ UNCHANGED Table!vars
    <2>1. /\ left[c] > 0 /\ left' = [left EXCEPT ![c] = @ - 1]
          /\ UNCHANGED <<now, lastAlert, active, said>>
      BY <1>4 DEF Send
    <2>2. left' \in [Callers -> 0..Notifiers]
      BY <2>1, NumberAssumption DEF IInv, TypeOK
    <2>3. IInv'
      BY <2>1, <2>2 DEF IInv, TypeOK, LastSaid, AlertsSpaced
    <2> QED
      BY <2>1, <2>3 DEF Table!vars, TooSoon
  <1>5. ASSUME Tick PROVE IInv' /\ Table!Elapse
    <2>1. /\ now < MaxTime /\ now' = now + 1 /\ UNCHANGED <<lastAlert, active, left, said>>
      BY <1>5 DEF Tick
    <2>2. \A k \in Keys : lastAlert[k] \in Int
      BY NumberAssumption DEF IInv, TypeOK, Never
    <2>3. IInv'
      BY <2>1, <2>2, NumberAssumption DEF IInv, TypeOK, LastSaid, AlertsSpaced
    <2>4. \A k \in Keys : TooSoon(k)' => TooSoon(k)
      BY <2>1, <2>2, NumberAssumption DEF TooSoon, IInv, TypeOK
    <2> QED
      BY <2>1, <2>3, <2>4 DEF Table!Elapse
  <1> QED
    BY <1>1, <1>2, <1>3, <1>4, <1>5, KeyOfAssumption DEF Next, Table!Next

LEMMA Invariance == Spec => []IInv
  <1> QED
    BY InitHolds, StepImplements, PTL DEF Spec

\* The manager's maps and the history keep their types.
THEOREM TypeCorrect == Spec => []TypeOK
  <1>1. IInv => TypeOK
    BY DEF IInv
  <1> QED
    BY Invariance, <1>1, PTL

\* Alerts let through for one key are a repeat interval apart, for any number of
\* goroutines that share it.
THEOREM Spacing == Spec => []AlertsSpaced
  <1>1. IInv => AlertsSpaced
    BY DEF IInv
  <1> QED
    BY Invariance, <1>1, PTL

\* The alert manager with its clock implements the incident table.
THEOREM TableImplemented == Spec => ImplementsTable
  <1> QED
    BY InitHolds, StepImplements, Invariance, PTL DEF Spec, ImplementsTable, Table!Spec

-----------------------------------------------------------------------------
(* The goroutines *)

\* Each step of a goroutine, of the world or of time is one of Alerts or none.
LEMMA StepMaps == [MonitorNext]_mvars => [Next]_vars
  <1> SUFFICES ASSUME MonitorNext PROVE [Next]_vars
    BY DEF mvars
  <1>1. ASSUME NEW c \in Callers, Goroutine(c) PROVE [Next]_vars
    <2>1. CASE WakeTimer(c) \/ WakeTrigger(c)
      BY <2>1 DEF WakeTimer, WakeTrigger, Enter
    <2>2. CASE AnswerOK(c)
      BY <2>2 DEF AnswerOK
    <2>3. CASE AnswerFailed(c)
      BY <2>3 DEF AnswerFailed
    <2>4. CASE Resolving(c)
      BY <2>4 DEF Resolving, Next
    <2>5. CASE Alerting(c)
      BY <2>5 DEF Alerting, Next
    <2>6. CASE Sending(c)
      BY <2>6 DEF Sending, Next
    <2> QED
      BY <1>1, <2>1, <2>2, <2>3, <2>4, <2>5, <2>6 DEF Goroutine
  <1>2. CASE Pass
    BY <1>2 DEF Pass, Next
  <1>3. ASSUME NEW k \in Keys, Break(k) \/ Mend(k) \/ Silence(k) \/ Unsilence(k)
        PROVE  UNCHANGED vars
    BY <1>3 DEF Break, Mend, Silence, Unsilence, Change
  <1> QED
    BY <1>1, <1>2, <1>3 DEF MonitorNext

\* The timed goroutines are callers as Alerts allows them (scheduler.go 77-143
\* calls alerts/manager.go 37-61).
THEOREM UsesManager == MonitorSpec => Spec
  <1>1. MonitorInit => Init
    BY DEF MonitorInit
  <1> QED
    BY <1>1, StepMaps, PTL DEF MonitorSpec, Spec

\* Alerts of a key keep their distance (alerts/manager.go 81-87), also when two
\* goroutines of one key run, slow notifiers and all.
THEOREM SpacedAtWork == MonitorSpec => []AlertsSpaced
  BY UsesManager, Spacing, PTL

\* The manager at work implements the incident table, which the untimed model
\* of the scheduler uses.
THEOREM TableAtWork == MonitorSpec => ImplementsTable
  BY UsesManager, TableImplemented, PTL

-----------------------------------------------------------------------------
(* Types *)

Places == {"absent", "select", "running", "resolving", "alerting", "sending"}

\* The goroutines' part of the type; the manager's is TypeOK.
GoroutinesOK ==
  /\ at    \in [Callers -> Places]
  /\ until \in [Callers -> 0..Latest]
  /\ fails \in [Callers -> 0..MinFail]
  /\ succs \in [Callers -> 0..MinSuccess]
  /\ alertActive \in [Callers -> BOOLEAN]
  /\ \A c \in Callers : at[c] = "sending" <=> left[c] > 0

WorldOK ==
  /\ up \subseteq Keys /\ quiet \subseteq Keys /\ seen \subseteq Callers
  /\ fine \in [Keys -> 0..now]

Inv == TypeOK /\ GoroutinesOK /\ WorldOK

\* What Wait does, for the time it may be called with.
LEMMA WaitTyped ==
  ASSUME TypeOK, GoroutinesOK, NEW c \in Callers, NEW place \in Places,
         NEW time \in {0, CheckInterval, RetryInterval, MaxExec, MaxSend},
         Wait(c, place, time)
  PROVE  /\ at' \in [Callers -> Places] /\ until' \in [Callers -> 0..Latest]
         /\ at'[c] = place /\ \A d \in Callers : d # c => at'[d] = at[d]
  <1>1. now + time \in 0..Latest
    <2>1. now \in 0..MaxTime /\ MaxTime \in Nat
      BY NumberAssumption DEF TypeOK
    <2>2. /\ time \in Nat /\ CheckInterval \in Nat /\ RetryInterval \in Nat
          /\ MaxExec \in Nat /\ MaxSend \in Nat
      BY SettingsAssumption
    <2>3. time <= CheckInterval + RetryInterval + MaxExec + MaxSend
      BY <2>2
    <2> QED
      BY <2>1, <2>2, <2>3 DEF Latest
  <1> QED
    BY <1>1 DEF Wait, GoroutinesOK

\* A send begins or goes on exactly when something is left to send.
LEMMA ProceedTyped ==
  ASSUME TypeOK, TypeOK', GoroutinesOK, NEW c \in Callers, Proceed(c),
         \A d \in Callers : d # c => left'[d] = left[d]
  PROVE  /\ at' \in [Callers -> Places] /\ until' \in [Callers -> 0..Latest]
         /\ \A d \in Callers : at'[d] = "sending" <=> left'[d] > 0
  <1>1. CASE left'[c] > 0
    <2>1. Wait(c, "sending", MaxSend)
      BY <1>1 DEF Proceed
    <2> QED
      BY <1>1, <2>1, WaitTyped DEF Places, GoroutinesOK
  <1>2. CASE ~(left'[c] > 0)
    <2>1. Wait(c, "select", CheckInterval)
      BY <1>2 DEF Proceed, Rest
    <2> QED
      BY <1>2, <2>1, WaitTyped DEF Places, GoroutinesOK
  <1> QED
    BY <1>1, <1>2

LEMMA BumpTyped ==
  ASSUME NEW threshold \in Nat, NEW n \in 0..threshold
  PROVE  Bump(n, threshold) \in 0..threshold
  BY DEF Bump

\* A wait that is not for a notifier, by a goroutine that was not sending.
LEMMA QuietWait ==
  ASSUME TypeOK, GoroutinesOK, NEW c \in Callers, NEW place \in Places \ {"sending"},
         NEW time \in {0, CheckInterval, RetryInterval, MaxExec, MaxSend},
         Wait(c, place, time), at[c] # "sending", UNCHANGED left
  PROVE  /\ at' \in [Callers -> Places] /\ until' \in [Callers -> 0..Latest]
         /\ \A d \in Callers : at'[d] = "sending" <=> left'[d] > 0
  BY WaitTyped DEF GoroutinesOK

LEMMA EnterTyped ==
  ASSUME Inv, NEW c \in Callers, Enter(c) PROVE GoroutinesOK' /\ WorldOK'
  <1> USE DEF Inv
  <1>1. Wait(c, "select", CheckInterval) \/ Wait(c, "running", MaxExec)
    BY DEF Enter, Rest
  <1>2. /\ at' \in [Callers -> Places] /\ until' \in [Callers -> 0..Latest]
        /\ \A d \in Callers : at'[d] = "sending" <=> left'[d] > 0
    BY <1>1, QuietWait DEF Enter, vars, Places
  <1>3. seen' \subseteq Callers
    BY DEF Enter, WorldOK
  <1> QED
    BY <1>2, <1>3 DEF Enter, GoroutinesOK, WorldOK, vars, world

LEMMA AnswerTyped ==
  ASSUME Inv, NEW c \in Callers, AnswerOK(c) \/ AnswerFailed(c)
  PROVE  GoroutinesOK' /\ WorldOK'
  <1> USE DEF Inv
  <1>1. \/ Wait(c, "resolving", 0) \/ Wait(c, "select", CheckInterval)
        \/ Wait(c, "alerting", 0) \/ Wait(c, "select", RetryInterval)
    BY DEF AnswerOK, AnswerFailed, Rest, Pause
  <1>2. /\ at' \in [Callers -> Places] /\ until' \in [Callers -> 0..Latest]
        /\ \A d \in Callers : at'[d] = "sending" <=> left'[d] > 0
    BY <1>1, QuietWait DEF AnswerOK, AnswerFailed, vars, Places
  <1>3. fails' \in [Callers -> 0..MinFail] /\ succs' \in [Callers -> 0..MinSuccess]
    <2>1. MinFail \in Nat /\ MinSuccess \in Nat
      BY SettingsAssumption
    <2>2. Bump(fails[c], MinFail) \in 0..MinFail /\ Bump(succs[c], MinSuccess) \in 0..MinSuccess
      BY <2>1, BumpTyped DEF GoroutinesOK
    <2> QED
      BY <2>1, <2>2 DEF AnswerOK, AnswerFailed, GoroutinesOK
  <1> QED
    BY <1>2, <1>3 DEF AnswerOK, AnswerFailed, GoroutinesOK, WorldOK, vars, world

\* The steps that call the alert manager.
LEMMA CallTyped ==
  ASSUME Inv, TypeOK', NEW c \in Callers, Resolving(c) \/ Alerting(c) \/ Sending(c)
  PROVE  GoroutinesOK' /\ WorldOK'
  <1> USE DEF Inv
  <1>1. ASSUME Wait(c, "select", CheckInterval), UNCHANGED vars, at[c] # "sending"
        PROVE  /\ at' \in [Callers -> Places] /\ until' \in [Callers -> 0..Latest]
               /\ \A d \in Callers : at'[d] = "sending" <=> left'[d] > 0
    BY <1>1, QuietWait DEF vars, Places
  <1>2. ASSUME Proceed(c), \A d \in Callers : d # c => left'[d] = left[d]
        PROVE  /\ at' \in [Callers -> Places] /\ until' \in [Callers -> 0..Latest]
               /\ \A d \in Callers : at'[d] = "sending" <=> left'[d] > 0
    BY <1>2, ProceedTyped
  <1>3. \/ Wait(c, "select", CheckInterval) /\ UNCHANGED vars /\ at[c] # "sending"
        \/ Proceed(c) /\ \A d \in Callers : d # c => left'[d] = left[d]
    <2>1. CASE Resolving(c)
      BY <2>1 DEF Resolving, Rest, Resolve, vars, TypeOK
    <2>2. CASE Alerting(c)
      BY <2>2 DEF Alerting, Rest, Alert, vars, TypeOK
    <2>3. CASE Sending(c)
      BY <2>3 DEF Sending, Send, TypeOK
    <2> QED
      BY <2>1, <2>2, <2>3
  <1>4. alertActive' \in [Callers -> BOOLEAN]
    BY DEF Resolving, Alerting, Sending, GoroutinesOK
  <1>5. now' = now
    BY DEF Resolving, Alerting, Sending, Resolve, Alert, Send, vars
  <1>6. UNCHANGED <<fails, succs, seen, world>>
    BY DEF Resolving, Alerting, Sending
  <1> QED
    BY <1>1, <1>2, <1>3, <1>4, <1>5, <1>6 DEF GoroutinesOK, WorldOK, world

LEMMA WorldTyped ==
  ASSUME Inv, TypeOK',
         Pass \/ \E k \in Keys : Break(k) \/ Mend(k) \/ Silence(k) \/ Unsilence(k)
  PROVE  GoroutinesOK' /\ WorldOK'
  <1> USE DEF Inv
  <1>1. now \in Nat /\ MaxTime \in Nat
    BY NumberAssumption DEF TypeOK
  <1>2. CASE Pass
    <2>1. now' = now + 1
      BY <1>2 DEF Pass, Tick
    <2>2. fine' \in [Keys -> 0..now']
      BY <1>1, <1>2, <2>1 DEF Pass, WorldOK
    <2> QED
      BY <1>2, <2>2 DEF Pass, Tick, GoroutinesOK, WorldOK, goroutine
  <1>3. ASSUME NEW k \in Keys, Break(k) \/ Mend(k) \/ Silence(k) \/ Unsilence(k)
        PROVE  GoroutinesOK' /\ WorldOK'
    <2>1. now' = now /\ UNCHANGED <<goroutine, left>>
      BY <1>3 DEF Break, Mend, Silence, Unsilence, Change, vars
    <2>2. fine' \in [Keys -> 0..now]
      BY <1>1, <1>3 DEF Break, Mend, Silence, Unsilence, Change, WorldOK
    <2>3. up' \subseteq Keys /\ quiet' \subseteq Keys
      BY <1>3 DEF Break, Mend, Silence, Unsilence, Change, WorldOK
    <2> QED
      BY <2>1, <2>2, <2>3 DEF GoroutinesOK, WorldOK, goroutine
  <1> QED
    BY <1>2, <1>3

LEMMA InvInit == MonitorInit /\ TypeOK => Inv
  <1> SUFFICES ASSUME MonitorInit, TypeOK PROVE GoroutinesOK /\ WorldOK
    BY DEF Inv
  <1>1. Latest \in Nat /\ MinFail \in Nat /\ MinSuccess \in Nat
    BY SettingsAssumption, NumberAssumption DEF Latest
  <1> QED
    BY <1>1 DEF MonitorInit, Init, GoroutinesOK, WorldOK, Places

LEMMA InvStep == Inv /\ TypeOK' /\ [MonitorNext]_mvars => Inv'
  <1> SUFFICES ASSUME Inv, TypeOK', [MonitorNext]_mvars PROVE GoroutinesOK' /\ WorldOK'
    BY DEF Inv
  <1>1. CASE UNCHANGED mvars
    BY <1>1 DEF Inv, GoroutinesOK, WorldOK, mvars, vars, goroutine, world
  <1>2. ASSUME NEW c \in Callers, Goroutine(c) PROVE GoroutinesOK' /\ WorldOK'
    BY <1>2, EnterTyped, AnswerTyped, CallTyped DEF Goroutine, WakeTimer, WakeTrigger
  <1> QED
    BY <1>1, <1>2, WorldTyped DEF MonitorNext

LEMMA InvAlways == MonitorSpec => []Inv
  <1>1. MonitorSpec => []TypeOK
    BY UsesManager, TypeCorrect, PTL
  <1> QED
    BY <1>1, InvInit, InvStep, PTL DEF MonitorSpec

\* The state keeps its type, and a goroutine is at its notifiers exactly while
\* messages are left to send (alerts/manager.go 63-73 is synchronous).
THEOREM MonitorTypeCorrect == MonitorSpec => []MonitorTypeOK
  <1>1. Inv => MonitorTypeOK
    BY DEF Inv, GoroutinesOK, WorldOK, MonitorTypeOK, Places
  <1> QED
    BY <1>1, InvAlways, PTL

-----------------------------------------------------------------------------
(* How late an outage is told.  A goroutine is on its way to the first alert *)
(* of the outage, or it has alerted before and is on its way to the next     *)
(* one: First and Again say by when it is over with what it is at.           *)

\* What each place of a goroutine says of its timer, its failures and the end of
\* an execution that may still succeed.
Timely(c) ==
  /\ at[c] # "absent" => now <= until[c]
  /\ at[c] = "select" =>
       until[c] <= now + CheckInterval + (IF fails[c] \in {0, MinFail} THEN 0 ELSE RetryInterval)
  /\ at[c] = "running"   => until[c] <= now + MaxExec
  /\ at[c] = "sending"   => until[c] <= now + MaxSend /\ fails[c] \in {0, MinFail}
  /\ at[c] = "resolving" => until[c] = now /\ fails[c] = 0
  /\ at[c] = "alerting"  => until[c] = now /\ fails[c] = MinFail
  /\ c \in seen => at[c] = "running" /\ until[c] <= fine[KeyOf[c]] + MaxExec

\* A key that is fine is so now.
AtEase == \A k \in up \cup quiet : fine[k] = now

\* lastAlert is what was said last.
Heard ==
  \A k \in Keys : lastAlert[k] = IF said[k] = <<>> THEN Never ELSE said[k][Len(said[k])]

\* When at the latest the check is tried again after n failures.
Due(k, n) ==
  fine[k] + MaxExec + Notifiers * MaxSend + CheckInterval + n * (MaxExec + RetryInterval)

\* The failures in a row since the outage, before it was told.
Failures(c) == IF fails[c] < MinFail THEN fails[c] ELSE 0

\* By when it is over with what it is at, on its way to the first alert: counted
\* from the last instant at which the key was fine.
First(c) ==
  LET k == KeyOf[c] IN
  /\ at[c] = "select"    => until[c] <= Due(k, Failures(c))
  /\ at[c] = "running"   => until[c] <= Due(k, Failures(c)) + MaxExec
  /\ at[c] = "alerting"  => until[c] <= Due(k, MinFail - 1) + MaxExec
  /\ at[c] = "resolving" => until[c] <= fine[k] + MaxExec
  /\ at[c] = "sending"   => until[c] + (left[c] - 1) * MaxSend + CheckInterval <= Due(k, 0)

\* How long after the last alert the check that a send or a mute holds up begins.
Held == Longer(RepeatInterval - 1, Notifiers * MaxSend)

\* The same on its way to the next alert, counted from the last one.
Again(c) ==
  LET last == lastAlert[KeyOf[c]] IN
  /\ last # Never /\ fails[c] = MinFail /\ c \notin seen
  /\ at[c] \in {"select", "running", "alerting", "sending"}
  /\ at[c] = "select" => until[c] <= last + Held + CheckInterval
  /\ at[c] \in {"running", "alerting"} => until[c] <= last + Held + CheckInterval + MaxExec
  /\ at[c] = "sending" => until[c] + (left[c] - 1) * MaxSend <= last + Notifiers * MaxSend

\* On its way to the first alert, or to the next one.
InTurn(c) == at[c] # "absent" => First(c) \/ Again(c)

Prompt == AtEase /\ Heard /\ \A c \in Callers : Timely(c) /\ InTurn(c)

LEMMA Numbers ==
  /\ CheckInterval \in Nat \ {0} /\ RetryInterval \in Nat \ {0} /\ MinFail \in Nat \ {0}
  /\ MinSuccess \in Nat \ {0} /\ MaxExec \in Nat \ {0} /\ MaxSend \in Nat \ {0}
  /\ Notifiers \in Nat \ {0} /\ RepeatInterval \in Nat \ {0} /\ Never \in Int
  BY SettingsAssumption, NumberAssumption DEF Never

LEMMA Products ==
  /\ \A m, n \in Nat : m * n \in Nat /\ (m + 1) * n = m * n + n
  /\ \A j, m, n \in Nat : j <= m => j * n <= m * n
  /\ \A n \in Nat : 0 * n = 0
  OBVIOUS

\* The time it takes to send what is left.
LEMMA Sends ==
  /\ Notifiers * MaxSend \in Nat
  /\ \A n \in 1..Notifiers :
       /\ (n - 1) * MaxSend \in Nat
       /\ MaxSend + (n - 1) * MaxSend <= Notifiers * MaxSend
       /\ n > 1 => MaxSend + ((n - 1) - 1) * MaxSend = (n - 1) * MaxSend
  <1>1. Notifiers * MaxSend \in Nat
    BY Numbers, Products
  <1>2. ASSUME NEW n \in 1..Notifiers
        PROVE  (n - 1) * MaxSend \in Nat /\ MaxSend + (n - 1) * MaxSend <= Notifiers * MaxSend
    <2>1. n \in Nat /\ n - 1 \in Nat /\ n <= Notifiers /\ (n - 1) + 1 = n
      BY Numbers
    <2>2. (n - 1) * MaxSend \in Nat /\ n * MaxSend = (n - 1) * MaxSend + MaxSend
      BY <2>1, Numbers, Products
    <2>3. n * MaxSend <= Notifiers * MaxSend /\ n * MaxSend \in Nat
      BY <2>1, Numbers, Products
    <2> QED
      BY <1>1, <2>2, <2>3, Numbers
  <1>3. ASSUME NEW n \in 1..Notifiers, n > 1
        PROVE  MaxSend + ((n - 1) - 1) * MaxSend = (n - 1) * MaxSend
    <2>1. (n - 1) - 1 \in Nat /\ ((n - 1) - 1) + 1 = n - 1
      BY <1>3, Numbers
    <2>2. ((n - 1) - 1) * MaxSend \in Nat
          /\ (n - 1) * MaxSend = ((n - 1) - 1) * MaxSend + MaxSend
      BY <2>1, Numbers, Products
    <2> QED
      BY <2>2, Numbers
  <1> QED
    BY <1>1, <1>2, <1>3

LEMMA Dues ==
  ASSUME NEW k, fine[k] \in Nat
  PROVE  /\ Due(k, 0) = fine[k] + MaxExec + Notifiers * MaxSend + CheckInterval
         /\ \A n \in Nat : /\ Due(k, n) \in Nat /\ Due(k, 0) <= Due(k, n)
                           /\ Due(k, n + 1) = Due(k, n) + MaxExec + RetryInterval
         /\ \A m, n \in Nat : m <= n => Due(k, m) <= Due(k, n)
         /\ Due(k, MinFail - 1) + MaxExec = fine[k] + ToldWithin
  <1> DEFINE L == MaxExec + RetryInterval
             G == fine[k] + MaxExec + Notifiers * MaxSend + CheckInterval
  <1>1. L \in Nat /\ G \in Nat /\ L = MaxExec + RetryInterval /\ \A n \in Nat : Due(k, n) = G + n * L
    BY Numbers, Sends DEF Due
  <1> HIDE DEF L, G
  <1>2. \A n \in Nat : n * L \in Nat /\ (n + 1) * L = n * L + L /\ 0 * L = 0
    BY <1>1, Products
  <1>3. \A m, n \in Nat : m <= n => m * L <= n * L
    BY <1>1, Products
  <1>4. Due(k, 0) = G
    BY <1>1, <1>2
  <1>5. \A n \in Nat : Due(k, n) \in Nat /\ Due(k, n + 1) = Due(k, n) + L
    <2> SUFFICES ASSUME NEW n \in Nat PROVE Due(k, n) \in Nat /\ Due(k, n + 1) = Due(k, n) + L
      OBVIOUS
    <2>1. Due(k, n) = G + n * L /\ Due(k, n + 1) = G + (n + 1) * L
      BY <1>1
    <2>2. n * L \in Nat /\ (n + 1) * L = n * L + L
      BY <1>2
    <2> HIDE DEF Due
    <2> QED
      BY <1>1, <2>1, <2>2
  <1>6. \A m, n \in Nat : m <= n => Due(k, m) <= Due(k, n)
    BY <1>1, <1>2, <1>3
  <1>7. Due(k, MinFail - 1) + MaxExec = fine[k] + ToldWithin
    <2>1. (MinFail - 1) \in Nat /\ (MinFail - 1) + 1 = MinFail
      BY Numbers
    <2>2. /\ (MinFail - 1) * L = (MinFail - 1) * MaxExec + (MinFail - 1) * RetryInterval
          /\ (MinFail - 1) * MaxExec \in Nat /\ (MinFail - 1) * RetryInterval \in Nat
      <3>1. \A m, a, b \in Nat : m * (a + b) = m * a + m * b
        OBVIOUS
      <3> QED
        BY <1>1, <2>1, <3>1, Numbers, Products
    <2>3. MinFail * MaxExec = (MinFail - 1) * MaxExec + MaxExec
      BY <2>1, Numbers, Products
    <2> QED
      BY <1>1, <2>1, <2>2, <2>3, Numbers, Sends DEF ToldWithin, G
  <1>8. \A n \in Nat : /\ Due(k, n) \in Nat /\ Due(k, 0) <= Due(k, n)
                      /\ Due(k, n + 1) = Due(k, n) + MaxExec + RetryInterval
    <2> SUFFICES ASSUME NEW n \in Nat
                 PROVE /\ Due(k, n) \in Nat /\ Due(k, 0) <= Due(k, n)
                       /\ Due(k, n + 1) = Due(k, n) + MaxExec + RetryInterval
      OBVIOUS
    <2>1. Due(k, n) \in Nat /\ Due(k, n + 1) = Due(k, n) + L
      BY <1>5
    <2>2. Due(k, 0) <= Due(k, n)
      BY <1>6
    <2> QED
      BY <1>1, <2>1, <2>2, Numbers
  <1> QED
    BY <1>4, <1>6, <1>7, <1>8 DEF G

\* The types that the steps below need of one goroutine.
LEMMA Typed ==
  ASSUME Inv, NEW c \in Callers
  PROVE  /\ KeyOf[c] \in Keys /\ now \in Nat /\ until[c] \in Nat /\ fails[c] \in 0..MinFail
         /\ fails[c] \in Nat /\ left[c] \in 0..Notifiers /\ at[c] \in Places
         /\ fine[KeyOf[c]] \in Nat /\ fine[KeyOf[c]] <= now /\ lastAlert[KeyOf[c]] \in Int
         /\ (at[c] = "sending" <=> left[c] > 0)
  <1>1. KeyOf[c] \in Keys
    BY KeyOfAssumption
  <1>2. now \in Nat /\ left[c] \in 0..Notifiers /\ lastAlert[KeyOf[c]] \in Int
    BY <1>1, Numbers, NumberAssumption DEF Inv, TypeOK
  <1>3. Latest \in Nat
    BY Numbers, NumberAssumption DEF Latest
  <1>4. /\ until[c] \in Nat /\ fails[c] \in 0..MinFail /\ fails[c] \in Nat /\ at[c] \in Places
        /\ (at[c] = "sending" <=> left[c] > 0)
    BY <1>3, Numbers DEF Inv, GoroutinesOK
  <1>5. fine[KeyOf[c]] \in Nat /\ fine[KeyOf[c]] <= now
    BY <1>1, <1>2 DEF Inv, WorldOK
  <1> QED
    BY <1>1, <1>2, <1>4, <1>5

\* Where a key is fine, what is under way has begun in time.
LEMMA EaseFirst ==
  Inv => \A c \in Callers : Timely(c) /\ fine[KeyOf[c]] = now => First(c)
  <1> SUFFICES ASSUME Inv, NEW c \in Callers, Timely(c), fine[KeyOf[c]] = now PROVE First(c)
    OBVIOUS
  <1> DEFINE k == KeyOf[c]
             P == Notifiers * MaxSend
             f == Failures(c)
  <1>1. /\ now \in Nat /\ until[c] \in Nat /\ fails[c] \in Nat /\ left[c] \in 0..Notifiers
        /\ fails[c] <= MinFail /\ fine[k] = now /\ (at[c] = "sending" <=> left[c] > 0)
    BY Typed, Numbers
  <1> HIDE DEF k
  <1>2. /\ Due(k, 0) = now + MaxExec + P + CheckInterval
        /\ \A n \in Nat : /\ Due(k, n) \in Nat /\ Due(k, 0) <= Due(k, n)
                          /\ Due(k, n + 1) = Due(k, n) + MaxExec + RetryInterval
        /\ \A m, n \in Nat : m <= n => Due(k, m) <= Due(k, n)
    BY <1>1, Dues
  <1>3. P \in Nat /\ Due(k, 0) = now + MaxExec + P + CheckInterval
    BY <1>2, Sends
  <1> HIDE DEF P
  <1>4. f \in Nat /\ Due(k, f) \in Nat /\ Due(k, 0) <= Due(k, f) /\ Due(k, 0) \in Nat
        /\ Due(k, MinFail - 1) \in Nat /\ Due(k, 0) <= Due(k, MinFail - 1)
    <2>1. f \in Nat /\ MinFail - 1 \in Nat
      BY <1>1, Numbers DEF Failures
    <2> HIDE DEF f
    <2> QED
      BY <1>2, <2>1
  <1>5. at[c] = "select" => until[c] <= Due(k, f)
    <2> SUFFICES ASSUME at[c] = "select" PROVE until[c] <= Due(k, f)
      OBVIOUS
    <2>1. CASE fails[c] \in {0, MinFail}
      <3>1. until[c] <= now + CheckInterval
        BY <1>1, <2>1, Numbers DEF Timely
      <3> HIDE DEF f
      <3> QED
        BY <1>1, <1>4, <1>3, <3>1, Numbers
    <2>2. CASE fails[c] \notin {0, MinFail}
      <3>1. until[c] <= now + CheckInterval + RetryInterval
        BY <2>2 DEF Timely
      <3>2. f >= 1
        BY <1>1, <2>2, Numbers DEF Failures
      <3> HIDE DEF f
      <3>3. Due(k, 1) <= Due(k, f)
        BY <1>2, <1>4, <3>2
      <3>4. Due(k, 1) = Due(k, 0) + MaxExec + RetryInterval
        <4>1. Due(k, 0 + 1) = Due(k, 0) + MaxExec + RetryInterval
          BY <1>2
        <4> QED
          BY <4>1
      <3> QED
        BY <1>1, <1>4, <1>3, <3>1, <3>3, <3>4, Numbers
    <2> QED
      BY <2>1, <2>2
  <1>6. at[c] = "running" => until[c] <= Due(k, f) + MaxExec
    <2> HIDE DEF f
    <2> QED
      BY <1>1, <1>4, <1>3, Numbers DEF Timely
  <1>7. /\ at[c] = "alerting" => until[c] <= Due(k, MinFail - 1) + MaxExec
        /\ at[c] = "resolving" => until[c] <= fine[k] + MaxExec
    BY <1>1, <1>4, <1>3, Numbers DEF Timely
  <1>8. at[c] = "sending" => until[c] + (left[c] - 1) * MaxSend + CheckInterval <= Due(k, 0)
    <2> SUFFICES ASSUME at[c] = "sending"
                 PROVE until[c] + (left[c] - 1) * MaxSend + CheckInterval <= Due(k, 0)
      OBVIOUS
    <2>1. left[c] \in 1..Notifiers /\ until[c] <= now + MaxSend
      BY <1>1, Numbers DEF Timely
    <2>2. (left[c] - 1) * MaxSend \in Nat /\ MaxSend + (left[c] - 1) * MaxSend <= P
      BY <2>1, Sends DEF P
    <2> DEFINE rest == (left[c] - 1) * MaxSend
    <2> HIDE DEF rest
    <2>3. rest \in Nat /\ MaxSend + rest <= P
      BY <2>2 DEF rest
    <2>4. until[c] + rest + CheckInterval <= Due(k, 0)
      BY <1>1, <1>3, <2>1, <2>3, Numbers
    <2> QED
      BY <2>4 DEF rest
  <1> QED
    BY <1>5, <1>6, <1>7, <1>8 DEF First, k

LEMMA HeardKeeps == TypeOK /\ Heard /\ [Next]_vars => Heard'
  <1> SUFFICES ASSUME TypeOK, Heard, [Next]_vars, NEW k \in Keys
               PROVE  lastAlert'[k] = IF said'[k] = <<>> THEN Never ELSE said'[k][Len(said'[k])]
    BY DEF Heard
  <1>1. CASE lastAlert'[k] = lastAlert[k] /\ said'[k] = said[k]
    BY <1>1 DEF Heard
  <1>2. ASSUME NEW c \in Callers, Alert(c), ~TooSoon(KeyOf[c]), KeyOf[c] = k
        PROVE  lastAlert'[k] = now /\ said'[k] # <<>> /\ said'[k][Len(said'[k])] = now
    <2> DEFINE sk == said[k]
               T == 0..MaxTime
    <2>1. sk \in Seq(T) /\ now \in T
      BY DEF TypeOK
    <2>2. lastAlert'[k] = now /\ said'[k] = Append(sk, now)
      BY <1>2 DEF Alert, TypeOK
    <2> HIDE DEF sk, T
    <2>3. Len(Append(sk, now)) = Len(sk) + 1 /\ Len(sk) \in Nat /\ Append(sk, now)[Len(sk) + 1] = now
      BY <2>1, AppendIs
    <2>4. Append(sk, now) # <<>>
      BY <2>3
    <2> QED
      BY <2>2, <2>3, <2>4
  <1>3. ASSUME NEW c \in Callers, Alert(c), ~(~TooSoon(KeyOf[c]) /\ KeyOf[c] = k)
        PROVE  lastAlert'[k] = lastAlert[k] /\ said'[k] = said[k]
    BY <1>3, KeyOfAssumption DEF Alert, TypeOK
  <1>4. ASSUME NEW c \in Callers, Resolve(c) \/ Send(c)
        PROVE  lastAlert'[k] = lastAlert[k] /\ said'[k] = said[k]
    BY <1>4 DEF Resolve, Send
  <1>5. Tick \/ UNCHANGED vars => lastAlert'[k] = lastAlert[k] /\ said'[k] = said[k]
    BY DEF Tick, vars
  <1> QED
    BY <1>1, <1>2, <1>3, <1>4, <1>5 DEF Next

\* What a goroutine is at does not depend on the steps of others, except that they
\* may alert of the key it is on its way to alert of.
LEMMA Untouched ==
  ASSUME NEW d \in Callers, Inv, Timely(d), InTurn(d),
         at'[d] = at[d], until'[d] = until[d], fails'[d] = fails[d], left'[d] = left[d],
         d \in seen' <=> d \in seen, now' = now, fine'[KeyOf[d]] = fine[KeyOf[d]],
         \/ lastAlert'[KeyOf[d]] = lastAlert[KeyOf[d]]
         \/ lastAlert'[KeyOf[d]] = now /\ lastAlert[KeyOf[d]] <= now
  PROVE  Timely(d)' /\ InTurn(d)'
  <1>1. Timely(d)'
    BY DEF Timely
  <1>2. First(d) => First(d)'
    BY DEF First, Due, Failures
  <1>3. Again(d) => Again(d)'
    <2> SUFFICES ASSUME Again(d) PROVE Again(d)'
      OBVIOUS
    <2>1. CASE lastAlert'[KeyOf[d]] = lastAlert[KeyOf[d]]
      BY <2>1 DEF Again
    <2>2. CASE lastAlert'[KeyOf[d]] = now /\ lastAlert[KeyOf[d]] <= now
      <3> DEFINE l == lastAlert[KeyOf[d]]
                 P == Notifiers * MaxSend
                 rest == (left[d] - 1) * MaxSend
      <3>1. l \in Int /\ now \in Nat /\ until[d] \in Nat /\ l <= now /\ P \in Nat /\ Held \in Int
            /\ (at[d] = "sending" => rest \in Nat)
        BY <2>2, Typed, Numbers, Sends DEF Held, Longer
      <3>2. /\ l # Never /\ fails[d] = MinFail /\ d \notin seen
            /\ at[d] \in {"select", "running", "alerting", "sending"}
            /\ at[d] = "select" => until[d] <= l + Held + CheckInterval
            /\ at[d] \in {"running", "alerting"} => until[d] <= l + Held + CheckInterval + MaxExec
            /\ at[d] = "sending" => until[d] + rest <= l + P
        BY DEF Again
      <3>3. now # Never
        BY <3>1, NumberAssumption DEF Never
      <3> HIDE DEF l, P, rest
      <3>4. /\ at[d] = "select" => until[d] <= now + Held + CheckInterval
            /\ at[d] \in {"running", "alerting"} => until[d] <= now + Held + CheckInterval + MaxExec
            /\ at[d] = "sending" => until[d] + rest <= now + P
        BY <3>1, <3>2, Numbers
      <3> QED
        BY <2>2, <3>2, <3>3, <3>4 DEF Again, P, rest
    <2> QED
      BY <2>1, <2>2
  <1> QED
    BY <1>1, <1>2, <1>3 DEF InTurn

\* Arithmetic of an outage: the values that First and Again speak of.
LEMMA Limits ==
  ASSUME Inv, NEW c \in Callers
  PROVE  LET k == KeyOf[c]  P == Notifiers * MaxSend  IN
         /\ P \in Nat /\ Held \in Nat /\ P <= Held /\ RepeatInterval - 1 <= Held
         /\ Failures(c) \in Nat /\ Failures(c) <= MinFail - 1
         /\ Due(k, Failures(c)) \in Nat /\ Due(k, 0) \in Nat /\ Due(k, MinFail - 1) \in Nat
         /\ Due(k, 0) = fine[k] + MaxExec + P + CheckInterval
         /\ Due(k, Failures(c)) <= Due(k, MinFail - 1)
         /\ Due(k, 0) <= Due(k, Failures(c))
         /\ Due(k, Failures(c) + 1) = Due(k, Failures(c)) + MaxExec + RetryInterval
         /\ Due(k, MinFail - 1) + MaxExec = fine[k] + ToldWithin
  <1>1. Notifiers * MaxSend \in Nat
    BY Sends
  <1>2. Held \in Nat /\ Notifiers * MaxSend <= Held /\ RepeatInterval - 1 <= Held
    BY <1>1, Numbers DEF Held, Longer
  <1>3. Failures(c) \in Nat /\ Failures(c) <= MinFail - 1 /\ MinFail - 1 \in Nat
    BY Typed, Numbers DEF Failures
  <1>4. fine[KeyOf[c]] \in Nat
    BY Typed
  <1> QED
    BY <1>1, <1>2, <1>3, <1>4, Dues

\* What a wait leaves at the goroutine that begins it.
LEMMA WaitIs ==
  ASSUME Inv, NEW c \in Callers, NEW place, NEW time, Wait(c, place, time)
  PROVE  at'[c] = place /\ until'[c] = now + time
  BY DEF Wait, Inv, GoroutinesOK

LEMMA EnterPrompt ==
  ASSUME Inv, Prompt, NEW c \in Callers, Enter(c)
  PROVE  Timely(c)' /\ (KeyOf[c] \notin up \cup quiet => InTurn(c)')
  <1> DEFINE k == KeyOf[c]
  <1>1. /\ k \in Keys /\ now \in Nat /\ until[c] \in Nat /\ fails[c] \in 0..MinFail
        /\ fine[k] \in Nat /\ fine[k] <= now /\ lastAlert[k] \in Int
    BY Typed
  <1>2. /\ at[c] = "select" /\ c \notin seen /\ now <= until[c]
        /\ UNCHANGED <<now, lastAlert, fails, fine, left>>
    BY DEF Enter, Prompt, Timely, vars, world
  <1>3. CASE k \in quiet
    <2>1. at'[c] = "select" /\ until'[c] = now + CheckInterval /\ seen' = seen
      BY <1>3, WaitIs DEF Enter, Rest
    <2>2. Timely(c)'
      <3>1. /\ now' <= until'[c] /\ until'[c] <= now' + CheckInterval
            /\ until'[c] <= now' + CheckInterval + RetryInterval
            /\ until'[c] <= now' + CheckInterval + 0
        BY <1>1, <1>2, <2>1, Numbers
      <3> QED
        BY <1>2, <2>1, <3>1 DEF Timely
    <2> QED
      BY <1>3, <2>2
  <1>4. CASE k \notin quiet
    <2>1. /\ at'[c] = "running" /\ until'[c] = now + MaxExec
          /\ seen' = IF k \in up THEN seen \cup {c} ELSE seen
      BY <1>4, WaitIs DEF Enter
    <2>2. k \in up => fine[k] = now
      BY DEF Prompt, AtEase
    <2>3. Timely(c)'
      <3>1. /\ until'[c] <= now' + MaxExec /\ now' <= until'[c]
            /\ c \in seen' => until'[c] <= fine'[k] + MaxExec
        BY <1>1, <1>2, <2>1, <2>2, Numbers
      <3> QED
        BY <2>1, <3>1 DEF Timely
    <2>4. ASSUME k \notin up PROVE InTurn(c)'
      <3>1. First(c) \/ Again(c)
        BY <1>2 DEF Prompt, InTurn
      <3>2. CASE First(c)
        <4>1. until[c] <= Due(k, Failures(c)) /\ Due(k, Failures(c)) \in Nat
          BY <1>2, <3>2, Limits DEF First
        <4>2. until'[c] <= Due(k, Failures(c)) + MaxExec
          BY <1>1, <1>2, <2>1, <4>1, Numbers
        <4>3. Failures(c)' = Failures(c) /\ Due(k, Failures(c))' = Due(k, Failures(c))
          BY <1>2 DEF Failures, Due
        <4>4. First(c)'
          BY <2>1, <4>2, <4>3 DEF First
        <4> QED
          BY <4>4 DEF InTurn
      <3>3. CASE Again(c)
        <4>1. until[c] <= lastAlert[k] + Held + CheckInterval /\ Held \in Nat
          BY <1>2, <3>3, Limits DEF Again
        <4>2. until'[c] <= lastAlert[k] + Held + CheckInterval + MaxExec
          BY <1>1, <1>2, <2>1, <4>1, Numbers
        <4>3. Again(c)'
          BY <1>2, <2>1, <2>4, <3>3, <4>2 DEF Again
        <4> QED
          BY <4>3 DEF InTurn
      <3> QED
        BY <3>1, <3>2, <3>3
    <2> QED
      BY <2>3, <2>4
  <1> QED
    BY <1>3, <1>4

LEMMA AnswerOKPrompt ==
  ASSUME Inv, Prompt, NEW c \in Callers, AnswerOK(c)
  PROVE  Timely(c)' /\ (KeyOf[c] \notin up \cup quiet => InTurn(c)')
  <1> DEFINE k == KeyOf[c]
  <1>1. /\ k \in Keys /\ now \in Nat /\ until[c] \in Nat /\ fails[c] \in 0..MinFail
        /\ fine[k] \in Nat /\ fine[k] <= now
    BY Typed
  <1>2. /\ at[c] = "running" /\ now <= until[c] /\ c \notin seen' /\ fails'[c] = 0
        /\ UNCHANGED <<now, fine>>
    BY DEF AnswerOK, Prompt, Timely, vars, world, Inv, GoroutinesOK
  <1>3. \/ at'[c] = "resolving" /\ until'[c] = now + 0
        \/ at'[c] = "select" /\ until'[c] = now + CheckInterval
    BY WaitIs DEF AnswerOK, Rest
  <1>4. Timely(c)'
    BY <1>1, <1>2, <1>3, Numbers DEF Timely
  <1>5. ASSUME k \notin up PROVE First(c)'
    <2>1. now <= fine[k] + MaxExec
      <3>1. c \in seen
        BY <1>5 DEF AnswerOK
      <3>2. until[c] <= fine[k] + MaxExec
        BY <3>1 DEF Prompt, Timely
      <3> QED
        BY <1>1, <1>2, <3>2, Numbers
    <2>2. Due(k, 0) = fine[k] + MaxExec + Notifiers * MaxSend + CheckInterval /\ Notifiers * MaxSend \in Nat
      BY Limits
    <2>3. Due(k, 0)' = Due(k, 0) /\ Failures(c)' = 0
      BY <1>2, Numbers DEF Due, Failures
    <2> DEFINE P == Notifiers * MaxSend
    <2>4. P \in Nat /\ Due(k, 0) = fine[k] + MaxExec + P + CheckInterval
      BY <2>2
    <2> HIDE DEF P
    <2>5. /\ at'[c] = "resolving" => until'[c] <= fine[k] + MaxExec
          /\ at'[c] = "select" => until'[c] <= Due(k, 0)
      BY <1>1, <1>3, <2>1, <2>4, Numbers
    <2> QED
      BY <1>2, <1>3, <2>3, <2>5 DEF First
  <1> QED
    BY <1>4, <1>5 DEF InTurn

LEMMA AnswerFailedPrompt ==
  ASSUME Inv, Prompt, NEW c \in Callers, AnswerFailed(c)
  PROVE  Timely(c)' /\ (KeyOf[c] \notin up \cup quiet => InTurn(c)')
  <1> DEFINE k == KeyOf[c]
  <1>1. /\ k \in Keys /\ now \in Nat /\ until[c] \in Nat /\ fails[c] \in Nat /\ fails[c] <= MinFail
        /\ fine[k] \in Nat /\ fine[k] <= now /\ lastAlert[k] \in Int
    BY Typed, Numbers
  <1>2. /\ at[c] = "running" /\ now <= until[c] /\ c \notin seen'
        /\ fails'[c] = Bump(fails[c], MinFail) /\ UNCHANGED <<now, fine, lastAlert>>
    BY DEF AnswerFailed, Prompt, Timely, vars, world, Inv, GoroutinesOK
  <1>3. \/ fails'[c] >= MinFail /\ at'[c] = "alerting" /\ until'[c] = now + 0
        \/ fails'[c] < MinFail /\ at'[c] = "select" /\ until'[c] = now + RetryInterval
    BY WaitIs DEF AnswerFailed, Rest, Pause
  <1>4. /\ fails'[c] \in Nat /\ fails'[c] <= MinFail /\ fails'[c] # 0
        /\ fails'[c] < MinFail => fails'[c] = fails[c] + 1 /\ fails[c] < MinFail
        /\ fails[c] = MinFail => fails'[c] = MinFail
    BY <1>1, <1>2, Numbers DEF Bump
  <1>5. Timely(c)'
    BY <1>1, <1>2, <1>3, <1>4, Numbers DEF Timely
  <1>6. CASE First(c)
    <2>1. until[c] <= Due(k, Failures(c)) + MaxExec
      BY <1>2, <1>6 DEF First
    <2>2. /\ Due(k, Failures(c)) \in Nat /\ Due(k, MinFail - 1) \in Nat
          /\ Due(k, Failures(c)) <= Due(k, MinFail - 1)
          /\ Due(k, Failures(c) + 1) = Due(k, Failures(c)) + MaxExec + RetryInterval
      BY Limits
    <2>3. Due(k, MinFail - 1)' = Due(k, MinFail - 1)
      BY <1>2 DEF Due
    <2>4. fails'[c] < MinFail => Due(k, Failures(c))' = Due(k, Failures(c) + 1)
      BY <1>2, <1>4 DEF Due, Failures
    <2>5. /\ at'[c] = "alerting" => until'[c] <= Due(k, MinFail - 1) + MaxExec
          /\ at'[c] = "select" => until'[c] <= Due(k, Failures(c) + 1)
      BY <1>1, <1>2, <1>3, <2>1, <2>2, Numbers
    <2> QED
      BY <1>3, <1>5, <2>3, <2>4, <2>5 DEF First, InTurn
  <1>7. CASE Again(c)
    <2>1. fails'[c] = MinFail /\ at'[c] = "alerting" /\ until'[c] = now
      BY <1>1, <1>3, <1>4, <1>7, Numbers DEF Again
    <2>2. until[c] <= lastAlert[k] + Held + CheckInterval + MaxExec /\ Held \in Nat
      BY <1>2, <1>7, Limits DEF Again
    <2>3. until'[c] <= lastAlert[k] + Held + CheckInterval + MaxExec
      BY <1>1, <1>2, <2>1, <2>2, Numbers
    <2> QED
      BY <1>2, <1>5, <1>7, <2>1, <2>3 DEF Again, InTurn
  <1> QED
    BY <1>2, <1>5, <1>6, <1>7 DEF Prompt, InTurn

LEMMA ProceedIs ==
  ASSUME Inv, NEW c \in Callers, Proceed(c)
  PROVE  \/ left'[c] > 0 /\ at'[c] = "sending" /\ until'[c] = now + MaxSend
         \/ ~(left'[c] > 0) /\ at'[c] = "select" /\ until'[c] = now + CheckInterval
  BY WaitIs DEF Proceed, Rest

\* The muted part of Resolving and of Alerting.
LEMMA MutedPrompt ==
  ASSUME Inv, NEW c \in Callers, Timely(c), at[c] \in {"resolving", "alerting"},
         Rest(c, CheckInterval), UNCHANGED <<vars, fails, seen, world>>
  PROVE  Timely(c)'
  <1>1. at'[c] = "select" /\ until'[c] = now + CheckInterval /\ now' = now
    BY WaitIs DEF Rest, vars
  <1>2. c \notin seen' /\ now \in Nat
    BY Typed DEF Timely
  <1> QED
    BY <1>1, <1>2, Numbers DEF Timely

LEMMA ResolvingPrompt ==
  ASSUME Inv, Prompt, NEW c \in Callers, Resolving(c)
  PROVE  Timely(c)' /\ (KeyOf[c] \notin up \cup quiet => InTurn(c)')
  <1> DEFINE k == KeyOf[c]
             P == Notifiers * MaxSend
  <1>1. /\ now \in Nat /\ fine[k] \in Nat /\ left[c] = 0
        /\ at[c] = "resolving" /\ until[c] = now /\ fails[c] = 0 /\ c \notin seen
        /\ UNCHANGED <<fails, fine, seen>>
    <2>1. at[c] = "resolving" /\ UNCHANGED <<fails, fine, seen>>
      BY DEF Resolving, world
    <2> QED
      BY <2>1, Typed DEF Prompt, Timely
  <1>2. CASE k \in quiet
    <2>1. Rest(c, CheckInterval) /\ UNCHANGED <<vars, fails, seen, world>>
      BY <1>2 DEF Resolving
    <2> QED
      BY <1>1, <1>2, <2>1, MutedPrompt DEF Prompt
  <1>3. CASE k \notin quiet
    <2>1. now' = now /\ left'[c] \in {0, Notifiers}
      BY <1>1, <1>3 DEF Resolving, Resolve, vars, Inv, TypeOK
    <2>2. \/ left'[c] = Notifiers /\ at'[c] = "sending" /\ until'[c] = now + MaxSend
          \/ left'[c] = 0 /\ at'[c] = "select" /\ until'[c] = now + CheckInterval
      BY <1>3, <2>1, ProceedIs, Numbers DEF Resolving
    <2>3. Timely(c)'
      BY <1>1, <2>1, <2>2, Numbers DEF Timely
    <2>4. ASSUME k \notin up PROVE First(c)'
      <3>1. now <= fine[k] + MaxExec
        <4>1. First(c)
          BY <1>1 DEF Prompt, InTurn, Again
        <4> QED
          BY <1>1, <4>1 DEF First
      <3>2. P \in Nat /\ Due(k, 0) = fine[k] + MaxExec + P + CheckInterval
        BY Limits
      <3>3. Due(k, 0)' = Due(k, 0) /\ Failures(c)' = 0
        BY <1>1, Numbers DEF Due, Failures
      <3> DEFINE rest == (Notifiers - 1) * MaxSend
      <3>4. rest \in Nat /\ MaxSend + rest <= P
        BY Sends, Numbers
      <3> HIDE DEF P, rest
      <3>5. /\ now + CheckInterval <= Due(k, 0)
            /\ now + MaxSend + rest + CheckInterval <= Due(k, 0)
        BY <1>1, <3>1, <3>2, <3>4, Numbers
      <3>6. CASE at'[c] = "sending"
        <4>1. left'[c] = Notifiers /\ until'[c] = now + MaxSend
          BY <2>2, <3>6
        <4>2. until'[c] + (left'[c] - 1) * MaxSend + CheckInterval <= Due(k, 0)
          BY <3>5, <4>1 DEF rest
        <4> QED
          BY <3>3, <3>6, <4>2 DEF First
      <3>7. CASE at'[c] = "select"
        BY <2>2, <3>3, <3>5, <3>7 DEF First
      <3> QED
        BY <2>2, <3>6, <3>7
    <2> QED
      BY <2>3, <2>4 DEF InTurn
  <1> QED
    BY <1>2, <1>3

\* An alert that comes too soon leaves the last one in time; one that is let
\* through is the last.
LEMMA AlertingPrompt ==
  ASSUME Inv, Prompt, NEW c \in Callers, Alerting(c)
  PROVE  Timely(c)' /\ (KeyOf[c] \notin up \cup quiet => InTurn(c)')
  <1> DEFINE k == KeyOf[c]
             P == Notifiers * MaxSend
  <1>1. /\ now \in Nat /\ k \in Keys /\ lastAlert[k] \in Int /\ left[c] = 0
        /\ at[c] = "alerting" /\ until[c] = now /\ fails[c] = MinFail /\ c \notin seen
        /\ UNCHANGED <<fails, fine, seen>>
    <2>1. at[c] = "alerting" /\ UNCHANGED <<fails, fine, seen>>
      BY DEF Alerting, world
    <2> QED
      BY <2>1, Typed DEF Prompt, Timely
  <1>2. CASE k \in quiet
    <2>1. Rest(c, CheckInterval) /\ UNCHANGED <<vars, fails, seen, world>>
      BY <1>2 DEF Alerting
    <2> QED
      BY <1>1, <1>2, <2>1, MutedPrompt DEF Prompt
  <1>3. CASE k \notin quiet
    <2>1. now' = now /\ Alert(c) /\ Proceed(c)
      BY <1>3 DEF Alerting, Alert
    <2>2. P \in Nat /\ Held \in Nat /\ RepeatInterval - 1 <= Held
      BY Limits
    <2>3. CASE TooSoon(k)
      <3>1. lastAlert'[k] = lastAlert[k] /\ left'[c] = 0
        BY <1>1, <2>1, <2>3 DEF Alert
      <3>2. at'[c] = "select" /\ until'[c] = now + CheckInterval
        BY <2>1, <3>1, ProceedIs
      <3>3. now - lastAlert[k] < RepeatInterval /\ lastAlert[k] # Never
        BY <1>1, <2>3, Numbers DEF TooSoon, Never
      <3>4. until'[c] <= lastAlert[k] + Held + CheckInterval
        BY <1>1, <2>2, <3>2, <3>3, Numbers
      <3>5. Timely(c)'
        BY <1>1, <2>1, <3>2, Numbers DEF Timely
      <3>6. Again(c)'
        BY <1>1, <3>1, <3>2, <3>3, <3>4 DEF Again
      <3> QED
        BY <3>5, <3>6 DEF InTurn
    <2>4. CASE ~TooSoon(k)
      <3>1. lastAlert'[k] = now /\ left'[c] = Notifiers
        BY <1>1, <2>1, <2>4 DEF Alert, Inv, TypeOK
      <3>2. at'[c] = "sending" /\ until'[c] = now + MaxSend
        BY <2>1, <3>1, ProceedIs, Numbers
      <3>3. Timely(c)'
        BY <1>1, <2>1, <3>2, Numbers DEF Timely
      <3> DEFINE rest == (Notifiers - 1) * MaxSend
      <3>4. rest \in Nat /\ MaxSend + rest <= P
        BY Sends, Numbers
      <3> HIDE DEF P, rest
      <3>5. until'[c] + rest <= now + P
        BY <1>1, <2>2, <3>2, <3>4, Numbers
      <3>6. now # Never
        BY <1>1, Numbers DEF Never
      <3>7. Again(c)'
        BY <1>1, <3>1, <3>2, <3>5, <3>6 DEF Again, P, rest
      <3> QED
        BY <3>3, <3>7 DEF InTurn
    <2> QED
      BY <2>3, <2>4
  <1> QED
    BY <1>2, <1>3

\* Sending takes no longer than was allowed for when it began.
LEMMA SendingPrompt ==
  ASSUME Inv, Prompt, NEW c \in Callers, Sending(c)
  PROVE  Timely(c)' /\ (KeyOf[c] \notin up \cup quiet => InTurn(c)')
  <1> DEFINE k == KeyOf[c]
             P == Notifiers * MaxSend
             rest == (left[c] - 1) * MaxSend
             more == (left'[c] - 1) * MaxSend
  <1>1. /\ now \in Nat /\ until[c] \in Nat /\ lastAlert[k] \in Int /\ fine[k] \in Nat
        /\ left[c] \in 1..Notifiers
    BY Typed, Numbers DEF Sending
  <1>2. /\ at[c] = "sending" /\ now <= until[c] /\ fails[c] \in {0, MinFail} /\ c \notin seen
        /\ left'[c] = left[c] - 1 /\ UNCHANGED <<now, lastAlert, fails, fine, seen>>
    BY DEF Sending, Send, Prompt, Timely, world, Inv, TypeOK
  <1>3. /\ rest \in Nat /\ P \in Nat /\ Held \in Nat /\ P <= Held
        /\ left'[c] > 0 => MaxSend + more = rest /\ more \in Nat
        /\ left'[c] = 0 => rest = 0
    <2>1. rest \in Nat /\ P \in Nat /\ Held \in Nat /\ P <= Held
      BY <1>1, Limits, Sends
    <2>2. left'[c] > 0 => left[c] > 1 /\ left[c] - 1 \in 1..Notifiers
      BY <1>1, <1>2, Numbers
    <2>3. left'[c] > 0 => MaxSend + more = rest /\ more \in Nat
      BY <1>1, <1>2, <2>2, Sends
    <2>4. left'[c] = 0 => rest = 0
      BY <1>1, <1>2, Products, Numbers
    <2> QED
      BY <2>1, <2>3, <2>4
  <1> HIDE DEF P, rest, more
  <1>4. \/ left'[c] > 0 /\ at'[c] = "sending" /\ until'[c] = now + MaxSend
        \/ left'[c] = 0 /\ at'[c] = "select" /\ until'[c] = now + CheckInterval
    BY <1>1, <1>2, ProceedIs, Numbers DEF Sending
  <1>5. Timely(c)'
    BY <1>1, <1>2, <1>4, Numbers DEF Timely
  <1>6. CASE First(c)
    <2>1. until[c] + rest + CheckInterval <= Due(k, 0) /\ Due(k, 0) \in Nat
      BY <1>2, <1>6, Limits DEF First, rest
    <2>2. Due(k, 0)' = Due(k, 0) /\ Failures(c)' = 0
      BY <1>1, <1>2, Numbers DEF Due, Failures
    <2>3. /\ left'[c] > 0 => until'[c] + more + CheckInterval <= Due(k, 0)
          /\ left'[c] = 0 => until'[c] <= Due(k, 0)
      BY <1>1, <1>2, <1>3, <1>4, <2>1, Numbers
    <2>4. First(c)'
      BY <1>4, <2>2, <2>3 DEF First, more
    <2> QED
      BY <1>5, <2>4 DEF InTurn
  <1>7. CASE Again(c)
    <2>1. lastAlert[k] # Never /\ fails[c] = MinFail /\ until[c] + rest <= lastAlert[k] + P
      BY <1>2, <1>7 DEF Again, P, rest
    <2>2. /\ left'[c] > 0 => until'[c] + more <= lastAlert[k] + P
          /\ left'[c] = 0 => until'[c] <= lastAlert[k] + Held + CheckInterval
      BY <1>1, <1>2, <1>3, <1>4, <2>1, Numbers
    <2>3. Again(c)'
      BY <1>2, <1>4, <2>1, <2>2 DEF Again, P, more
    <2> QED
      BY <1>5, <2>3 DEF InTurn
  <1> QED
    BY <1>2, <1>5, <1>6, <1>7 DEF Prompt, InTurn

\* A goroutine's step leaves the others where they are.
LEMMA Others ==
  ASSUME Inv, LastSaid, NEW c \in Callers, Goroutine(c), NEW d \in Callers, d # c
  PROVE  /\ at'[d] = at[d] /\ until'[d] = until[d] /\ fails'[d] = fails[d] /\ left'[d] = left[d]
         /\ d \in seen' <=> d \in seen
         /\ \/ lastAlert'[KeyOf[d]] = lastAlert[KeyOf[d]]
            \/ lastAlert'[KeyOf[d]] = now /\ lastAlert[KeyOf[d]] <= now
  <1> USE DEF Inv, TypeOK, GoroutinesOK
  <1>1. \A k \in Keys : lastAlert[k] <= now
    BY DEF LastSaid
  <1>2. ASSUME NEW place, NEW time, Wait(c, place, time)
        PROVE  at'[d] = at[d] /\ until'[d] = until[d]
    BY <1>2 DEF Wait
  <1>3. CASE WakeTimer(c) \/ WakeTrigger(c)
    BY <1>2, <1>3 DEF WakeTimer, WakeTrigger, Enter, Rest, vars
  <1>4. CASE AnswerOK(c)
    BY <1>2, <1>4 DEF AnswerOK, Rest, vars
  <1>5. CASE AnswerFailed(c)
    BY <1>2, <1>5 DEF AnswerFailed, Rest, vars
  <1>6. CASE Resolving(c)
    <2>1. at'[d] = at[d] /\ until'[d] = until[d]
      BY <1>2, <1>6 DEF Resolving, Rest, Proceed
    <2> QED
      BY <1>6, <2>1 DEF Resolving, Resolve, vars
  <1>7. CASE Alerting(c)
    <2>1. at'[d] = at[d] /\ until'[d] = until[d]
      BY <1>2, <1>7 DEF Alerting, Rest, Proceed
    <2>2. left'[d] = left[d]
      BY <1>7 DEF Alerting, Alert, vars
    <2>3. \/ lastAlert'[KeyOf[d]] = lastAlert[KeyOf[d]]
          \/ lastAlert'[KeyOf[d]] = now
      BY <1>7, KeyOfAssumption DEF Alerting, Alert, vars
    <2> QED
      BY <1>1, <1>7, <2>1, <2>2, <2>3, KeyOfAssumption DEF Alerting
  <1>8. CASE Sending(c)
    <2>1. at'[d] = at[d] /\ until'[d] = until[d]
      BY <1>2, <1>8 DEF Sending, Rest, Proceed
    <2> QED
      BY <1>8, <2>1 DEF Sending, Send
  <1> QED
    BY <1>3, <1>4, <1>5, <1>6, <1>7, <1>8 DEF Goroutine

\* The same a step later.
LEMMA EaseLater ==
  Inv' => \A c \in Callers : Timely(c)' /\ fine'[KeyOf[c]] = now' => First(c)'
  <1>1. (Inv => \A c \in Callers : Timely(c) /\ fine[KeyOf[c]] = now => First(c))'
    BY EaseFirst, PTL
  <1> QED
    BY <1>1

\* A goroutine of a key that is fine now, or has become so, is in turn.
LEMMA Eased ==
  ASSUME Inv', NEW c \in Callers, Timely(c)', fine'[KeyOf[c]] = now'
  PROVE  InTurn(c)'
  BY EaseLater DEF InTurn

LEMMA GoroutinePrompt ==
  ASSUME Inv, Inv', LastSaid, Prompt, NEW c \in Callers, Goroutine(c)
  PROVE  AtEase' /\ \A d \in Callers : Timely(d)' /\ InTurn(d)'
  <1>1. now' = now /\ UNCHANGED world
    BY DEF Goroutine, WakeTimer, WakeTrigger, Enter, AnswerOK, AnswerFailed,
           Resolving, Resolve, Alerting, Alert, Sending, Send, vars
  <1>2. AtEase'
    BY <1>1 DEF Prompt, AtEase, world
  <1>3. Timely(c)' /\ (KeyOf[c] \notin up \cup quiet => InTurn(c)')
    BY EnterPrompt, AnswerOKPrompt, AnswerFailedPrompt, ResolvingPrompt, AlertingPrompt,
       SendingPrompt DEF Goroutine, WakeTimer, WakeTrigger
  <1>4. InTurn(c)'
    <2>1. KeyOf[c] \in up \cup quiet => fine'[KeyOf[c]] = now'
      BY <1>1 DEF Prompt, AtEase, world
    <2> QED
      BY <1>3, <2>1, Eased
  <1>5. ASSUME NEW d \in Callers, d # c PROVE Timely(d)' /\ InTurn(d)'
    <2>1. Timely(d) /\ InTurn(d)
      BY DEF Prompt
    <2>2. fine'[KeyOf[d]] = fine[KeyOf[d]]
      BY <1>1 DEF world
    <2> QED
      BY <1>1, <1>5, <2>1, <2>2, Others, Untouched
  <1> QED
    BY <1>2, <1>3, <1>4, <1>5

\* Time passes: nothing that is under way is past its end.
LEMMA PassPrompt ==
  ASSUME Inv, Inv', Prompt, Pass
  PROVE  AtEase' /\ \A d \in Callers : Timely(d)' /\ InTurn(d)'
  <1>1. /\ now \in Nat /\ now' = now + 1
        /\ UNCHANGED <<lastAlert, left, at, until, fails, seen, up, quiet>>
        /\ fine' = [k \in Keys |-> IF k \in up \cup quiet THEN now' ELSE fine[k]]
    BY NumberAssumption DEF Pass, Tick, goroutine, Inv, TypeOK
  <1>2. AtEase'
    BY <1>1 DEF AtEase, Inv, WorldOK
  <1>3. ASSUME NEW d \in Callers PROVE Timely(d)' /\ InTurn(d)'
    <2> DEFINE k == KeyOf[d]
    <2>1. /\ k \in Keys /\ fine[k] \in Nat /\ fine[k] <= now /\ until[d] \in Nat
          /\ Timely(d) /\ InTurn(d) /\ (at[d] = "absent" \/ now < until[d])
      BY Typed DEF Prompt, Pass
    <2>2. fine'[k] = IF k \in up \cup quiet THEN now' ELSE fine[k]
      BY <1>1, <2>1
    <2>3. Timely(d)'
      BY <1>1, <2>1, <2>2, Numbers DEF Timely
    <2>4. CASE k \in up \cup quiet
      BY <2>2, <2>3, <2>4, Eased
    <2>5. CASE k \notin up \cup quiet
      <3>1. First(d) => First(d)'
        BY <1>1, <2>2, <2>5 DEF First, Due, Failures
      <3>2. Again(d) => Again(d)'
        BY <1>1 DEF Again
      <3> QED
        BY <1>1, <2>1, <2>3, <3>1, <3>2 DEF InTurn
    <2> QED
      BY <2>4, <2>5
  <1> QED
    BY <1>2, <1>3

\* An outage or a downtime begins or ends.
LEMMA ChangePrompt ==
  ASSUME Inv, Inv', Prompt, NEW k \in Keys,
         Break(k) \/ Mend(k) \/ Silence(k) \/ Unsilence(k)
  PROVE  AtEase' /\ \A d \in Callers : Timely(d)' /\ InTurn(d)'
  <1>1. /\ now' = now /\ now \in Nat
        /\ UNCHANGED <<lastAlert, left, at, until, fails, seen>>
        /\ fine' = [fine EXCEPT ![k] = IF k \in up \cup quiet \cup up' \cup quiet' THEN now ELSE @]
        /\ \A q \in Keys \ {k} : q \in up' \cup quiet' => q \in up \cup quiet
    BY NumberAssumption
    DEF Break, Mend, Silence, Unsilence, Change, vars, goroutine, Inv, TypeOK
  <1>2. /\ \A i \in Keys \ {k} : fine'[i] = fine[i]
        /\ fine'[k] = IF k \in up \cup quiet \cup up' \cup quiet' THEN now ELSE fine[k]
    BY <1>1 DEF Inv, WorldOK
  <1>3. AtEase'
    BY <1>1, <1>2 DEF Prompt, AtEase, Inv, WorldOK
  <1>4. ASSUME NEW d \in Callers PROVE Timely(d)' /\ InTurn(d)'
    <2> DEFINE q == KeyOf[d]
    <2>1. /\ q \in Keys /\ fine[q] \in Nat /\ fine[q] <= now /\ until[d] \in Nat
          /\ Timely(d) /\ InTurn(d)
      BY Typed DEF Prompt
    <2>2. fine'[q] = fine[q] \/ fine'[q] = now
      <3> HIDE DEF q
      <3> QED
        BY <1>2, <2>1
    <2>3. CASE fine'[q] = now
      <3>1. Timely(d)'
        BY <1>1, <2>1, <2>3, Numbers DEF Timely
      <3> QED
        BY <1>1, <2>3, <3>1, Eased
    <2>4. CASE fine'[q] = fine[q]
      BY <1>1, <2>1, <2>4, Untouched
    <2> QED
      BY <2>2, <2>3, <2>4
  <1> QED
    BY <1>3, <1>4

LEMMA PromptInit == MonitorInit /\ Inv => Prompt
  <1> SUFFICES ASSUME MonitorInit, Inv PROVE Prompt
    OBVIOUS
  <1>1. AtEase /\ Heard
    BY DEF MonitorInit, Init, AtEase, Heard
  <1>2. ASSUME NEW c \in Callers PROVE Timely(c) /\ InTurn(c)
    <2>1. /\ at[c] \in {"select", "absent"} /\ until[c] = 0 /\ fails[c] = 0 /\ c \notin seen
          /\ now = 0 /\ fine[KeyOf[c]] = now
      BY KeyOfAssumption DEF MonitorInit, Init
    <2>2. Timely(c)
      BY <2>1, Numbers DEF Timely
    <2> QED
      BY <2>1, <2>2, EaseFirst DEF InTurn
  <1> QED
    BY <1>1, <1>2 DEF Prompt

LEMMA PromptStep == IInv /\ Inv /\ Inv' /\ Prompt /\ [MonitorNext]_mvars => Prompt'
  <1> SUFFICES ASSUME IInv, Inv, Inv', Prompt, [MonitorNext]_mvars PROVE Prompt'
    OBVIOUS
  <1>1. Heard'
    BY StepMaps, HeardKeeps DEF Inv, Prompt
  <1>2. AtEase' /\ \A d \in Callers : Timely(d)' /\ InTurn(d)'
    <2>1. CASE UNCHANGED mvars
      <3>1. AtEase'
        BY <2>1 DEF Prompt, AtEase, mvars, vars, world
      <3>2. ASSUME NEW d \in Callers PROVE Timely(d)' /\ InTurn(d)'
        <4>1. Timely(d) /\ InTurn(d)
          BY DEF Prompt
        <4> QED
          BY <2>1, <4>1, Untouched DEF mvars, vars, goroutine, world
      <3> QED
        BY <3>1, <3>2
    <2>2. ASSUME NEW c \in Callers, Goroutine(c)
          PROVE  AtEase' /\ \A d \in Callers : Timely(d)' /\ InTurn(d)'
      BY <2>2, GoroutinePrompt DEF IInv
    <2>3. ASSUME NEW k \in Keys, Break(k) \/ Mend(k) \/ Silence(k) \/ Unsilence(k)
          PROVE  AtEase' /\ \A d \in Callers : Timely(d)' /\ InTurn(d)'
      BY <2>3, ChangePrompt
    <2>4. CASE Pass
      BY <2>4, PassPrompt
    <2> QED
      BY <2>1, <2>2, <2>3, <2>4 DEF MonitorNext
  <1> QED
    BY <1>1, <1>2 DEF Prompt

\* Once it is too late for a first alert, there is a last one, and the next is near.
LEMMA PromptTells == Inv /\ Prompt => OutageTold
  <1> SUFFICES ASSUME Inv, Prompt, NEW c \in Callers, at[c] # "absent",
                      now - fine[KeyOf[c]] > ToldWithin
               PROVE  LET k == KeyOf[c] IN
                      said[k] # <<>> /\ now - said[k][Len(said[k])] <= RemindedWithin
    BY DEF OutageTold
  <1> DEFINE k == KeyOf[c]
             P == Notifiers * MaxSend
             rest == (left[c] - 1) * MaxSend
             told == fine[k] + ToldWithin
             last == lastAlert[k]
  <1>1. /\ k \in Keys /\ now \in Nat /\ until[c] \in Nat /\ last \in Int
        /\ at[c] \in Places \ {"absent"} /\ now <= until[c] /\ now > told
        /\ at[c] = "sending" => left[c] \in 1..Notifiers
    <2>1. now <= until[c]
      BY DEF Prompt, Timely
    <2>2. ToldWithin \in Int
      <3>1. \A m, n \in Int : m * n \in Int
        OBVIOUS
      <3>2. /\ Notifiers * MaxSend \in Int /\ MinFail * MaxExec \in Int
            /\ (MinFail - 1) * RetryInterval \in Int
        BY <3>1, Numbers
      <3> QED
        BY <3>2, Numbers DEF ToldWithin
    <2>3. now > told
      BY <2>2, Typed
    <2> QED
      BY <2>1, <2>3, Typed, Numbers
  <1>2. /\ P \in Nat /\ Held \in Nat /\ P <= Held /\ Due(k, Failures(c)) \in Nat
        /\ Due(k, 0) \in Nat /\ Due(k, MinFail - 1) \in Nat
        /\ Due(k, Failures(c)) <= Due(k, MinFail - 1) /\ Due(k, 0) <= Due(k, Failures(c))
        /\ fine[k] + MaxExec <= Due(k, 0) /\ Due(k, MinFail - 1) + MaxExec = told
    BY Limits, Typed, Numbers
  <1>3. at[c] = "sending" => rest \in Nat
    BY <1>1, Sends
  <1>4. RemindedWithin = Held + CheckInterval + MaxExec
    BY DEF RemindedWithin, Held
  <1> HIDE DEF P, rest, told
  <1>5. ~First(c)
    <2> SUFFICES ASSUME First(c) PROVE FALSE
      OBVIOUS
    <2>1. /\ at[c] = "select" => until[c] <= Due(k, Failures(c))
          /\ at[c] = "running" => until[c] <= Due(k, Failures(c)) + MaxExec
          /\ at[c] = "alerting" => until[c] <= Due(k, MinFail - 1) + MaxExec
          /\ at[c] = "resolving" => until[c] <= fine[k] + MaxExec
          /\ at[c] = "sending" => until[c] + rest + CheckInterval <= Due(k, 0)
      BY DEF First, rest
    <2> QED
      BY <1>1, <1>2, <1>3, <2>1, Typed, Numbers DEF Places
  <1>6. Again(c)
    BY <1>5 DEF Prompt, InTurn
  <1>7. last # Never /\ until[c] <= last + Held + CheckInterval + MaxExec
    <2>1. /\ last # Never /\ at[c] \in {"select", "running", "alerting", "sending"}
          /\ at[c] = "select" => until[c] <= last + Held + CheckInterval
          /\ at[c] \in {"running", "alerting"} =>
               until[c] <= last + Held + CheckInterval + MaxExec
          /\ at[c] = "sending" => until[c] + rest <= last + P
      BY <1>6 DEF Again, P, rest
    <2> QED
      BY <1>1, <1>2, <1>3, <2>1, Numbers
  <1>8. said[k] # <<>> /\ last = said[k][Len(said[k])]
    BY <1>1, <1>7 DEF Prompt, Heard
  <1>9. now - last <= RemindedWithin
    BY <1>1, <1>2, <1>4, <1>7, Numbers
  <1> QED
    BY <1>8, <1>9

\* An outage outside of downtimes is told in time and again and again in time
\* (scheduler.go 77-143 with alerts/manager.go 37-87), for all intervals,
\* thresholds and numbers of notifiers, and any goroutines that share a key.
THEOREM OutageToldInTime == MonitorSpec => []OutageTold
  <1>1. MonitorSpec => []IInv
    BY UsesManager, Invariance, PTL
  <1> QED
    BY <1>1, InvAlways, PromptInit, PromptStep, PromptTells, PTL DEF MonitorSpec
=============================================================================
