-------------------------- MODULE SchedulerProofs --------------------------
(* Invariants of Scheduler for every value of its constants. *)
EXTENDS Scheduler, TLAPS

\* What the goroutine's place says of its own variables.
Control ==
  \A a \in Assignments :
    /\ pc[a] = "update" => verdict[a] # None
    /\ verdict[a] # None => /\ verdict[a] = "OK" <=> succs[a] > 0
                            /\ verdict[a] # "UNKNOWN"
                            /\ succs[a] > 0 \/ fails[a] > 0
    /\ pc[a] \in {"alert", "resolveGate", "resolve", "resolveSend"} => alertActive[a]
    /\ pc[a] \in {"alertGate", "alert", "alertSend"} => fails[a] >= MinFail[a]
    /\ pc[a] \in {"resolveGate", "resolve", "resolveSend"} => succs[a] >= MinSuccess[a]
    /\ pc[a] = "unborn" => ~alertActive[a]

\* Without duplicates a recovery being announced is closed already.
Closed ==
  NoDuplicates =>
    \A a \in Assignments : pc[a] = "resolveSend" => SlotOf[a] \notin active

\* Only a shutdown ends a goroutine.
Ended == \A a \in Assignments : pc[a] \in {"exiting", "done"} => cancelled

\* exposed records the present moment of every run in progress.
ExposedNow ==
  \A a \in Assignments : pc[a] \in Busy /\ SlotOf[a] \notin down => a \in exposed

IInv ==
  /\ TypeOK /\ Control /\ NoOrphanIncident /\ IncidentsAgree /\ Closed
  /\ BoardAgrees /\ RegistryAlive /\ Ended /\ ExposedNow /\ Shielded

USE DEF Places, Busy, Statuses, Notifying, Live, InDowntime, Shown, Confirmed, Recovered

LEMMA TypeInit == Init => TypeOK
  <1> SUFFICES ASSUME Init PROVE TypeOK
    OBVIOUS
  <1>1. 0 \in 0..CountCap
    BY CapAssumption
  <1>2. board \in [Slots -> [status : Statuses, fails : 0..CountCap]]
    BY <1>1 DEF Init
  <1> QED
    BY <1>1, <1>2 DEF Init, TypeOK

LEMMA TypeStep ==
  ASSUME TypeOK, Control, [Next]_vars
  PROVE  TypeOK'
  <1> USE SlotsAssumption, CapAssumption, OutcomesAssumption DEF TypeOK, Control, locals, registry, alerts, world
  <1>1. ASSUME NEW a \in Assignments, Launch(a) PROVE TypeOK'
    BY <1>1 DEF Launch
  <1>2. ASSUME NEW a \in Assignments, WakeTimer(a) \/ WakeTrigger(a)
        PROVE TypeOK'
    BY <1>2 DEF WakeTimer, WakeTrigger, Enter
  <1>3. ASSUME NEW a \in Assignments, Gate(a) PROVE TypeOK'
    BY <1>3 DEF Gate, Rest
  <1>4. ASSUME NEW a \in Assignments, NEW o \in Outcomes, Finish(a, o)
        PROVE TypeOK'
    BY <1>4 DEF Finish, Bump, StatusForState
  <1>5. ASSUME NEW a \in Assignments, Update(a) PROVE TypeOK'
    <2>1. [status |-> verdict[a], fails |-> fails[a]] \in [status : Statuses, fails : 0..CountCap]
      BY <1>5 DEF Update
    <2>2. board' \in [Slots -> [status : Statuses, fails : 0..CountCap]]
      BY <1>5, <2>1 DEF Update
    <2> QED
      BY <1>5, <2>2 DEF Update, Rest
  <1>6. ASSUME NEW a \in Assignments, ResolveGate(a) PROVE TypeOK'
    BY <1>6 DEF ResolveGate, Rest
  <1>7. ASSUME NEW a \in Assignments, Resolve(a) PROVE TypeOK'
    BY <1>7 DEF Resolve, Rest
  <1>8. ASSUME NEW a \in Assignments, ResolveSend(a) PROVE TypeOK'
    BY <1>8 DEF ResolveSend, Rest
  <1>9. ASSUME NEW a \in Assignments, AlertGate(a) PROVE TypeOK'
    BY <1>9 DEF AlertGate, Rest
  <1>10. ASSUME NEW a \in Assignments, Alert(a) PROVE TypeOK'
    BY <1>10 DEF Alert, Rest
  <1>11. ASSUME NEW a \in Assignments, AlertSend(a) PROVE TypeOK'
    BY <1>11 DEF AlertSend, Rest
  <1>12. ASSUME NEW a \in Assignments, Stop(a) \/ Unregister(a) PROVE TypeOK'
    BY <1>12 DEF Stop, Unregister
  <1>13. CASE Surroundings
    BY <1>13 DEF Surroundings, TriggerLookup, TriggerSend, Elapse, ChangeDowntimes,
                Cancel, Return
  <1>14. CASE UNCHANGED vars
    BY <1>14 DEF vars
  <1> QED
    BY <1>1, <1>2, <1>3, <1>4, <1>5, <1>6, <1>7, <1>8,
       <1>9, <1>10, <1>11, <1>12, <1>13, <1>14
       DEF Next, Goroutine, Step

LEMMA ControlStep ==
  ASSUME TypeOK, Control, [Next]_vars
  PROVE  Control'
  <1> USE OutcomesAssumption, ThresholdsAssumption, NoneAssumption DEF TypeOK, Control, locals, registry, alerts, world
  <1>1. ASSUME NEW a \in Assignments, Launch(a) PROVE Control'
    BY <1>1 DEF Launch
  <1>2. ASSUME NEW a \in Assignments, WakeTimer(a) \/ WakeTrigger(a)
        PROVE Control'
    BY <1>2 DEF WakeTimer, WakeTrigger, Enter
  <1>3. ASSUME NEW a \in Assignments, Gate(a) PROVE Control'
    BY <1>3 DEF Gate, Rest
  <1>4. ASSUME NEW a \in Assignments, NEW o \in Outcomes, Finish(a, o)
        PROVE Control'
    <2>1. CountCap \in Nat \ {0}
      BY <1>4, CapAssumption, ThresholdsAssumption
    <2>2. /\ verdict'[a] # None
          /\ verdict'[a] = "OK" <=> succs'[a] > 0
          /\ verdict'[a] # "UNKNOWN"
          /\ succs'[a] > 0 \/ fails'[a] > 0
      BY <1>4, <2>1 DEF Finish, Bump, StatusForState
    <2> QED
      BY <1>4, <2>2 DEF Finish
  <1>5. ASSUME NEW a \in Assignments, Update(a) PROVE Control'
    BY <1>5 DEF Update, Rest
  <1>6. ASSUME NEW a \in Assignments, ResolveGate(a) PROVE Control'
    BY <1>6 DEF ResolveGate, Rest
  <1>7. ASSUME NEW a \in Assignments, Resolve(a) PROVE Control'
    BY <1>7 DEF Resolve, Rest
  <1>8. ASSUME NEW a \in Assignments, ResolveSend(a) PROVE Control'
    BY <1>8 DEF ResolveSend, Rest
  <1>9. ASSUME NEW a \in Assignments, AlertGate(a) PROVE Control'
    BY <1>9 DEF AlertGate, Rest
  <1>10. ASSUME NEW a \in Assignments, Alert(a) PROVE Control'
    BY <1>10 DEF Alert, Rest
  <1>11. ASSUME NEW a \in Assignments, AlertSend(a) PROVE Control'
    BY <1>11 DEF AlertSend, Rest
  <1>12. ASSUME NEW a \in Assignments, Stop(a) \/ Unregister(a) PROVE Control'
    BY <1>12 DEF Stop, Unregister
  <1>13. CASE Surroundings
    BY <1>13 DEF Surroundings, TriggerLookup, TriggerSend, Elapse, ChangeDowntimes,
                Cancel, Return
  <1>14. CASE UNCHANGED vars
    BY <1>14 DEF vars
  <1> QED
    BY <1>1, <1>2, <1>3, <1>4, <1>5, <1>6, <1>7, <1>8,
       <1>9, <1>10, <1>11, <1>12, <1>13, <1>14
       DEF Next, Goroutine, Step

LEMMA OrphanStep ==
  ASSUME TypeOK, Control, NoOrphanIncident, [Next]_vars
  PROVE  NoOrphanIncident'
  <1> USE SlotsAssumption DEF TypeOK, Control, NoOrphanIncident, locals, registry, alerts, world
  <1>1. ASSUME NEW a \in Assignments, Launch(a) PROVE NoOrphanIncident'
    BY <1>1 DEF Launch
  <1>2. ASSUME NEW a \in Assignments, WakeTimer(a) \/ WakeTrigger(a)
        PROVE NoOrphanIncident'
    BY <1>2 DEF WakeTimer, WakeTrigger, Enter
  <1>3. ASSUME NEW a \in Assignments, Gate(a) PROVE NoOrphanIncident'
    BY <1>3 DEF Gate, Rest
  <1>4. ASSUME NEW a \in Assignments, NEW o \in Outcomes, Finish(a, o)
        PROVE NoOrphanIncident'
    BY <1>4 DEF Finish, Bump, StatusForState
  <1>5. ASSUME NEW a \in Assignments, Update(a) PROVE NoOrphanIncident'
    BY <1>5 DEF Update, Rest
  <1>6. ASSUME NEW a \in Assignments, ResolveGate(a) PROVE NoOrphanIncident'
    BY <1>6 DEF ResolveGate, Rest
  <1>7. ASSUME NEW a \in Assignments, Resolve(a) PROVE NoOrphanIncident'
    BY <1>7 DEF Resolve, Rest
  <1>8. ASSUME NEW a \in Assignments, ResolveSend(a) PROVE NoOrphanIncident'
    BY <1>8 DEF ResolveSend, Rest
  <1>9. ASSUME NEW a \in Assignments, AlertGate(a) PROVE NoOrphanIncident'
    BY <1>9 DEF AlertGate, Rest
  <1>10. ASSUME NEW a \in Assignments, Alert(a) PROVE NoOrphanIncident'
    BY <1>10 DEF Alert, Rest
  <1>11. ASSUME NEW a \in Assignments, AlertSend(a) PROVE NoOrphanIncident'
    BY <1>11 DEF AlertSend, Rest
  <1>12. ASSUME NEW a \in Assignments, Stop(a) \/ Unregister(a)
        PROVE NoOrphanIncident'
    BY <1>12 DEF Stop, Unregister
  <1>13. CASE Surroundings
    BY <1>13 DEF Surroundings, TriggerLookup, TriggerSend, Elapse, ChangeDowntimes,
                Cancel, Return
  <1>14. CASE UNCHANGED vars
    BY <1>14 DEF vars
  <1> QED
    BY <1>1, <1>2, <1>3, <1>4, <1>5, <1>6, <1>7, <1>8,
       <1>9, <1>10, <1>11, <1>12, <1>13, <1>14
       DEF Next, Goroutine, Step

LEMMA AgreeStep ==
  ASSUME TypeOK, Control, IncidentsAgree, Closed, [Next]_vars
  PROVE  (IncidentsAgree /\ Closed)'
  <1> USE SlotsAssumption DEF TypeOK, Control, IncidentsAgree, Closed, NoDuplicates, locals, registry, alerts, world
  <1>1. ASSUME NEW a \in Assignments, Launch(a)
        PROVE (IncidentsAgree /\ Closed)'
    BY <1>1 DEF Launch
  <1>2. ASSUME NEW a \in Assignments, WakeTimer(a) \/ WakeTrigger(a)
        PROVE (IncidentsAgree /\ Closed)'
    BY <1>2 DEF WakeTimer, WakeTrigger, Enter
  <1>3. ASSUME NEW a \in Assignments, Gate(a) PROVE (IncidentsAgree /\ Closed)'
    BY <1>3 DEF Gate, Rest
  <1>4. ASSUME NEW a \in Assignments, NEW o \in Outcomes, Finish(a, o)
        PROVE (IncidentsAgree /\ Closed)'
    BY <1>4 DEF Finish, Bump, StatusForState
  <1>5. ASSUME NEW a \in Assignments, Update(a)
        PROVE (IncidentsAgree /\ Closed)'
    BY <1>5 DEF Update, Rest
  <1>6. ASSUME NEW a \in Assignments, ResolveGate(a)
        PROVE (IncidentsAgree /\ Closed)'
    BY <1>6 DEF ResolveGate, Rest
  <1>7. ASSUME NEW a \in Assignments, Resolve(a)
        PROVE (IncidentsAgree /\ Closed)'
    BY <1>7 DEF Resolve, Rest
  <1>8. ASSUME NEW a \in Assignments, ResolveSend(a)
        PROVE (IncidentsAgree /\ Closed)'
    BY <1>8 DEF ResolveSend, Rest
  <1>9. ASSUME NEW a \in Assignments, AlertGate(a)
        PROVE (IncidentsAgree /\ Closed)'
    BY <1>9 DEF AlertGate, Rest
  <1>10. ASSUME NEW a \in Assignments, Alert(a)
        PROVE (IncidentsAgree /\ Closed)'
    BY <1>10 DEF Alert, Rest
  <1>11. ASSUME NEW a \in Assignments, AlertSend(a)
        PROVE (IncidentsAgree /\ Closed)'
    BY <1>11 DEF AlertSend, Rest
  <1>12. ASSUME NEW a \in Assignments, Stop(a) \/ Unregister(a)
        PROVE (IncidentsAgree /\ Closed)'
    BY <1>12 DEF Stop, Unregister
  <1>13. CASE Surroundings
    BY <1>13 DEF Surroundings, TriggerLookup, TriggerSend, Elapse, ChangeDowntimes,
                Cancel, Return
  <1>14. CASE UNCHANGED vars
    BY <1>14 DEF vars
  <1> QED
    BY <1>1, <1>2, <1>3, <1>4, <1>5, <1>6, <1>7, <1>8,
       <1>9, <1>10, <1>11, <1>12, <1>13, <1>14
       DEF Next, Goroutine, Step

\* A goroutine whose row is on the board stays it while neither the row nor its
\* own variables change; a verdict that is given up contradicts nothing.
LEMMA RowStays ==
  ASSUME BoardAgrees, SlotsAssumption,
         board' = board, fails' = fails, succs' = succs,
         \A a \in Assignments : verdict'[a] \in {verdict[a], None},
         \A a \in Assignments : pc[a] = "update" => pc'[a] = "update"
  PROVE  BoardAgrees'
  <1> SUFFICES ASSUME NEW b \in Assignments
               PROVE  \E a \in Assignments :
                        SlotOf[a] = SlotOf[b] /\ (pc'[a] = "update" \/ RowOf(SlotOf[a], a)')
    BY DEF BoardAgrees
  <1>1. PICK a \in Assignments : SlotOf[a] = SlotOf[b] /\ (pc[a] = "update" \/ RowOf(SlotOf[a], a))
    BY DEF BoardAgrees
  <1>2. RowOf(SlotOf[a], a) => RowOf(SlotOf[a], a)'
    BY DEF RowOf
  <1> QED
    BY <1>1, <1>2

LEMMA BoardStep ==
  ASSUME TypeOK, Control, BoardAgrees, [Next]_vars
  PROVE  BoardAgrees'
  <1> USE SlotsAssumption DEF TypeOK, locals, registry, alerts, world
  <1>1. ASSUME NEW a \in Assignments, Launch(a) PROVE BoardAgrees'
    BY <1>1, RowStays DEF Launch
  <1>2. ASSUME NEW a \in Assignments, WakeTimer(a) \/ WakeTrigger(a)
        PROVE BoardAgrees'
    BY <1>2, RowStays DEF WakeTimer, WakeTrigger, Enter
  <1>3. ASSUME NEW a \in Assignments, Gate(a) PROVE BoardAgrees'
    BY <1>3, RowStays DEF Gate, Rest
  <1>4. ASSUME NEW a \in Assignments, NEW o \in Outcomes, Finish(a, o)
        PROVE BoardAgrees'
    <2>1. /\ pc'[a] = "update" /\ board' = board
          /\ \A d \in Assignments \ {a} : /\ pc'[d] = pc[d] /\ verdict'[d] = verdict[d]
                                          /\ fails'[d] = fails[d] /\ succs'[d] = succs[d]
      BY <1>4 DEF Finish
    <2> SUFFICES ASSUME NEW b \in Assignments
                 PROVE  \E d \in Assignments :
                          SlotOf[d] = SlotOf[b] /\ (pc'[d] = "update" \/ RowOf(SlotOf[d], d)')
      BY DEF BoardAgrees
    <2>2. PICK d \in Assignments : SlotOf[d] = SlotOf[b] /\ (pc[d] = "update" \/ RowOf(SlotOf[d], d))
      BY DEF BoardAgrees
    <2>3. CASE d = a
      BY <2>1, <2>2, <2>3
    <2>4. CASE d # a
      <3>1. RowOf(SlotOf[d], d) => RowOf(SlotOf[d], d)'
        BY <2>1, <2>4 DEF RowOf
      <3> QED
        BY <2>1, <2>2, <2>4, <3>1
    <2> QED
      BY <2>3, <2>4
  <1>5. ASSUME NEW a \in Assignments, Update(a) PROVE BoardAgrees'
    <2>1. /\ pc[a] = "update" /\ fails' = fails /\ succs' = succs
          /\ board' = [board EXCEPT ![SlotOf[a]] = Shown(a)]
          /\ \A d \in Assignments : verdict'[d] \in {verdict[d], None}
          /\ \A d \in Assignments \ {a} : pc'[d] = pc[d]
      BY <1>5 DEF Update, Rest
    <2>2. /\ verdict[a] # None /\ verdict[a] # "UNKNOWN" /\ (verdict[a] = "OK" <=> succs[a] > 0)
          /\ succs[a] > 0 \/ fails[a] > 0
      BY <2>1 DEF Control
    <2>3. board'[SlotOf[a]].fails = fails[a] /\ board'[SlotOf[a]].status = verdict[a]
      BY <2>1
    <2>4. fails[a] \in Nat /\ succs[a] \in Nat
      BY CapAssumption
    <2>5. RowOf(SlotOf[a], a)'
      BY <2>1, <2>2, <2>3, <2>4 DEF RowOf
    <2> SUFFICES ASSUME NEW b \in Assignments
                 PROVE  \E d \in Assignments :
                          SlotOf[d] = SlotOf[b] /\ (pc'[d] = "update" \/ RowOf(SlotOf[d], d)')
      BY DEF BoardAgrees
    <2>6. CASE SlotOf[b] = SlotOf[a]
      BY <2>5, <2>6
    <2>7. CASE SlotOf[b] # SlotOf[a]
      <3>1. PICK d \in Assignments : SlotOf[d] = SlotOf[b] /\ (pc[d] = "update" \/ RowOf(SlotOf[d], d))
        BY DEF BoardAgrees
      <3>2. d # a /\ board'[SlotOf[d]] = board[SlotOf[d]]
        BY <2>1, <2>7, <3>1
      <3>3. RowOf(SlotOf[d], d) => RowOf(SlotOf[d], d)'
        BY <2>1, <3>2 DEF RowOf
      <3> QED
        BY <2>1, <3>1, <3>2, <3>3
    <2> QED
      BY <2>6, <2>7
  <1>6. ASSUME NEW a \in Assignments, ResolveGate(a) PROVE BoardAgrees'
    BY <1>6, RowStays DEF ResolveGate, Rest
  <1>7. ASSUME NEW a \in Assignments, Resolve(a) PROVE BoardAgrees'
    BY <1>7, RowStays DEF Resolve, Rest
  <1>8. ASSUME NEW a \in Assignments, ResolveSend(a) PROVE BoardAgrees'
    BY <1>8, RowStays DEF ResolveSend, Rest
  <1>9. ASSUME NEW a \in Assignments, AlertGate(a) PROVE BoardAgrees'
    BY <1>9, RowStays DEF AlertGate, Rest
  <1>10. ASSUME NEW a \in Assignments, Alert(a) PROVE BoardAgrees'
    BY <1>10, RowStays DEF Alert, Rest
  <1>11. ASSUME NEW a \in Assignments, AlertSend(a) PROVE BoardAgrees'
    BY <1>11, RowStays DEF AlertSend, Rest
  <1>12. ASSUME NEW a \in Assignments, Stop(a) \/ Unregister(a)
        PROVE BoardAgrees'
    BY <1>12, RowStays DEF Stop, Unregister
  <1>13. CASE Surroundings
    BY <1>13, RowStays DEF Surroundings, TriggerLookup, TriggerSend, Elapse, ChangeDowntimes,
                Cancel, Return
  <1>14. CASE UNCHANGED vars
    BY <1>14, RowStays DEF vars
  <1> QED
    BY <1>1, <1>2, <1>3, <1>4, <1>5, <1>6, <1>7, <1>8,
       <1>9, <1>10, <1>11, <1>12, <1>13, <1>14
       DEF Next, Goroutine, Step

\* A step that changes nothing of the registry and ends no goroutine.
LEMMA RegistryStays ==
  ASSUME RegistryAlive, Ended, UNCHANGED registry, cancelled' = cancelled,
         \A a \in Assignments : Live(a)' <=> Live(a),
         \A a \in Assignments : pc'[a] \in {"exiting", "done"} => pc[a] \in {"exiting", "done"},
         TypeOK, NoneAssumption
  PROVE  RegistryAlive' /\ Ended'
  <1>1. Ended'
    BY DEF Ended
  <1>2. RegistryAlive'
    BY DEF RegistryAlive, TypeOK, registry
  <1> QED
    BY <1>1, <1>2

LEMMA RegistryStep ==
  ASSUME TypeOK, RegistryAlive, Ended, [Next]_vars
  PROVE  RegistryAlive' /\ Ended'
  <1> USE SlotsAssumption, NoneAssumption DEF TypeOK, locals, alerts, world
  <1>1. ASSUME NEW a \in Assignments, Launch(a) PROVE RegistryAlive' /\ Ended'
    <2>1. /\ pc[a] = "unborn" /\ pc' = [pc EXCEPT ![a] = "select"]
          /\ triggers' = [triggers EXCEPT ![SlotOf[a]] = a]
          /\ UNCHANGED <<token, held, cancelled>>
      BY <1>1 DEF Launch
    <2>2. Ended'
      BY <2>1 DEF Ended
    <2>3. RegistryAlive'
      BY <2>1 DEF RegistryAlive
    <2> QED
      BY <2>2, <2>3
  <1>2. ASSUME NEW a \in Assignments, WakeTimer(a) PROVE RegistryAlive' /\ Ended'
    BY <1>2, RegistryStays DEF WakeTimer, Enter, registry
  <1>3. ASSUME NEW a \in Assignments, WakeTrigger(a) PROVE RegistryAlive' /\ Ended'
    <2>1. /\ pc[a] = "select" /\ pc' = [pc EXCEPT ![a] = "gate"]
          /\ token' = [token EXCEPT ![a] = FALSE]
          /\ UNCHANGED <<triggers, held, cancelled>>
      BY <1>3 DEF WakeTrigger, Enter
    <2>2. Ended'
      BY <2>1 DEF Ended
    <2>3. RegistryAlive'
      BY <2>1 DEF RegistryAlive
    <2> QED
      BY <2>2, <2>3
  <1>4. ASSUME NEW a \in Assignments, Gate(a) PROVE RegistryAlive' /\ Ended'
    BY <1>4, RegistryStays DEF Gate, Rest
  <1>5. ASSUME NEW a \in Assignments, NEW o \in Outcomes, Finish(a, o)
        PROVE RegistryAlive' /\ Ended'
    BY <1>5, RegistryStays DEF Finish
  <1>6. ASSUME NEW a \in Assignments, Update(a) PROVE RegistryAlive' /\ Ended'
    BY <1>6, RegistryStays DEF Update, Rest
  <1>7. ASSUME NEW a \in Assignments, ResolveGate(a) PROVE RegistryAlive' /\ Ended'
    BY <1>7, RegistryStays DEF ResolveGate, Rest
  <1>8. ASSUME NEW a \in Assignments, Resolve(a) PROVE RegistryAlive' /\ Ended'
    BY <1>8, RegistryStays DEF Resolve, Rest
  <1>9. ASSUME NEW a \in Assignments, ResolveSend(a) PROVE RegistryAlive' /\ Ended'
    BY <1>9, RegistryStays DEF ResolveSend, Rest
  <1>10. ASSUME NEW a \in Assignments, AlertGate(a) PROVE RegistryAlive' /\ Ended'
    BY <1>10, RegistryStays DEF AlertGate, Rest
  <1>11. ASSUME NEW a \in Assignments, Alert(a) PROVE RegistryAlive' /\ Ended'
    BY <1>11, RegistryStays DEF Alert, Rest
  <1>12. ASSUME NEW a \in Assignments, AlertSend(a) PROVE RegistryAlive' /\ Ended'
    BY <1>12, RegistryStays DEF AlertSend, Rest
  <1>13. ASSUME NEW a \in Assignments, Stop(a) PROVE RegistryAlive' /\ Ended'
    <2>1. /\ pc[a] = "select" /\ cancelled /\ pc' = [pc EXCEPT ![a] = "exiting"]
          /\ UNCHANGED <<triggers, token, held, cancelled>>
      BY <1>13 DEF Stop, registry
    <2>2. Ended'
      BY <2>1 DEF Ended
    <2>3. RegistryAlive'
      BY <2>1 DEF RegistryAlive
    <2> QED
      BY <2>2, <2>3
  <1>14. ASSUME NEW a \in Assignments, Unregister(a) PROVE RegistryAlive' /\ Ended'
    <2>1. /\ triggers' = [triggers EXCEPT ![SlotOf[a]] = None]
          /\ pc[a] = "exiting" /\ pc' = [pc EXCEPT ![a] = "done"]
          /\ UNCHANGED <<token, held, cancelled>>
      BY <1>14 DEF Unregister
    <2>2. cancelled /\ cancelled'
      BY <2>1 DEF Ended
    <2>3. Ended'
      BY <2>2 DEF Ended
    <2>4. ASSUME NEW t \in Slots, triggers'[t] # None
          PROVE  pc'[triggers'[t]] \notin {"unborn", "done"} /\ SlotOf[triggers'[t]] = t
      <3>1. t # SlotOf[a] /\ triggers'[t] = triggers[t] /\ triggers[t] \in Assignments
        BY <2>1, <2>4
      <3>2. SlotOf[triggers[t]] = t /\ pc[triggers[t]] \notin {"unborn", "done"}
        BY <2>4, <3>1 DEF RegistryAlive
      <3> QED
        BY <2>1, <3>1, <3>2
    <2>5. RegistryAlive'
      BY <2>2, <2>4 DEF RegistryAlive
    <2> QED
      BY <2>3, <2>5
  <1>15. ASSUME NEW c \in Clients, NEW t \in Slots, TriggerLookup(c, t)
         PROVE RegistryAlive' /\ Ended'
    <2>1. /\ triggers[t] # None /\ held' = [held EXCEPT ![c] = triggers[t]]
          /\ UNCHANGED <<pc, triggers, token, cancelled>>
      BY <1>15 DEF TriggerLookup
    <2>2. Ended'
      BY <2>1 DEF Ended
    <2>3. RegistryAlive'
      BY <2>1 DEF RegistryAlive
    <2> QED
      BY <2>2, <2>3
  <1>16. ASSUME NEW c \in Clients, TriggerSend(c) PROVE RegistryAlive' /\ Ended'
    <2>1. /\ held[c] # None /\ token' = [token EXCEPT ![held[c]] = TRUE]
          /\ held' = [held EXCEPT ![c] = None]
          /\ UNCHANGED <<pc, triggers, cancelled>>
      BY <1>16 DEF TriggerSend
    <2>2. Ended'
      BY <2>1 DEF Ended
    <2>3. RegistryAlive'
      BY <2>1 DEF RegistryAlive
    <2> QED
      BY <2>2, <2>3
  <1>17. CASE Cancel
    BY <1>17 DEF Cancel, RegistryAlive, Ended, registry
  <1>18. ASSUME \/ \E t \in Slots : Elapse(t)
                \/ \E D \in SUBSET Slots : ChangeDowntimes(D)
                \/ Return
         PROVE  RegistryAlive' /\ Ended'
    BY <1>18, RegistryStays DEF Elapse, ChangeDowntimes, Return
  <1>19. CASE UNCHANGED vars
    BY <1>19, RegistryStays DEF vars
  <1> QED
    BY <1>1, <1>2, <1>3, <1>4, <1>5, <1>6, <1>7, <1>8, <1>9, <1>10, <1>11, <1>12,
       <1>13, <1>14, <1>15, <1>16, <1>17, <1>18, <1>19
       DEF Next, Goroutine, Step, Surroundings

LEMMA ShieldStep ==
  ASSUME TypeOK, ExposedNow, Shielded, [Next]_vars
  PROVE  (ExposedNow /\ Shielded)'
  <1> USE DEF TypeOK, ExposedNow, Shielded, locals, registry, alerts, world
  <1>1. ASSUME NEW a \in Assignments, Launch(a) PROVE (ExposedNow /\ Shielded)'
    BY <1>1 DEF Launch
  <1>2. ASSUME NEW a \in Assignments, WakeTimer(a) \/ WakeTrigger(a)
        PROVE (ExposedNow /\ Shielded)'
    BY <1>2 DEF WakeTimer, WakeTrigger, Enter
  <1>3. ASSUME NEW a \in Assignments, Gate(a) PROVE (ExposedNow /\ Shielded)'
    BY <1>3 DEF Gate, Rest
  <1>4. ASSUME NEW a \in Assignments, NEW o \in Outcomes, Finish(a, o)
        PROVE (ExposedNow /\ Shielded)'
    BY <1>4 DEF Finish, Bump, StatusForState
  <1>5. ASSUME NEW a \in Assignments, Update(a) PROVE (ExposedNow /\ Shielded)'
    BY <1>5 DEF Update, Rest
  <1>6. ASSUME NEW a \in Assignments, ResolveGate(a)
        PROVE (ExposedNow /\ Shielded)'
    BY <1>6 DEF ResolveGate, Rest
  <1>7. ASSUME NEW a \in Assignments, Resolve(a)
        PROVE (ExposedNow /\ Shielded)'
    BY <1>7 DEF Resolve, Rest
  <1>8. ASSUME NEW a \in Assignments, ResolveSend(a)
        PROVE (ExposedNow /\ Shielded)'
    BY <1>8 DEF ResolveSend, Rest
  <1>9. ASSUME NEW a \in Assignments, AlertGate(a)
        PROVE (ExposedNow /\ Shielded)'
    BY <1>9 DEF AlertGate, Rest
  <1>10. ASSUME NEW a \in Assignments, Alert(a) PROVE (ExposedNow /\ Shielded)'
    BY <1>10 DEF Alert, Rest
  <1>11. ASSUME NEW a \in Assignments, AlertSend(a)
        PROVE (ExposedNow /\ Shielded)'
    BY <1>11 DEF AlertSend, Rest
  <1>12. ASSUME NEW a \in Assignments, Stop(a) \/ Unregister(a)
        PROVE (ExposedNow /\ Shielded)'
    BY <1>12 DEF Stop, Unregister
  <1>13. CASE Surroundings
    BY <1>13 DEF Surroundings, TriggerLookup, TriggerSend, Elapse, ChangeDowntimes,
                Cancel, Return
  <1>14. CASE UNCHANGED vars
    BY <1>14 DEF vars
  <1> QED
    BY <1>1, <1>2, <1>3, <1>4, <1>5, <1>6, <1>7, <1>8,
       <1>9, <1>10, <1>11, <1>12, <1>13, <1>14
       DEF Next, Goroutine, Step

LEMMA InitIInv == Init => IInv
  <1> SUFFICES ASSUME Init PROVE IInv
    OBVIOUS
  <1>1. TypeOK
    BY TypeInit
  <1>2. Control /\ NoOrphanIncident /\ IncidentsAgree /\ Closed
    BY NoneAssumption DEF Init, Control, NoOrphanIncident, IncidentsAgree, Closed
  <1>3. BoardAgrees
    BY SlotsAssumption DEF Init, BoardAgrees, RowOf
  <1>4. RegistryAlive /\ Ended /\ ExposedNow /\ Shielded
    BY DEF Init, RegistryAlive, Ended, ExposedNow, Shielded
  <1> QED
    BY <1>1, <1>2, <1>3, <1>4 DEF IInv

LEMMA StepIInv == IInv /\ [Next]_vars => IInv'
  BY TypeStep, ControlStep, OrphanStep, AgreeStep, BoardStep, RegistryStep, ShieldStep
     DEF IInv

LEMMA Invariance == Spec => []IInv
  BY InitIInv, StepIInv, PTL DEF Spec

-----------------------------------------------------------------------------

\* Every variable keeps its type: no goroutine writes the board without a verdict
\* and no counter leaves its range.
THEOREM TypeCorrect == Spec => []TypeOK
  <1>1. IInv => TypeOK
    BY DEF IInv
  <1> QED
    BY Invariance, <1>1, PTL

\* alerts.Manager.active never keeps a key that no goroutine would resolve, for
\* any number of assignments and any sharing of keys among them.
THEOREM IncidentsHaveOwners == Spec => []NoOrphanIncident
  <1>1. IInv => NoOrphanIncident
    BY DEF IInv
  <1> QED
    BY Invariance, <1>1, PTL

\* The two records of an open incident agree at rest.
THEOREM IncidentRecordsAgree == Spec => []IncidentsAgree
  <1>1. IInv => IncidentsAgree
    BY DEF IInv
  <1> QED
    BY Invariance, <1>1, PTL

\* Each row of the status board is the present count and verdict of one goroutine,
\* for any sharing of rows.
THEOREM BoardCorrect == Spec => []BoardAgrees
  <1>1. IInv => BoardAgrees
    BY DEF IInv
  <1> QED
    BY Invariance, <1>1, PTL

\* TriggerCheck finds live goroutines only, and one for every check until a shutdown.
THEOREM RegistryCorrect == Spec => []RegistryAlive
  <1>1. IInv => RegistryAlive
    BY DEF IInv
  <1> QED
    BY Invariance, <1>1, PTL

\* A downtime without a gap keeps a check from running and from being announced.
THEOREM DowntimeShields == Spec => []Shielded
  <1>1. IInv => Shielded
    BY DEF IInv
  <1> QED
    BY Invariance, <1>1, PTL

\* Incidents open and close only after enough results in a row.
THEOREM IncidentsDebounced == Spec => Debounced
  <1> DEFINE Opened == \A s \in active' \ active :
                          \E a \in Assignments : SlotOf[a] = s /\ fails[a] >= MinFail[a]
             Cleared == \A s \in active \ active' :
                          \E a \in Assignments : SlotOf[a] = s /\ succs[a] >= MinSuccess[a]
  <1>1. ASSUME IInv, Next PROVE Opened /\ Cleared
    <2>1. TypeOK /\ Control
      BY <1>1 DEF IInv
    <2>2. ASSUME NEW a \in Assignments, Alert(a) PROVE Opened /\ Cleared
      BY <2>1, <2>2 DEF Control, Alert
    <2>3. ASSUME NEW a \in Assignments, Resolve(a) PROVE Opened /\ Cleared
      BY <2>1, <2>3 DEF Control, Resolve
    <2>4. ASSUME NEW a \in Assignments, Goroutine(a), ~Alert(a), ~Resolve(a)
          PROVE  active' = active
      BY <2>4 DEF Goroutine, Step, Launch, WakeTimer, WakeTrigger, Enter, Gate, Finish,
                  Update, ResolveGate, ResolveSend, AlertGate, AlertSend, Stop,
                  Unregister, Rest, alerts
    <2>5. Surroundings => active' = active
      BY DEF Surroundings, TriggerLookup, TriggerSend, Elapse, ChangeDowntimes, Cancel,
             Return, alerts
    <2> QED
      BY <1>1, <2>2, <2>3, <2>4, <2>5 DEF Next
  <1>2. IInv /\ [Next]_vars =>
          [\A s \in Slots :
             /\ s \in active' \ active =>
                  \E a \in Assignments : SlotOf[a] = s /\ fails[a] >= MinFail[a]
             /\ s \in active \ active' =>
                  \E a \in Assignments : SlotOf[a] = s /\ succs[a] >= MinSuccess[a]]_vars
    BY <1>1
  <1> QED
    BY Invariance, <1>2, PTL DEF Spec, Debounced

\* The goroutines use the alert manager as the incident table allows, so what
\* Alerts shows of the manager with its clock serves this model.
THEOREM TableUsed == Spec => UsesTable
  <1>1. Init => Table!Init
    BY DEF Init, Table!Init
  <1>2. ASSUME IInv, [Next]_vars PROVE [Table!Next]_(Table!vars)
    <2>1. ASSUME NEW a \in Assignments, Alert(a) PROVE Table!Alert(SlotOf[a])
      BY <2>1 DEF Alert, Table!Alert
    <2>2. ASSUME NEW a \in Assignments, Resolve(a)
          PROVE  Table!Resolve(SlotOf[a]) \/ UNCHANGED alerts
      BY <2>2 DEF Resolve, Table!Resolve, alerts
    <2>3. ASSUME NEW s \in Slots, Elapse(s) PROVE Table!Elapse
      BY <2>3 DEF Elapse, Table!Elapse
    <2>4. ASSUME NEW a \in Assignments, Goroutine(a), ~Alert(a), ~Resolve(a)
          PROVE  UNCHANGED alerts
      BY <2>4 DEF Goroutine, Step, Launch, WakeTimer, WakeTrigger, Enter, Gate, Finish,
                  Update, ResolveGate, ResolveSend, AlertGate, AlertSend, Stop,
                  Unregister, Rest, alerts
    <2>5. Surroundings => (UNCHANGED alerts \/ \E s \in Slots : Elapse(s))
      BY DEF Surroundings, TriggerLookup, TriggerSend, ChangeDowntimes, Cancel, Return
    <2>6. UNCHANGED vars => UNCHANGED alerts
      BY DEF vars
    <2>7. UNCHANGED alerts => UNCHANGED Table!vars
      BY DEF alerts, Table!vars
    <2>8. \A a \in Assignments : SlotOf[a] \in Slots
      BY SlotsAssumption
    <2>9. ASSUME Next PROVE Table!Next \/ UNCHANGED alerts
      BY <2>1, <2>2, <2>3, <2>4, <2>5, <2>8, <2>9 DEF Next, Table!Next
    <2> QED
      BY <1>2, <2>6, <2>7, <2>9
  <1> QED
    BY Invariance, <1>1, <1>2, PTL DEF Spec, UsesTable, Table!Spec

=============================================================================
