----------------------------- MODULE Scheduler -----------------------------
(***************************************************************************)
(* The check scheduler (internal/scheduler/scheduler.go) together with     *)
(* what its goroutines touch: the alert manager's incident table, the      *)
(* status board, the trigger registry and the answer of the downtime book. *)
(*                                                                         *)
(* Every assignment (one check on one host) has a goroutine.  pc[a] is the *)
(* place of that goroutine, cut wherever the code takes a lock, blocks, or *)
(* calls out, so two goroutines, an API client, the downtime book and the  *)
(* shutdown signal interleave at every such place.  Time is abstracted: an *)
(* armed timer may fire at any moment, and a repeat interval may elapse at *)
(* any moment.                                                             *)
(***************************************************************************)
EXTENDS Naturals

CONSTANTS
  Assignments,   \* cfg.LookupMaps.CheckAssignments
  Slots,         \* the (hostname, check name) pairs every key is built from
  SlotOf,        \* [Assignments -> Slots]; two hosts of one name share slots
  MinFail,       \* [Assignments -> Nat], min_fail_before_alert
  MinSuccess,    \* [Assignments -> Nat], min_success_before_resolve
  CountCap,      \* bound: the consecutive counters saturate here
  Outcomes,      \* what an execution may answer
  Clients,       \* API requests of /api/v1/admin/check/now in flight
  None

Statuses == {"OK", "WARNING", "CRITICAL", "UNKNOWN"}

ASSUME SlotsAssumption      == SlotOf \in [Assignments -> Slots]
ASSUME OutcomesAssumption   == Outcomes \subseteq (Statuses \cup {"error"})
ASSUME CapAssumption        == CountCap \in Nat
ASSUME ThresholdsAssumption ==
  \A a \in Assignments : MinFail[a] \in 1..CountCap /\ MinSuccess[a] \in 1..CountCap
ASSUME NoneAssumption       == None \notin Assignments /\ None \notin Statuses

VARIABLES
  pc,           \* where the goroutine of an assignment is
  fails,        \* assignmentState.consecutiveFailures
  succs,        \* assignmentState.consecutiveSuccess
  alertActive,  \* assignmentState.alertActive
  verdict,      \* statusForState of the run in progress
  triggers,     \* Scheduler.triggers: slot -> assignment owning the channel
  token,        \* whether the assignment's channel (capacity 1) holds a token
  held,         \* the channel a client found and has not sent on yet
  active,       \* alerts.Manager.active
  muted,        \* slots whose lastAlert is less than repeatInterval ago
  board,        \* state.Manager: what the status board shows
  down,         \* slots that downtime.Active answers true for at this moment
  exposed,      \* history: see Shielded
  cancelled,    \* the context passed to Run is done
  returned      \* Run has returned

locals  == <<fails, succs, alertActive>>
registry == <<triggers, token, held>>
alerts  == <<active, muted>>
world   == <<down, cancelled, returned>>
vars    == <<pc, locals, verdict, registry, alerts, board, exposed, world>>

Busy      == {"gate", "running", "update", "resolveGate", "resolve", "resolveSend",
              "alertGate", "alert", "alertSend"}
Places    == Busy \cup {"unborn", "select", "exiting", "done"}
Notifying == {"resolve", "resolveSend", "alert", "alertSend"}
Live(a)   == pc[a] \notin {"unborn", "done"}

Bump(n) == IF n < CountCap THEN n + 1 ELSE n

\* Mutant: an execution error is shown as it is.
StatusForStateRaw(o) == o

\* The status the board and the message show for what execute() answered.
StatusForState(o) == IF o \in {"UNKNOWN", "error"} THEN "CRITICAL" ELSE o

Init ==
  /\ pc          = [a \in Assignments |-> "unborn"]
  /\ fails       = [a \in Assignments |-> 0]
  /\ succs       = [a \in Assignments |-> 0]
  /\ alertActive = [a \in Assignments |-> FALSE]
  /\ verdict     = [a \in Assignments |-> None]
  /\ triggers    = [s \in Slots |-> None]
  /\ token       = [a \in Assignments |-> FALSE]
  /\ held        = [c \in Clients |-> None]
  /\ active      = {}
  /\ muted       = {}
  /\ board       = [s \in Slots |-> [status |-> "UNKNOWN", fails |-> 0]]
  /\ down        \in SUBSET Slots
  /\ exposed     = {}
  /\ cancelled   = FALSE
  /\ returned    = FALSE

-----------------------------------------------------------------------------
(* The goroutine of an assignment *)

\* Run registers the channel and starts the goroutine; what a client does between
\* the two it can as well do just after.
Launch(a) ==
  /\ pc[a] = "unborn"
  /\ pc'       = [pc EXCEPT ![a] = "select"]
  /\ triggers' = [triggers EXCEPT ![SlotOf[a]] = a]
  /\ UNCHANGED <<locals, verdict, token, held, alerts, board, exposed, world>>

\* Enter executeCheck; exposed starts over with the downtimes of this moment.
Enter(a) ==
  /\ pc[a] = "select"
  /\ pc'      = [pc EXCEPT ![a] = "gate"]
  /\ exposed' = IF SlotOf[a] \in down THEN exposed \ {a} ELSE exposed \cup {a}
  /\ UNCHANGED <<locals, verdict, triggers, held, alerts, board, world>>

WakeTimer(a) == Enter(a) /\ UNCHANGED token

\* Mutant: a check under a downtime leaves its trigger for later.
WakeTriggerLater(a) ==
  /\ token[a] /\ SlotOf[a] \notin down
  /\ Enter(a)
  /\ token' = [token EXCEPT ![a] = FALSE]

WakeTrigger(a) ==
  /\ token[a]
  /\ Enter(a)
  /\ token' = [token EXCEPT ![a] = FALSE]

\* Leave executeCheck, re-arm the timer (whatever the interval) and go back to
\* the select.
Rest(a) ==
  /\ pc'      = [pc EXCEPT ![a] = "select"]
  /\ verdict' = [verdict EXCEPT ![a] = None]
  /\ exposed' = exposed \ {a}

\* Mutant: the book is not asked.
InDowntimeNever(a) == FALSE

\* inDowntime: the book's answer at this moment.
InDowntime(a) == SlotOf[a] \in down

\* The inDowntime test before anything is executed.
Gate(a) ==
  /\ pc[a] = "gate"
  /\ \/ InDowntime(a) /\ Rest(a)
     \/ /\ ~InDowntime(a)
        /\ pc' = [pc EXCEPT ![a] = "running"]
        /\ UNCHANGED <<verdict, exposed>>
  /\ UNCHANGED <<locals, registry, alerts, board, world>>

\* execute() answers o; the counters are the goroutine's own.
Finish(a, o) ==
  /\ pc[a] = "running"
  /\ verdict' = [verdict EXCEPT ![a] = StatusForState(o)]
  /\ fails'   = [fails EXCEPT ![a] = IF o = "OK" THEN 0 ELSE Bump(@)]
  /\ succs'   = [succs EXCEPT ![a] = IF o = "OK" THEN Bump(@) ELSE 0]
  /\ pc'      = [pc EXCEPT ![a] = "update"]
  /\ exposed' = IF SlotOf[a] \in down THEN exposed \ {a} ELSE exposed \cup {a}
  /\ UNCHANGED <<alertActive, registry, alerts, board, world>>

\* Mutant: the count is taken before the failure is counted.
ShownLate(a) == [status |-> verdict[a], fails |-> IF fails[a] = 0 THEN 0 ELSE fails[a] - 1]

\* What the run tells the board: failCount is 0 after a success, as fails[a] is.
Shown(a) == [status |-> verdict[a], fails |-> fails[a]]

\* Mutants: the threshold of failures off by one, and tested for equality.
ConfirmedEarly(a) == fails[a] + 1 >= MinFail[a]
ConfirmedOnce(a) == fails[a] = MinFail[a]

Confirmed(a) == fails[a] >= MinFail[a]
Recovered(a) == alertActive[a] /\ succs[a] >= MinSuccess[a]

\* state.Update under the board's lock, then the branch on success.
Update(a) ==
  /\ pc[a] = "update"
  /\ board' = [board EXCEPT ![SlotOf[a]] = Shown(a)]
  /\ \/ /\ verdict[a] = "OK" /\ Recovered(a)
        /\ pc' = [pc EXCEPT ![a] = "resolveGate"]
        /\ UNCHANGED <<verdict, exposed>>
     \/ /\ verdict[a] # "OK" /\ Confirmed(a)
        /\ pc' = [pc EXCEPT ![a] = "alertGate"]
        /\ UNCHANGED <<verdict, exposed>>
     \/ /\ IF verdict[a] = "OK" THEN ~Recovered(a) ELSE ~Confirmed(a)
        /\ Rest(a)
  /\ UNCHANGED <<locals, registry, alerts, world>>

\* Mutant: alertActive is cleared although the downtime suppressed the resolve.
ResolveGateForgets(a) ==
  /\ pc[a] = "resolveGate"
  /\ \/ /\ InDowntime(a)
        /\ alertActive' = [alertActive EXCEPT ![a] = FALSE]
        /\ Rest(a)
     \/ /\ ~InDowntime(a)
        /\ pc' = [pc EXCEPT ![a] = "resolve"]
        /\ UNCHANGED <<alertActive, verdict, exposed>>
  /\ UNCHANGED <<fails, succs, registry, alerts, board, world>>

\* The second inDowntime test of a recovering check.
ResolveGate(a) ==
  /\ pc[a] = "resolveGate"
  /\ \/ InDowntime(a) /\ Rest(a)
     \/ /\ ~InDowntime(a)
        /\ pc' = [pc EXCEPT ![a] = "resolve"]
        /\ UNCHANGED <<verdict, exposed>>
  /\ UNCHANGED <<locals, registry, alerts, board, world>>

\* Mutant: the end of the incident also ends the mute.
ResolveUnmutes(a) ==
  /\ pc[a] = "resolve"
  /\ \/ /\ SlotOf[a] \in active
        /\ active' = active \ {SlotOf[a]}
        /\ muted'  = muted \ {SlotOf[a]}
        /\ pc' = [pc EXCEPT ![a] = "resolveSend"]
        /\ UNCHANGED <<alertActive, verdict, exposed>>
     \/ /\ SlotOf[a] \notin active
        /\ alertActive' = [alertActive EXCEPT ![a] = FALSE]
        /\ Rest(a)
        /\ UNCHANGED alerts
  /\ UNCHANGED <<fails, succs, registry, board, world>>

\* alerts.Resolve up to the unlock: a key that is not active is not announced.
Resolve(a) ==
  /\ pc[a] = "resolve"
  /\ \/ /\ SlotOf[a] \in active
        /\ active' = active \ {SlotOf[a]}
        /\ pc' = [pc EXCEPT ![a] = "resolveSend"]
        /\ UNCHANGED <<alertActive, verdict, exposed>>
     \/ /\ SlotOf[a] \notin active
        /\ alertActive' = [alertActive EXCEPT ![a] = FALSE]
        /\ Rest(a)
        /\ UNCHANGED active
  /\ UNCHANGED <<fails, succs, registry, muted, board, world>>

\* The [RESOLVED] message is out (or every notifier failed), Resolve returned.
ResolveSend(a) ==
  /\ pc[a] = "resolveSend"
  /\ alertActive' = [alertActive EXCEPT ![a] = FALSE]
  /\ Rest(a)
  /\ UNCHANGED <<fails, succs, registry, alerts, board, world>>

\* The second inDowntime test of a failing check.
AlertGate(a) ==
  /\ pc[a] = "alertGate"
  /\ \/ InDowntime(a) /\ Rest(a) /\ UNCHANGED alertActive
     \/ /\ ~InDowntime(a)
        /\ alertActive' = [alertActive EXCEPT ![a] = TRUE]
        /\ pc' = [pc EXCEPT ![a] = "alert"]
        /\ UNCHANGED <<verdict, exposed>>
  /\ UNCHANGED <<fails, succs, registry, alerts, board, world>>

\* Mutant: the repeat interval is tested before the incident is marked active.
AlertMutedFirst(a) ==
  /\ pc[a] = "alert"
  /\ \/ SlotOf[a] \in muted /\ Rest(a) /\ UNCHANGED <<active, muted>>
     \/ /\ SlotOf[a] \notin muted
        /\ active' = active \cup {SlotOf[a]}
        /\ muted'  = muted \cup {SlotOf[a]}
        /\ pc' = [pc EXCEPT ![a] = "alertSend"]
        /\ UNCHANGED <<verdict, exposed>>
  /\ UNCHANGED <<locals, registry, board, world>>

\* alerts.Alert: shouldSendAlert opens the incident even when it stays silent.
Alert(a) ==
  /\ pc[a] = "alert"
  /\ active' = active \cup {SlotOf[a]}
  /\ \/ SlotOf[a] \in muted /\ Rest(a) /\ UNCHANGED muted
     \/ /\ SlotOf[a] \notin muted
        /\ muted' = muted \cup {SlotOf[a]}
        /\ pc' = [pc EXCEPT ![a] = "alertSend"]
        /\ UNCHANGED <<verdict, exposed>>
  /\ UNCHANGED <<locals, registry, board, world>>

\* The alert message is out (or every notifier failed), Alert returned.
AlertSend(a) ==
  /\ pc[a] = "alertSend"
  /\ Rest(a)
  /\ UNCHANGED <<locals, registry, alerts, board, world>>

\* Mutant: a pending trigger is served before ctx.Done is looked at.
StopAfterTriggers(a) ==
  /\ pc[a] = "select" /\ cancelled /\ ~token[a]
  /\ pc' = [pc EXCEPT ![a] = "exiting"]
  /\ UNCHANGED <<locals, verdict, registry, alerts, board, exposed, world>>

\* The select takes ctx.Done: runAssignment returns.
Stop(a) ==
  /\ pc[a] = "select" /\ cancelled
  /\ pc' = [pc EXCEPT ![a] = "exiting"]
  /\ UNCHANGED <<locals, verdict, registry, alerts, board, exposed, world>>

\* Mutant: the goroutine ends without unregistering its channel.
UnregisterSkipped(a) ==
  /\ pc[a] = "exiting"
  /\ pc' = [pc EXCEPT ![a] = "done"]
  /\ UNCHANGED <<locals, verdict, registry, alerts, board, exposed, world>>

\* unregisterTrigger deletes by key, whoever's channel is registered there.
Unregister(a) ==
  /\ pc[a] = "exiting"
  /\ pc'       = [pc EXCEPT ![a] = "done"]
  /\ triggers' = [triggers EXCEPT ![SlotOf[a]] = None]
  /\ UNCHANGED <<locals, verdict, token, held, alerts, board, exposed, world>>

-----------------------------------------------------------------------------
(* API clients, time, the downtime book, shutdown *)

\* TriggerCheck reads the registry under the read lock ...
TriggerLookup(c, s) ==
  /\ held[c] = None /\ triggers[s] # None /\ ~returned
  /\ held' = [held EXCEPT ![c] = triggers[s]]
  /\ UNCHANGED <<pc, locals, verdict, triggers, token, alerts, board, exposed, world>>

\* ... and sends without it; a full channel swallows the token.
TriggerSend(c) ==
  /\ held[c] # None /\ ~returned
  /\ token' = [token EXCEPT ![held[c]] = TRUE]
  /\ held'  = [held EXCEPT ![c] = None]
  /\ UNCHANGED <<pc, locals, verdict, triggers, alerts, board, exposed, world>>

\* repeatInterval has passed since the slot's last alert.
Elapse(s) ==
  /\ s \in muted
  /\ muted' = muted \ {s}
  /\ UNCHANGED <<pc, locals, verdict, registry, active, board, exposed, world>>

\* Downtimes start, end, are added and removed: any change of Active's answer.
ChangeDowntimes(D) ==
  /\ D # down /\ ~returned
  /\ down'    = D
  /\ exposed' = exposed \cup {a \in Assignments : pc[a] \in Busy /\ SlotOf[a] \notin D}
  /\ UNCHANGED <<pc, locals, verdict, registry, alerts, board, cancelled, returned>>

Cancel ==
  /\ ~cancelled
  /\ cancelled' = TRUE
  /\ UNCHANGED <<pc, locals, verdict, registry, alerts, board, exposed, down, returned>>

\* wg.Wait is over: Run, and with it the process, returns.
Return ==
  /\ cancelled /\ ~returned
  /\ \A a \in Assignments : pc[a] = "done"
  /\ returned' = TRUE
  /\ UNCHANGED <<pc, locals, verdict, registry, alerts, board, exposed, down, cancelled>>

-----------------------------------------------------------------------------

\* What the goroutine does by itself once executeCheck is entered.
Step(a) ==
  \/ Gate(a) \/ (\E o \in Outcomes : Finish(a, o)) \/ Update(a)
  \/ ResolveGate(a) \/ Resolve(a) \/ ResolveSend(a)
  \/ AlertGate(a) \/ Alert(a) \/ AlertSend(a)
  \/ Unregister(a)

Goroutine(a) == Launch(a) \/ WakeTimer(a) \/ WakeTrigger(a) \/ Step(a) \/ Stop(a)

Surroundings ==
  \/ \E c \in Clients : TriggerSend(c) \/ \E s \in Slots : TriggerLookup(c, s)
  \/ \E s \in Slots : Elapse(s)
  \/ \E D \in SUBSET Slots : ChangeDowntimes(D)
  \/ Cancel
  \/ Return

Next == (\E a \in Assignments : Goroutine(a)) \/ Surroundings

Spec == Init /\ [][Next]_vars

(***************************************************************************)
(* Go runs every goroutine that can run; a timer that is armed fires; an   *)
(* execution and a notification end by their timeouts.  A select with      *)
(* several ready cases picks one uniformly at random, so a case that is    *)
(* ready again and again is taken in the end: strong fairness for the      *)
(* trigger and for ctx.Done.                                               *)
(***************************************************************************)
Fairness ==
  /\ \A a \in Assignments :
       /\ WF_vars(Launch(a))
       /\ WF_vars(WakeTimer(a))
       /\ WF_vars(Step(a))
       /\ SF_vars(WakeTrigger(a))
       /\ SF_vars(Stop(a))
  /\ \A c \in Clients : WF_vars(TriggerSend(c))
  /\ \A s \in Slots : WF_vars(Elapse(s))
  /\ WF_vars(Return)

FairSpec == Spec /\ Fairness

-----------------------------------------------------------------------------
(* Properties *)

TypeOK ==
  /\ pc          \in [Assignments -> Places]
  /\ fails       \in [Assignments -> 0..CountCap]
  /\ succs       \in [Assignments -> 0..CountCap]
  /\ alertActive \in [Assignments -> BOOLEAN]
  /\ verdict     \in [Assignments -> Statuses \cup {None}]
  /\ triggers    \in [Slots -> Assignments \cup {None}]
  /\ token       \in [Assignments -> BOOLEAN]
  /\ held        \in [Clients -> Assignments \cup {None}]
  /\ active      \in SUBSET Slots
  /\ muted       \in SUBSET Slots
  /\ board       \in [Slots -> [status : Statuses, fails : 0..CountCap]]
  /\ down        \in SUBSET Slots
  /\ exposed     \in SUBSET Assignments
  /\ cancelled   \in BOOLEAN
  /\ returned    \in BOOLEAN

\* No key is scheduled twice, which config.Load does not check.
NoDuplicates == \A a, b \in Assignments : SlotOf[a] = SlotOf[b] => a = b

\* An incident the alert manager holds open can always be closed: some goroutine
\* of that key remembers having alerted and has not yet announced the recovery.
\* Holds also when goroutines share a key and open and close over one another.
NoOrphanIncident ==
  \A s \in active : \E a \in Assignments :
    SlotOf[a] = s /\ alertActive[a] /\ pc[a] # "resolveSend"

\* The goroutine's private alertActive and the alert manager's active map, kept
\* in step by two calls that are not atomic together, agree whenever neither of
\* the two is in the middle of Alert or Resolve.
IncidentsAgree ==
  NoDuplicates =>
    \A a \in Assignments :
      pc[a] \notin {"alert", "resolveSend"} => (alertActive[a] <=> SlotOf[a] \in active)

\* The row of board s is the present state of a's counters and verdict; UNKNOWN
\* means that there was no result yet.
RowOf(s, a) ==
  /\ board[s].fails = fails[a]
  /\ board[s].status = "OK" <=> succs[a] > 0
  /\ board[s].status = "UNKNOWN" <=> succs[a] = 0 /\ fails[a] = 0
  /\ verdict[a] # None => verdict[a] = board[s].status

\* Whoever shares a row of the board, what it shows is the present count and
\* verdict of one goroutine of that key, never of two and never of a run long
\* past: only one between its counters and its state.Update may differ.
BoardAgrees ==
  \A b \in Assignments : \E a \in Assignments :
    SlotOf[a] = SlotOf[b] /\ (pc[a] = "update" \/ RowOf(SlotOf[a], a))

\* The trigger registry never hands out the channel of a goroutine that is gone,
\* and until a shutdown every check has one to hand out, also where goroutines
\* register and unregister under one key.  A channel looked up before its goroutine
\* ended, and a token sent into it after, are things of a shutdown only.
RegistryAlive ==
  /\ \A s \in Slots : triggers[s] # None => Live(triggers[s]) /\ SlotOf[triggers[s]] = s
  /\ \A a \in Assignments : Live(a) /\ ~cancelled => triggers[SlotOf[a]] # None
  /\ \A c \in Clients : held[c] # None => Live(held[c]) \/ cancelled
  /\ \A a \in Assignments : token[a] => Live(a) \/ cancelled

\* A downtime that is in force without a gap since the wake-up keeps the check
\* from being executed, and one in force without a gap since the result keeps
\* it from being announced, though the gates read the book only at one moment.
Shielded ==
  \A a \in Assignments : pc[a] \in Notifying \cup {"running"} => a \in exposed

\* An incident opens only after MinFail results in a row that were not OK and
\* closes only after MinSuccess in a row that were, whoever shares the key.
Debounced ==
  [][\A s \in Slots :
       /\ s \in active' \ active =>
            \E a \in Assignments : SlotOf[a] = s /\ fails[a] >= MinFail[a]
       /\ s \in active \ active' =>
            \E a \in Assignments : SlotOf[a] = s /\ succs[a] >= MinSuccess[a]]_vars

\* All the scheduler's model assumes of the alert manager and its clock is the
\* incident table, which the alert manager implements (ImplementsTable in Alerts).
Table == INSTANCE IncidentTable WITH Keys <- Slots
UsesTable == Table!Spec

\* A "check now" token is taken up by its goroutine, in whatever state of a run
\* it arrives and though the timer competes with it, unless a shutdown comes first.
TriggerServed ==
  \A a \in Assignments : token[a] ~> (~token[a] \/ cancelled)

\* After the shutdown signal every goroutine leaves its loop and Run returns,
\* whatever timers and triggers still come in.
ShutdownCompletes == cancelled ~> returned

\* A check that from some point on only fails, outside downtimes, is announced
\* again and again: the repeat interval delays reminders, it never ends them.
OutageAnnounced ==
  \A a \in Assignments :
    [](succs[a] = 0 /\ SlotOf[a] \notin down /\ ~cancelled) ~> pc[a] = "alertSend"

\* A check that from some point on only succeeds, outside downtimes, ends with
\* its incident closed, also if the recovery first happened under a downtime.
RecoveryResolves ==
  \A a \in Assignments :
    [](fails[a] = 0 /\ SlotOf[a] \notin down /\ ~cancelled) ~> SlotOf[a] \notin active

=============================================================================
