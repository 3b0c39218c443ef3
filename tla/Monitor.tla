------------------------------ MODULE Monitor ------------------------------
(***************************************************************************)
(* The goroutines of the scheduler (internal/scheduler/scheduler.go) at    *)
(* work with the alert manager, on its clock: intervals, timeouts and      *)
(* notifiers take the time they take.  Scheduler leaves time out and cuts  *)
(* the goroutines finer; here a goroutine that shares its key with another *)
(* one runs the same check (KeysOwned of Config), so that the settings are *)
(* one check's.  A shutdown ends everything and is left to Scheduler.      *)
(***************************************************************************)
EXTENDS Alerts

CONSTANTS
  CheckInterval, RetryInterval, MinFail, MinSuccess,
  MaxExec,    \* how long an execution takes at most (InTime of Execution)
  MaxSend     \* how long a notifier takes at most

ASSUME SettingsAssumption ==
  {CheckInterval, RetryInterval, MinFail, MinSuccess, MaxExec, MaxSend} \subseteq Nat \ {0}

VARIABLES
  at,           \* where the goroutine of a caller is; "absent" if it is not configured
  until,        \* when its timer fires, or what it waits for has ended at the latest
  fails, succs, alertActive,  \* assignmentState
  up,           \* keys whose checked thing is in order
  seen,         \* callers whose execution, under way, began when it was
  quiet,        \* keys in a downtime
  fine          \* history: the last instant at which a key was up or quiet

goroutine == <<at, until, fails, succs, alertActive, seen>>
manager   == <<lastAlert, active, left, said>>
world     == <<up, quiet, fine>>
mvars     == <<vars, goroutine, world>>

\* Counts beyond a threshold are not told apart; bound: the counters stop there.
Bump(n, threshold) == IF n < threshold THEN n + 1 ELSE n

MonitorInit ==
  /\ Init
  /\ \E present \in SUBSET Callers :
       at = [c \in Callers |-> IF c \in present THEN "select" ELSE "absent"]
  /\ until = [c \in Callers |-> 0]
  /\ fails = [c \in Callers |-> 0]
  /\ succs = [c \in Callers |-> 0]
  /\ alertActive = [c \in Callers |-> FALSE]
  /\ seen  = {}
  /\ up    = Keys
  /\ quiet = {}
  /\ fine  = [k \in Keys |-> 0]

-----------------------------------------------------------------------------
(* A goroutine *)

Wait(c, place, time) ==
  /\ at'    = [at EXCEPT ![c] = place]
  /\ until' = [until EXCEPT ![c] = now + time]

\* executeCheck returns, and resetTimer arms the timer anew, whatever it was at.
Rest(c, interval) == Wait(c, "select", interval)

\* executeCheck up to the execution, which takes up to MaxExec.
Enter(c) ==
  /\ at[c] = "select"
  /\ \/ KeyOf[c] \in quiet /\ Rest(c, CheckInterval) /\ UNCHANGED seen
     \/ /\ KeyOf[c] \notin quiet
        /\ Wait(c, "running", MaxExec)
        /\ seen' = IF KeyOf[c] \in up THEN seen \cup {c} ELSE seen
  /\ UNCHANGED <<vars, fails, succs, alertActive, world>>

WakeTimer(c)   == now >= until[c] /\ Enter(c)
WakeTrigger(c) == now < until[c] /\ Enter(c)

\* Mutant: a failure below the threshold is tried again like any other.
PauseAlike(n) == CheckInterval

\* How long to wait after the n-th failure in a row that is not yet confirmed.
Pause(n) == RetryInterval

\* The execution answers; it can be a success only if the checked thing was in
\* order when it began or is so now.
AnswerOK(c) ==
  /\ at[c] = "running"
  /\ c \in seen \/ KeyOf[c] \in up
  /\ succs' = [succs EXCEPT ![c] = Bump(@, MinSuccess)]
  /\ fails' = [fails EXCEPT ![c] = 0]
  /\ \/ alertActive[c] /\ succs'[c] >= MinSuccess /\ Wait(c, "resolving", 0)
     \/ ~(alertActive[c] /\ succs'[c] >= MinSuccess) /\ Rest(c, CheckInterval)
  /\ seen' = seen \ {c}
  /\ UNCHANGED <<vars, alertActive, world>>

AnswerFailed(c) ==
  /\ at[c] = "running"
  /\ fails' = [fails EXCEPT ![c] = Bump(@, MinFail)]
  /\ succs' = [succs EXCEPT ![c] = 0]
  /\ \/ fails'[c] >= MinFail /\ Wait(c, "alerting", 0)
     \/ fails'[c] < MinFail /\ Rest(c, Pause(fails'[c]))
  /\ seen' = seen \ {c}
  /\ UNCHANGED <<vars, alertActive, world>>

\* Mutant: dispatch goes on beside the goroutine.
ProceedAtOnce(c) == Rest(c, CheckInterval)

\* Dispatch begins, or there was nothing to send.
Proceed(c) == IF left'[c] > 0 THEN Wait(c, "sending", MaxSend) ELSE Rest(c, CheckInterval)

\* The second downtime lookup, and what is done when it says no.
Resolving(c) ==
  /\ at[c] = "resolving"
  /\ \/ KeyOf[c] \in quiet /\ Rest(c, CheckInterval) /\ UNCHANGED <<vars, alertActive>>
     \/ /\ KeyOf[c] \notin quiet
        /\ alertActive' = [alertActive EXCEPT ![c] = FALSE]
        /\ Resolve(c) \/ (KeyOf[c] \notin active /\ UNCHANGED vars)
        /\ Proceed(c)
  /\ UNCHANGED <<fails, succs, seen, world>>

Alerting(c) ==
  /\ at[c] = "alerting"
  /\ \/ KeyOf[c] \in quiet /\ Rest(c, CheckInterval) /\ UNCHANGED <<vars, alertActive>>
     \/ /\ KeyOf[c] \notin quiet
        /\ alertActive' = [alertActive EXCEPT ![c] = TRUE]
        /\ Alert(c)
        /\ Proceed(c)
  /\ UNCHANGED <<fails, succs, seen, world>>

\* A notifier is done; the next one is called, in the same goroutine.
Sending(c) ==
  /\ at[c] = "sending"
  /\ Send(c)
  /\ Proceed(c)
  /\ UNCHANGED <<fails, succs, alertActive, seen, world>>

Goroutine(c) ==
  \/ WakeTimer(c) \/ WakeTrigger(c) \/ AnswerOK(c) \/ AnswerFailed(c)
  \/ Resolving(c) \/ Alerting(c) \/ Sending(c)

-----------------------------------------------------------------------------
(* The checked things, downtimes, time *)

Change(k, u, q) ==
  /\ up' = u /\ quiet' = q
  /\ fine' = [fine EXCEPT ![k] = IF k \in up \cup quiet \cup u \cup q THEN now ELSE @]
  /\ UNCHANGED <<vars, goroutine>>

Break(k)   == k \in up /\ Change(k, up \ {k}, quiet)
Mend(k)    == k \notin up /\ Change(k, up \cup {k}, quiet)
Silence(k) == k \notin quiet /\ Change(k, up, quiet \cup {k})
Unsilence(k) == k \in quiet /\ Change(k, up, quiet \ {k})

\* What does not wait is done at once: time passes only while everyone waits.
Pass ==
  /\ \A c \in Callers : at[c] = "absent" \/ now < until[c]
  /\ Tick
  /\ fine' = [k \in Keys |-> IF k \in up \cup quiet THEN now' ELSE fine[k]]
  /\ UNCHANGED <<goroutine, up, quiet>>

MonitorNext ==
  \/ \E c \in Callers : Goroutine(c)
  \/ \E k \in Keys : Break(k) \/ Mend(k) \/ Silence(k) \/ Unsilence(k)
  \/ Pass

MonitorSpec == MonitorInit /\ [][MonitorNext]_mvars

-----------------------------------------------------------------------------
(* Properties *)

Latest == MaxTime + CheckInterval + RetryInterval + MaxExec + MaxSend

MonitorTypeOK ==
  /\ TypeOK
  /\ at    \in [Callers -> {"absent", "select", "running", "resolving", "alerting", "sending"}]
  /\ until \in [Callers -> 0..Latest]
  /\ fails \in [Callers -> 0..MinFail]
  /\ succs \in [Callers -> 0..MinSuccess]
  /\ alertActive \in [Callers -> BOOLEAN]
  /\ up \subseteq Keys /\ quiet \subseteq Keys /\ seen \subseteq Callers
  /\ fine \in [Keys -> 0..now]
  /\ \A c \in Callers : at[c] = "sending" <=> left[c] > 0

\* How late an outage can be told, with everything in the way: an execution that
\* began in time to succeed, its recovery sent to every notifier, a whole interval,
\* and the failures it takes.
ToldWithin ==
  MaxExec + Notifiers * MaxSend + CheckInterval
  + MinFail * MaxExec + (MinFail - 1) * RetryInterval

\* The muted check just before the interval is over, or the sending, and the next.
Longer(m, n) == IF m > n THEN m ELSE n
RemindedWithin == Longer(RepeatInterval - 1, Notifiers * MaxSend) + CheckInterval + MaxExec

\* An outage without a gap, outside of downtimes, is announced in time and again
\* and again in time, however slow executions and notifiers are, though the same
\* goroutine does all of it, and whether or not another one has its key.
OutageTold ==
  \A c \in Callers : LET k == KeyOf[c] IN
    at[c] # "absent" /\ now - fine[k] > ToldWithin =>
      /\ said[k] # <<>>
      /\ now - said[k][Len(said[k])] <= RemindedWithin
=============================================================================
