------------------------------- MODULE Alerts -------------------------------
(***************************************************************************)
(* The alert manager (internal/alerts/manager.go) with its clock.  Alert   *)
(* and Resolve decide under the manager's mutex, in one step; the message  *)
(* then goes to one notifier after the other outside of it, and meanwhile  *)
(* other goroutines decide.  Each caller is a scheduler goroutine and      *)
(* calls for its own key; the callers of a duplicated hostname share one.  *)
(***************************************************************************)
EXTENDS Integers, Sequences

CONSTANTS
  Callers, Keys,
  KeyOf,           \* [Callers -> Keys], keyFor of the caller's assignment
  Notifiers,       \* how many notifiers there are, at least the one that does nothing
  RepeatInterval,
  MaxTime          \* bound: the clock stops here

ASSUME KeyOfAssumption  == KeyOf \in [Callers -> Keys]
ASSUME NumberAssumption ==
  Notifiers \in Nat \ {0} /\ RepeatInterval \in Nat \ {0} /\ MaxTime \in Nat

VARIABLES
  now,
  lastAlert,  \* Manager.lastAlert; a key that is absent is Never
  active,     \* Manager.active
  left,       \* per caller, the notifiers that dispatch has still to call
  said        \* history: per key, the instants at which an alert was let through

vars == <<now, lastAlert, active, left, said>>

\* The zero time, longer ago than any interval.
Never == -RepeatInterval

Init ==
  /\ now       = 0
  /\ lastAlert = [k \in Keys |-> Never]
  /\ active    = {}
  /\ left      = [c \in Callers |-> 0]
  /\ said      = [k \in Keys |-> <<>>]

TooSoon(k) == now - lastAlert[k] < RepeatInterval

\* Mutant: the instant is not recorded.
AlertUnrecorded(c) ==
  LET k == KeyOf[c] IN
  /\ left[c] = 0
  /\ active' = active \cup {k}
  /\ \/ TooSoon(k) /\ UNCHANGED <<left, said>>
     \/ /\ ~TooSoon(k)
        /\ left' = [left EXCEPT ![c] = Notifiers]
        /\ said' = [said EXCEPT ![k] = Append(@, now)]
  /\ UNCHANGED <<now, lastAlert>>

\* Alert: shouldSendAlert opens the incident in any case, and lets the alert
\* through to dispatch unless it comes too soon after the last.
Alert(c) ==
  LET k == KeyOf[c] IN
  /\ left[c] = 0
  /\ active' = active \cup {k}
  /\ \/ TooSoon(k) /\ UNCHANGED <<lastAlert, left, said>>
     \/ /\ ~TooSoon(k)
        /\ lastAlert' = [lastAlert EXCEPT ![k] = now]
        /\ left'      = [left EXCEPT ![c] = Notifiers]
        /\ said'      = [said EXCEPT ![k] = Append(@, now)]
  /\ UNCHANGED now

\* Mutant: the end of an incident lets the next alert through at once.
ResolveUnmutes(c) ==
  LET k == KeyOf[c] IN
  /\ left[c] = 0 /\ k \in active
  /\ active'    = active \ {k}
  /\ left'      = [left EXCEPT ![c] = Notifiers]
  /\ lastAlert' = [lastAlert EXCEPT ![k] = Never]
  /\ UNCHANGED <<now, said>>

\* Resolve of an open incident; of one that is not open it changes nothing.
Resolve(c) ==
  LET k == KeyOf[c] IN
  /\ left[c] = 0 /\ k \in active
  /\ active' = active \ {k}
  /\ left'   = [left EXCEPT ![c] = Notifiers]
  /\ UNCHANGED <<now, lastAlert, said>>

\* dispatch: one notifier has the message, or failed to send it.
Send(c) ==
  /\ left[c] > 0
  /\ left' = [left EXCEPT ![c] = @ - 1]
  /\ UNCHANGED <<now, lastAlert, active, said>>

Tick ==
  /\ now < MaxTime
  /\ now' = now + 1
  /\ UNCHANGED <<lastAlert, active, left, said>>

Next == (\E c \in Callers : Alert(c) \/ Resolve(c) \/ Send(c)) \/ Tick

Spec == Init /\ [][Next]_vars

-----------------------------------------------------------------------------
(* Properties *)

TypeOK ==
  /\ now       \in 0..MaxTime
  /\ lastAlert \in [Keys -> {Never} \cup (0..MaxTime)]
  /\ active    \subseteq Keys
  /\ left      \in [Callers -> 0..Notifiers]
  /\ said      \in [Keys -> Seq(0..MaxTime)]

\* Two alerts let through for one key are a repeat interval apart, whichever
\* goroutines asked, and however often the incident ended and began again.
AlertsSpaced ==
  \A k \in Keys : \A i, j \in 1..Len(said[k]) :
    i < j => said[k][j] - said[k][i] >= RepeatInterval

\* The clock and lastAlert implement the mute of the incident table, which is all
\* the scheduler's model assumes about them.
Table == INSTANCE IncidentTable WITH muted <- {k \in Keys : TooSoon(k)}
ImplementsTable == Table!Spec
=============================================================================
