---------------------------- MODULE MCScheduler ----------------------------
(* Small instances of Scheduler for TLC: the values of its constants. *)
EXTENDS Scheduler, TLC

CONSTANTS a1, a2, s1

\* A hostname listed twice: both assignments have the same keys.
Shared == a1 :> s1 @@ a2 :> s1

\* One assignment, for the liveness runs.
Single == a1 :> s1

Twos == [a \in Assignments |-> 2]
=============================================================================
