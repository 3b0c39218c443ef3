--------------------------- MODULE IncidentTable ---------------------------
(***************************************************************************)
(* What the alert manager remembers of the keys: which have an open        *)
(* incident, and which are muted because they were announced too lately.   *)
(* When the mute ends is left open.                                        *)
(***************************************************************************)
CONSTANTS Keys

VARIABLES active, muted
vars == <<active, muted>>

Init == active = {} /\ muted = {}

\* An alert opens the incident and, announced now or just before, mutes the key.
Alert(k) == active' = active \cup {k} /\ muted' = muted \cup {k}

\* A recovery closes an open incident; the key stays muted.
Resolve(k) == k \in active /\ active' = active \ {k} /\ UNCHANGED muted

Elapse == muted' \subseteq muted /\ UNCHANGED active

Next == (\E k \in Keys : Alert(k) \/ Resolve(k)) \/ Elapse
Spec == Init /\ [][Next]_vars
=============================================================================
