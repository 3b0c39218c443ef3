----------------------------- MODULE MCMonitor -----------------------------
(* A small instance of Monitor for TLC: the values of its constants. *)
EXTENDS Monitor, TLC

CONSTANTS c1, c2, k1

\* c1 and c2 run the check of one hostname listed twice.
KeyOfValue == c1 :> k1 @@ c2 :> k1
=============================================================================
