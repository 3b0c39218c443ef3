----------------------------- MODULE MCSessions -----------------------------
(* A small instance of Sessions for TLC. *)
EXTENDS Sessions, TLC

\* Requests, tokens and browsers are interchangeable.
Symmetry == Permutations(Requests) \cup Permutations(Tokens) \cup Permutations(Browsers)
=============================================================================
