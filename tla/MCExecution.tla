----------------------------- MODULE MCExecution -----------------------------
(* A small instance of Execution for TLC. *)
EXTENDS Execution

P(declared, length, sound, kind, code) ==
  [declared |-> declared, length |-> length, sound |-> sound, kind |-> kind, code |-> code]

\* Answers of every status; then too short, too long, empty, damaged, and no answer.
MCPackets ==
  {P(2, 2, TRUE, TRUE, c) : c \in Codes} \cup
  {P(3, 2, TRUE, TRUE, "0"), P(1, 2, TRUE, TRUE, "0"), P(0, 0, TRUE, TRUE, "0"),
   P(2, 2, FALSE, TRUE, "0"), P(2, 2, TRUE, FALSE, "0")}
=============================================================================
