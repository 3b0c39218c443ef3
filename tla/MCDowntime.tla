----------------------------- MODULE MCDowntime -----------------------------
(* A small instance of Downtime for TLC. *)
EXTENDS Downtime

CONSTANTS a, b

\* "a" and "a:", "b" and ":b": two of the four pairs have one key, "a:::b".
Alphabet == {a, b, Colon, Nul}
HostSet  == {<<a>>, <<a, Colon>>}
CheckSet == {<<b>>, <<Colon, b>>}

ASSUME CollisionAssumption == BuildKey(<<a, Colon>>, <<b>>) = BuildKey(<<a>>, <<Colon, b>>)

Everything == [host |-> OptHost, check |-> OptCheck, name |-> OptName]
FirstHost  == [host |-> {<<a>>}, check |-> OptCheck, name |-> OptName]
FilterSet  == {Everything, FirstHost}

\* In force at once, in force later, and one that ends before it starts.
SpanSet == {<<0, 1>>, <<1, 2>>, <<1, 0>>}
=============================================================================
