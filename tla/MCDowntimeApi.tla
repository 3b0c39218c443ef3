--------------------------- MODULE MCDowntimeApi ---------------------------
(* Small instances of DowntimeApi for TLC: the values of its constants. *)
EXTENDS DowntimeApi, TLC

CONSTANTS h1, h2, h3, r1, r2, r3

BoardOfTwo   == <<h1, h2>>
BoardOfThree == <<h1, h2, h3>>

\* Keys that tell every pair apart.
PairKey == [p \in Hosts \X Checks |-> p]

Everything == [host |-> OptHost, check |-> OptCheck, name |-> OptName]
FilterSet  == {Everything}

\* One that begins later, one that ends before it starts.
SpanSet == {<<1, 3>>, <<1, 0>>}

RequestSymmetry == Permutations(Requests)
=============================================================================
