---------------------------- MODULE DowntimeBook ----------------------------
(***************************************************************************)
(* What the downtime manager promises: one set of entries, whatever maps   *)
(* they are kept in.  A query answers from the entries in force and may    *)
(* forget entries that have expired, and no others.  Checks are told apart *)
(* by a key: two that share one share their downtimes.                     *)
(***************************************************************************)
EXTENDS DowntimeEntry

CONSTANT Key   \* a function of the pairs of a host and a check

VARIABLES book, now, reply
vars == <<book, now, reply>>

OfCheck(e, h, c) == e.host # None /\ e.check # None /\ Key[<<e.host, e.check>>] = Key[<<h, c>>]

\* The entries a query for check c on host h has to look at.
Covers(e, h, c) == e.host = None \/ (e.host = h /\ e.check = None) \/ OfCheck(e, h, c)

\* The entries that removing from the scope h, c can find.
InScope(e, h, c) ==
  IF h # None /\ c # None THEN OfCheck(e, h, c) ELSE e.host = h /\ e.check = c

InDowntime(h, c) == \E e \in book : Covers(e, h, c) /\ InForce(e, now)

NameTaken(n) == \E e \in book : e.name = n

\* A query drops some of the expired entries, and nothing else.
Forget == book' \in SUBSET book /\ \A e \in book \ book' : Expired(e, now)

Init == book = {} /\ now = 0 /\ reply = Idle

\* Mutant: the span is left to the handlers to look at.
AdmissibleAnySpan(n, from, to) == n # None /\ ~NameTaken(n)

\* What Add lets in.
Admissible(n, from, to) == to > from /\ n # None /\ ~NameTaken(n)

Add(h, c, n, from, to) ==
  /\ \/ /\ reply' = Answer("add", <<h, c, n>>, TRUE, {NewEntry(h, c, n, from, to)})
        /\ Admissible(n, from, to)
        /\ book'  = book \cup {NewEntry(h, c, n, from, to)}
     \/ /\ reply' = Answer("add", <<h, c, n>>, FALSE, {})
        /\ ~Admissible(n, from, to)
        /\ UNCHANGED book
  /\ UNCHANGED now

Remove(h, c, n) ==
  /\ \/ \E e \in book :
          /\ reply' = Answer("remove", <<h, c, n>>, TRUE, {e})
          /\ e.name = n /\ InScope(e, h, c)
          /\ book'  = book \ {e}
     \/ /\ reply' = Answer("remove", <<h, c, n>>, FALSE, {})
        /\ \A e \in book : ~(e.name = n /\ InScope(e, h, c))
        /\ UNCHANGED book
  /\ UNCHANGED now

RemoveByName(n) ==
  /\ \/ \E e \in book :
          /\ reply' = Answer("removeByName", <<n>>, TRUE, {e})
          /\ e.name = n
          /\ book'  = book \ {e}
     \/ /\ reply' = Answer("removeByName", <<n>>, FALSE, {})
        /\ ~NameTaken(n)
        /\ UNCHANGED book
  /\ UNCHANGED now

IsActive(h, c) ==
  /\ reply' = Answer("active", <<h, c>>, InDowntime(h, c), {})
  /\ Forget
  /\ UNCHANGED now

\* A listing forgets everything expired and shows the rest that the filter passes.
List(f) ==
  /\ book'  = {e \in book : ~Expired(e, now)}
  /\ reply' = Answer("list", <<f>>, TRUE, {e \in book' : Matches(f, e)})
  /\ UNCHANGED now

Tick ==
  /\ now < MaxTime
  /\ now' = now + 1
  /\ reply' = Idle
  /\ UNCHANGED book

Next ==
  \/ \E h \in OptHost, c \in OptCheck, n \in OptName :
       Remove(h, c, n) \/ \E span \in Spans : Add(h, c, n, span[1], span[2])
  \/ \E n \in OptName : RemoveByName(n)
  \/ \E h \in Hosts, c \in Checks : IsActive(h, c)
  \/ \E f \in Filters : List(f)
  \/ Tick

Spec == Init /\ [][Next]_vars
=============================================================================
