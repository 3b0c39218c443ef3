--------------------------- MODULE DowntimeEntry ---------------------------
(***************************************************************************)
(* Downtime entries (internal/downtime/manager.go, type Entry) and what    *)
(* the manager computes from one entry.  None stands for the empty string: *)
(* an entry without a host is global, one without a check is for a whole   *)
(* host.  CreatedAt, which nothing reads, is left out.                     *)
(***************************************************************************)
EXTENDS Naturals

CONSTANTS
  Hosts, Checks, Names,
  Filters,    \* the filters of List, each the sets of strings its patterns match
  Spans,      \* bound: the <<from, to>> pairs a request can name
  MaxTime,    \* bound: the clock stops here
  None

ASSUME EntryNoneAssumption == None \notin Hosts \cup Checks \cup Names
ASSUME TimeAssumption      == Spans \subseteq Nat \X Nat /\ MaxTime \in Nat

OptHost == Hosts \cup {None}
OptCheck == Checks \cup {None}
OptName == Names \cup {None}

Entry == [name : Names, host : OptHost, check : OptCheck, from : Nat, to : Nat]

\* Mutant: a global entry keeps the check it was asked for.
NewEntryLiteral(h, c, n, from, to) ==
  [name |-> n, host |-> h, check |-> c, from |-> from, to |-> to]

\* Mutant: check and name change places.
NewEntrySwapped(h, c, n, from, to) ==
  [name |-> c, host |-> h, check |-> IF h = None THEN None ELSE n,
   from |-> from, to |-> to]

\* The entry Add stores; a global one carries no check, whatever was asked for.
NewEntry(h, c, n, from, to) ==
  [name |-> n, host |-> h, check |-> IF h = None THEN None ELSE c,
   from |-> from, to |-> to]

\* At the very instant of its end an entry is neither in force nor expired.
InForce(e, t) == e.from <= t /\ t < e.to
Expired(e, t) == t > e.to

Matches(f, e) == e.host \in f.host /\ e.check \in f.check /\ e.name \in f.name

\* The last answer of the manager: what was asked, on what, and the answer.
Idle == [op |-> "idle", on |-> <<>>, ok |-> FALSE, items |-> {}]
Answer(op, on, ok, items) == [op |-> op, on |-> on, ok |-> ok, items |-> items]
=============================================================================
