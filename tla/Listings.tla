------------------------------ MODULE Listings ------------------------------
(***************************************************************************)
(* What the pages of the API show: the queries of the status board         *)
(* (internal/state/manager.go) and the four listing handlers of            *)
(* internal/httpserver/server.go, with one client who asks for a list page *)
(* by page while checks report and downtimes come and go.                  *)
(*                                                                         *)
(* A handler first reads the board, under its lock, and then asks the      *)
(* downtime manager for the marks: two steps.  Go's maps are iterated in   *)
(* an order of their own each time, and sort.Slice leaves ties as they     *)
(* fall; any order it can end in is possible here.                         *)
(*                                                                         *)
(* Names are numbers, ordered as the strings are; 0 is the empty string.   *)
(***************************************************************************)
EXTENDS Integers, FiniteSets, SequencesExt

CONSTANTS
  Hosts, Checks,  \* the names on the board
  Has,            \* which host has which check
  Reported,       \* bound: the statuses that runs report
  Candidates,     \* bound: the downtime entries that can come
  Asked,          \* bound: the requests that can come
  DefaultCount,   \* defaultPageSize
  MaxInt,         \* the greatest int
  Junk            \* a number parameter that is absent or does not parse

Statuses == {"OK", "WARNING", "CRITICAL", "UNKNOWN"}
Entry    == [name : Nat, host : Nat, check : Nat, from : Nat]

\* The filters are sets of what passes them; count and skip are the parameters.
Number  == (-(MaxInt + 1)..MaxInt) \cup {Junk}
Request ==
  [kind : {"hosts", "checks", "details", "downtimes"}, host : SUBSET Nat, check : SUBSET Nat,
   name : SUBSET Nat, scope : STRING, statuses : SUBSET STRING, count : Number, skip : Number]

ASSUME BoardAssumption ==
  /\ Hosts \subseteq Nat \ {0} /\ Checks \subseteq Nat \ {0} /\ Has \subseteq Hosts \X Checks
  /\ IsFiniteSet(Hosts) /\ IsFiniteSet(Checks)
ASSUME InputsAssumption ==
  /\ Reported \subseteq Statuses
  /\ Candidates \subseteq Entry /\ \A e \in Candidates : e.host = 0 => e.check = 0
  /\ Asked \subseteq Request
ASSUME IntsAssumption   == DefaultCount \in 1..MaxInt /\ MaxInt \in Nat /\ Junk \notin Int

VARIABLES
  rows,    \* Manager.hostChecks: the status of every row
  book,    \* what the downtime manager lists, one entry to a name
  req,     \* the request the client is at
  at,      \* how far the answer is
  offset,  \* the page it is for
  total,   \* how many items the list had
  page,    \* the items of the page
  marks,   \* the downtimes' names shown with each of them
  seen,    \* history: all the items of the pages so far
  steady   \* history: the book has not changed since the first page

answer == <<at, total, page, marks, seen>>
vars   == <<rows, book, req, offset, answer, steady>>

-----------------------------------------------------------------------------
(* Parameters *)

\* Mutant: a negative offset is taken as it is.
OffsetRaw(v) == IF v = Junk THEN 0 ELSE v

\* Mutant: a count is taken as it is.
CountRaw(v) == IF v = Junk THEN DefaultCount ELSE v

Count(v) == IF v = Junk \/ v <= 0 THEN DefaultCount ELSE v
Offset(v) == IF v = Junk \/ v < 0 THEN 0 ELSE v

\* The sum of two ints, which wraps around.
Plus(m, n) == IF m + n > MaxInt THEN m + n - 2 * (MaxInt + 1) ELSE m + n

\* strings.ToLower, on the spellings of a status.
Lower(v) ==
  CASE v = "OK" -> "ok" [] v = "WARNING" -> "warning"
    [] v = "CRITICAL" -> "critical" [] v = "UNKNOWN" -> "unknown" [] OTHER -> v

\* ParseStatus knows a value if its lower-case form is one of the constants.
Known(values)  == \A v \in values : Lower(v) \in Statuses
Parsed(values) == {Lower(v) : v \in values}

KnownScope(scope) == scope \in {"all", "host", "check", "global"}

InScope(e, scope) ==
  \/ scope = "all"
  \/ scope = "host"   /\ e.host # 0 /\ e.check = 0
  \/ scope = "check"  /\ e.host # 0 /\ e.check # 0
  \/ scope = "global" /\ e.host = 0

-----------------------------------------------------------------------------
(* The queries.  F is a status filter; an empty one lets everything pass.  *)

\* Mutant: rows of one host stay in the order of the map.
RowBeforeByHost(k, l) == k[1] < l[1]

RowBefore(k, l) == k[1] < l[1] \/ (k[1] = l[1] /\ k[2] < l[2])

\* Entries are sorted by host, check and start, not by name.
EntryBefore(e, f) ==
  \/ RowBefore(<<e.host, e.check>>, <<f.host, f.check>>)
  \/ e.host = f.host /\ e.check = f.check /\ e.from < f.from

\* How the items of the request's list are sorted: names, rows or entries.
Sorted(x, y) ==
  CASE req.kind \in {"hosts", "checks"} -> x < y
    [] req.kind = "details" -> RowBefore(x, y)
    [] req.kind = "downtimes" -> EntryBefore(x, y)

\* The orders in which a set, taken from a map and sorted, can come out.
Orders(S) == {q \in SetToSeqs(S) : \A i, j \in DOMAIN q : i < j => ~Sorted(q[j], q[i])}

RowsOf(F) == {k \in Has : F = {} \/ rows[k] \in F}

HostMatches(h, F)  == \E k \in Has : k[1] = h /\ rows[k] \in F
CheckMatches(c, F) == \E k \in Has : k[2] = c /\ (F = {} \/ rows[k] \in F)

HostSummariesFiltered(F)  == {h \in Hosts : F = {} \/ HostMatches(h, F)}
CheckSummariesFiltered(F) == {c \in Checks : CheckMatches(c, F)}

-----------------------------------------------------------------------------
(* The marks: buildDowntimeIndex and what the handlers combine of it *)

NamesOf(E) == {e.name : e \in E}

IdxGlobal       == NamesOf({e \in book : e.host = 0})
IdxHost(h)      == NamesOf({e \in book : e.host = h /\ e.check = 0})
IdxCheck(h, c)  == NamesOf({e \in book : e.host = h /\ e.check = c})
IdxAggregate(c) == NamesOf({e \in book : e.host # 0 /\ e.check = c})

\* Mutant: the downtimes of whole hosts are forgotten.
FromHostsNone(c) == {}

\* buildCheckDowntimesFromHosts
FromHosts(c) == UNION {IdxHost(h) : h \in {g \in Hosts : <<g, c>> \in Has}}

-----------------------------------------------------------------------------
(* The handlers *)

Init ==
  /\ rows   = [k \in Has |-> "UNKNOWN"]
  /\ book   = {}
  /\ req    \in Asked
  /\ at     = "idle"
  /\ offset = 0 /\ total = 0
  /\ page   = <<>> /\ marks = <<>> /\ seen = <<>>
  /\ steady = TRUE

\* A request for the first page.
Ask(r) ==
  /\ at \in {"idle", "shown", "refused", "failed"}
  /\ req' = r /\ offset' = Offset(r.skip) /\ at' = "asked"
  /\ page' = <<>> /\ marks' = <<>> /\ seen' = <<>> /\ total' = 0
  /\ steady' = TRUE
  /\ UNCHANGED <<rows, book>>

More == offset + Count(req.count) < total

\* The client turns the page: (page - 1) * perPage.
NextPage ==
  /\ at = "shown" /\ More
  /\ offset' = offset + Count(req.count)
  /\ at' = "asked"
  /\ UNCHANGED <<rows, book, req, total, page, marks, seen, steady>>

\* Cut the page out of the list q.  If offset + count wraps around, the slice's
\* end is before its start, and the handler panics; net/http takes it up, and the
\* client has no answer.
Cut(q, then) ==
  LET start == IF offset > Len(q) THEN Len(q) ELSE offset
      sum   == Plus(start, Count(req.count))
      end   == IF sum > Len(q) THEN Len(q) ELSE sum
  IN  /\ total' = Len(q)
      /\ \/ ~(0 <= start /\ start <= end) /\ at' = "failed" /\ UNCHANGED page
         \/ 0 <= start /\ start <= end /\ at' = then /\ page' = SubSeq(q, start + 1, end)

\* A details request names one host, or none: then its host is all of them.
UnknownHost == req.host # Hosts /\ req.host \cap Hosts = {}

Reads(kind) == at = "asked" /\ req.kind = kind

\* Bad Request, or Not Found for a host that is not on the board.
Refuse ==
  /\ at = "asked"
  /\ \/ req.kind # "downtimes" /\ ~Known(req.statuses)
     \/ req.kind = "details" /\ UnknownHost
     \/ req.kind = "downtimes" /\ ~KnownScope(req.scope)
  /\ at' = "refused"
  /\ UNCHANGED <<rows, book, req, offset, total, page, marks, seen, steady>>

\* The board's part of the three handlers.
ReadHosts ==
  /\ Reads("hosts") /\ Known(req.statuses)
  /\ \E q \in Orders(HostSummariesFiltered(Parsed(req.statuses)) \cap req.host) :
       Cut(q, "read")
  /\ UNCHANGED <<rows, book, req, offset, marks, seen, steady>>

ReadChecks ==
  /\ Reads("checks") /\ Known(req.statuses)
  /\ \E q \in Orders(CheckSummariesFiltered(Parsed(req.statuses)) \cap req.check) :
       Cut(q, "read")
  /\ UNCHANGED <<rows, book, req, offset, marks, seen, steady>>

ReadDetails ==
  /\ Reads("details") /\ Known(req.statuses) /\ ~UnknownHost
  /\ \E q \in Orders(RowsOf(Parsed(req.statuses)) \cap (req.host \X req.check)) :
       Cut(q, "read")
  /\ UNCHANGED <<rows, book, req, offset, marks, seen, steady>>

\* The downtime manager's part: the marks of every item, and the answer is out.
Mark(kind, names) ==
  /\ at = "read" /\ req.kind = kind
  /\ marks' = names
  /\ seen'  = seen \o page
  /\ at'    = "shown"
  /\ UNCHANGED <<rows, book, req, offset, total, page, steady>>

MarkHosts ==
  Mark("hosts", [i \in DOMAIN page |-> IdxGlobal \cup IdxHost(page[i])])

MarkChecks ==
  Mark("checks", [i \in DOMAIN page |-> IdxGlobal \cup IdxAggregate(page[i]) \cup FromHosts(page[i])])

MarkDetails ==
  Mark("details", [i \in DOMAIN page |->
    IdxGlobal \cup IdxHost(page[i][1]) \cup IdxCheck(page[i][1], page[i][2])])

Wanted(e) ==
  InScope(e, req.scope) /\ e.host \in req.host /\ e.check \in req.check /\ e.name \in req.name

\* handleDowntimeList: List, which sorts, and the filters, which keep the order.
ListDowntimes ==
  /\ Reads("downtimes") /\ KnownScope(req.scope)
  /\ \E q \in Orders({e \in book : Wanted(e)}) : Cut(q, "shown")
  /\ seen'  = IF at' = "shown" THEN seen \o page' ELSE seen
  /\ marks' = <<>>
  /\ UNCHANGED <<rows, book, req, offset, steady>>

-----------------------------------------------------------------------------
(* Meanwhile *)

\* state.Update, by a scheduler goroutine.
Update(k, s) ==
  /\ rows' = [rows EXCEPT ![k] = s]
  /\ UNCHANGED <<book, req, offset, answer, steady>>

\* Entries come, under names of their own, are deleted or expire.
Add(e) ==
  /\ e.name \notin NamesOf(book)
  /\ book' = book \cup {e} /\ steady' = FALSE
  /\ UNCHANGED <<rows, req, offset, answer>>

Drop(e) ==
  /\ e \in book
  /\ book' = book \ {e} /\ steady' = FALSE
  /\ UNCHANGED <<rows, req, offset, answer>>

Next ==
  \/ \E r \in Asked : Ask(r)
  \/ NextPage \/ Refuse
  \/ ReadHosts \/ ReadChecks \/ ReadDetails
  \/ MarkHosts \/ MarkChecks \/ MarkDetails
  \/ ListDowntimes
  \/ \E k \in Has, s \in Reported : Update(k, s)
  \/ \E e \in Candidates : Add(e) \/ Drop(e)

Spec == Init /\ [][Next]_vars

-----------------------------------------------------------------------------
(* Properties *)

TypeOK ==
  /\ rows   \in [Has -> Statuses]
  /\ book   \subseteq Candidates
  /\ req    \in Asked
  /\ at     \in {"idle", "asked", "read", "shown", "refused", "failed"}
  /\ offset \in Nat /\ total \in Nat
  /\ ToSet(page) \cup ToSet(seen) \subseteq
       CASE req.kind = "hosts" -> Hosts [] req.kind = "checks" -> Checks
         [] req.kind = "details" -> Has [] req.kind = "downtimes" -> Candidates
  /\ \A i \in DOMAIN marks : marks[i] \subseteq NamesOf(Candidates)
  /\ steady \in BOOLEAN

\* All that the pages of a request are pages of.
Whole ==
  CASE req.kind = "hosts"     -> Hosts \cap req.host
    [] req.kind = "checks"    -> {k[2] : k \in Has} \cap req.check
    [] req.kind = "details"   -> Has \cap (req.host \X req.check)
    [] req.kind = "downtimes" -> {e \in book : Wanted(e)}

Untied == \A e, f \in book : e = f \/ EntryBefore(e, f) \/ EntryBefore(f, e)

\* Turning page after page shows every item once and none twice, although each
\* page is sorted anew, from maps in an order of their own, and checks report in
\* between; for downtimes if the book stays as it is and no two of them tie, for
\* tied entries can change places between two pages.
WalkComplete ==
  /\ at = "shown" /\ ~More /\ Offset(req.skip) = 0
  /\ req.kind = "downtimes" => steady /\ Untied
  => IsInjective(seen) /\ ToSet(seen) = Whole

Lesser(m, n) == IF m <= n THEN m ELSE n

\* Whatever integers a request brings, and however many items there are by now, a
\* page has exactly the items from its offset on that there are, up to its count;
\* the slice is out of range, and the handler panics, only where the sum of the
\* offset, cut down to the length of the list, and the count is no int.
PageExact ==
  LET start == Lesser(offset, total) IN
  /\ at \in {"read", "shown"} => Len(page) = Lesser(Count(req.count), total - start)
  /\ at = "failed" => start + Count(req.count) > MaxInt

\* The entry keeps row <<h, c>> quiet while it is in force: what the scheduler asks.
\* A mark does not tell whether it is in force yet.
Covers(e, k) == e.host = 0 \/ (e.host = k[1] /\ e.check \in {0, k[2]})

\* The entries that a page of that kind owes an item a mark for.  One that names a
\* check does not cover all there can be on a host, even if it has no other now.
Concerns(e, i) ==
  CASE req.kind = "details" -> Covers(e, i)
    [] req.kind = "hosts"   -> \A c \in Checks \cup {e.check + 1} : Covers(e, <<i, c>>)
    [] req.kind = "checks"  -> \/ e.check = i
                               \/ \E k \in Has : k[2] = i /\ Covers(e, k)

\* An item that is shown carries the names of exactly those entries of the book, as
\* it is when the marks are looked up and begun or not, whose scope is the item's:
\* a row has those that cover it, as the scheduler reads them, a host those that
\* cover every check there can be on it, a check those that cover some row of it
\* (or name it at a host that lacks it).
MarksTrue ==
  [][at = "read" /\ at' = "shown" =>
       \A i \in DOMAIN page : marks'[i] = NamesOf({e \in book : Concerns(e, page[i])})]_vars

\* A list of statuses that exist is a filter, not an error.
StatusesAccepted ==
  at = "refused" /\ req.kind = "hosts" => ~(req.statuses \subseteq Statuses)
=============================================================================
