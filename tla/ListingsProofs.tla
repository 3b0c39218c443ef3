---------------------------- MODULE ListingsProofs ----------------------------
(***************************************************************************)
(* Listings for any board, any downtimes and any requests.  A walk over    *)
(* the pages is complete because rows that are untied can be sorted in one *)
(* way only (OneOrder), so that each page is cut out of the same list as   *)
(* the pages before it, however often it is sorted anew.                   *)
(***************************************************************************)
EXTENDS Listings, FiniteSetTheorems, WellFoundedInduction, SequenceTheorems, TLAPS

-----------------------------------------------------------------------------
(* Numbers *)

LEMMA Least ==
  ASSUME NEW T \in SUBSET Nat, T # {}
  PROVE  \E x \in T : \A y \in T : x <= y
  <1> DEFINE R == {ss \in Nat \X Nat : ss[1] < ss[2]}
  <1>1. IsWellFoundedOn(R, Nat)
    BY NatLessThanWellFounded DEF OpToRel
  <1> HIDE DEF R
  <1>2. PICK x \in T : \A y \in T : ~(<<y, x>> \in R)
    BY <1>1, WFMin
  <1>3. ASSUME NEW y \in T PROVE x <= y
    <2>1. ~(<<y, x>> \in R) /\ x \in Nat /\ y \in Nat
      BY <1>2
    <2> QED
      BY <2>1 DEF R
  <1> QED
    BY <1>3

-----------------------------------------------------------------------------
(* Sorted lists *)

LEMMA OrdersAre ==
  ASSUME NEW S, IsFiniteSet(S), NEW q \in Orders(S)
  PROVE  /\ q \in Seq(S) /\ Len(q) = Cardinality(S) /\ Len(q) \in Nat /\ DOMAIN q = 1..Len(q)
         /\ IsInjective(q) /\ ToSet(q) = S
         /\ \A i, j \in 1..Len(q) : i < j => ~Sorted(q[j], q[i])
  <1> DEFINE n == Cardinality(S)
             D == 1..n
  <1>1. n \in Nat
    BY FS_CardinalityType
  <1> HIDE DEF n
  <1>2. /\ q \in [D -> S] /\ \A i, j \in D : i # j => q[i] # q[j]
        /\ \A i, j \in DOMAIN q : i < j => ~Sorted(q[j], q[i])
    BY DEF Orders, SetToSeqs, n
  <1>3. q \in Seq(S) /\ Len(q) = n /\ DOMAIN q = D
    BY <1>1, <1>2
  <1>4. IsFiniteSet(D) /\ Cardinality(D) = n
    BY <1>1, FS_Interval
  <1>5. q \in Injection(D, S)
    BY <1>2 DEF Injection, IsInjective
  <1>6. q \in Surjection(D, S)
    BY <1>4, <1>5, FS_Injection DEF n
  <1>7. ToSet(q) = S
    BY <1>2, <1>6 DEF ToSet, Surjection
  <1>8. IsInjective(q)
    BY <1>2 DEF IsInjective
  <1> QED
    BY <1>1, <1>2, <1>3, <1>7, <1>8 DEF n

\* What can be compared can be sorted in one way only.
LEMMA OneOrder ==
  ASSUME NEW S, IsFiniteSet(S), \A x, y \in S : x = y \/ Sorted(x, y) \/ Sorted(y, x),
         NEW p \in Orders(S), NEW q \in Orders(S)
  PROVE  p = q
  <1> DEFINE n == Cardinality(S)
             T == {i \in 1..n : p[i] # q[i]}
  <1>1. /\ p \in Seq(S) /\ Len(p) = n /\ n \in Nat /\ IsInjective(p) /\ ToSet(p) = S
        /\ DOMAIN p = 1..n /\ \A i, j \in 1..n : i < j => ~Sorted(p[j], p[i])
    BY OrdersAre
  <1>2. /\ q \in Seq(S) /\ Len(q) = n /\ IsInjective(q) /\ ToSet(q) = S
        /\ DOMAIN q = 1..n /\ \A i, j \in 1..n : i < j => ~Sorted(q[j], q[i])
    BY OrdersAre
  <1> HIDE DEF n
  <1>3. CASE T = {}
    BY <1>1, <1>2, <1>3
  <1>4. CASE T # {}
    <2>1. PICK i \in T : \A j \in T : i <= j
      <3>1. T \in SUBSET Nat
        OBVIOUS
      <3> HIDE DEF T
      <3> QED
        BY <1>4, <3>1, Least
    <2>2. i \in 1..n /\ p[i] # q[i] /\ p[i] \in S /\ q[i] \in S
      BY <1>1, <1>2, <2>1
    <2>3. PICK j \in 1..n : q[j] = p[i]
      BY <1>2, <2>2 DEF ToSet
    <2>4. PICK k \in 1..n : p[k] = q[i]
      BY <1>1, <2>2 DEF ToSet
    <2>5. ~(j < i) /\ ~(k < i)
      <3>1. ASSUME NEW l \in 1..n, l < i PROVE p[l] = q[l] /\ p[l] # p[i] /\ q[l] # q[i]
        BY <1>1, <1>2, <2>1, <2>2, <3>1 DEF IsInjective
      <3> QED
        BY <2>3, <2>4, <3>1
    <2>6. i < j /\ i < k
      BY <1>1, <2>2, <2>3, <2>4, <2>5
    <2>7. ~Sorted(p[i], q[i]) /\ ~Sorted(q[i], p[i])
      BY <1>1, <1>2, <2>2, <2>3, <2>4, <2>6
    <2> QED
      BY <2>2, <2>7
  <1> QED
    BY <1>3, <1>4

LEMMA Cuts ==
  ASSUME NEW S, NEW q \in Seq(S), NEW m \in 0..Len(q), NEW n \in m..Len(q)
  PROVE  /\ SubSeq(q, m + 1, n) \in Seq(S) /\ SubSeq(q, 1, m) \in Seq(S)
         /\ SubSeq(q, 1, m) \o SubSeq(q, m + 1, n) = SubSeq(q, 1, n)
         /\ SubSeq(q, 1, 0) = <<>> /\ SubSeq(q, 1, Len(q)) = q
  OBVIOUS

-----------------------------------------------------------------------------
(* Types *)

\* What the items of the request's list are.
Items ==
  CASE req.kind = "hosts"     -> Hosts
    [] req.kind = "checks"    -> {k[2] : k \in Has}
    [] req.kind = "details"   -> Has
    [] req.kind = "downtimes" -> Candidates

\* The program's part of the state.
StateOK ==
  /\ rows \in [Has -> Statuses]
  /\ book \subseteq Candidates /\ IsFiniteSet(book)
  /\ req  \in Asked
  /\ at   \in {"idle", "asked", "read", "shown", "refused", "failed"}
  /\ steady \in BOOLEAN

\* What the client has of the answer.
AnswerOK ==
  /\ offset \in Nat /\ total \in Nat
  /\ page \in Seq(Items) /\ seen \in Seq(Items)
  /\ \A i \in DOMAIN marks : marks[i] \subseteq NamesOf(Candidates)

\* A filter that is accepted is empty: no status is written as its constant is
\* once it is in lower case.
LEMMA NoFilter ==
  ASSUME StateOK, Known(req.statuses) PROVE req.statuses = {} /\ Parsed(req.statuses) = {}
  <1>1. req.statuses \in SUBSET STRING
    BY InputsAssumption DEF StateOK, Request
  <1>2. \A v \in req.statuses : FALSE
    BY DEF Known, Lower, Statuses
  <1> QED
    BY <1>1, <1>2 DEF Parsed

LEMMA Requests ==
  ASSUME StateOK
  PROVE  /\ req.kind \in {"hosts", "checks", "details", "downtimes"}
         /\ Count(req.count) \in 1..MaxInt /\ Offset(req.skip) \in 0..MaxInt
         /\ \A r \in Asked : Offset(r.skip) \in 0..MaxInt
  <1>1. Asked \subseteq Request /\ req \in Request /\ MaxInt \in Nat /\ DefaultCount \in 1..MaxInt
    BY InputsAssumption, IntsAssumption DEF StateOK
  <1>2. \A v \in Number : Count(v) \in 1..MaxInt /\ Offset(v) \in 0..MaxInt
    <2> SUFFICES ASSUME NEW v \in Number PROVE Count(v) \in 1..MaxInt /\ Offset(v) \in 0..MaxInt
      OBVIOUS
    <2>1. v = Junk \/ v \in -(MaxInt + 1)..MaxInt
      BY DEF Number
    <2> QED
      BY <1>1, <2>1 DEF Count, Offset
  <1> QED
    BY <1>1, <1>2 DEF Request

\* The list that a handler cuts its page out of.
LEMMA Lists ==
  ASSUME StateOK
  PROVE  /\ IsFiniteSet(Whole) /\ Whole \subseteq Items
         /\ Reads("hosts") /\ Known(req.statuses) =>
              HostSummariesFiltered(Parsed(req.statuses)) \cap req.host = Whole
         /\ Reads("checks") /\ Known(req.statuses) =>
              CheckSummariesFiltered(Parsed(req.statuses)) \cap req.check = Whole
         /\ Reads("details") /\ Known(req.statuses) =>
              RowsOf(Parsed(req.statuses)) \cap (req.host \X req.check) = Whole
         /\ Reads("downtimes") => {e \in book : Wanted(e)} = Whole
  <1>1. IsFiniteSet(Has) /\ IsFiniteSet({k[2] : k \in Has})
    <2>1. IsFiniteSet(Hosts \X Checks)
      BY BoardAssumption, FS_Product
    <2>2. IsFiniteSet(Has)
      BY <2>1, BoardAssumption, FS_Subset
    <2>3. {k[2] : k \in Has} \subseteq Checks
      BY BoardAssumption
    <2> QED
      BY <2>2, <2>3, BoardAssumption, FS_Subset
  <1>2. CASE req.kind = "hosts"
    <2>1. Whole = Hosts \cap req.host /\ Items = Hosts
      BY <1>2 DEF Whole, Items
    <2>2. IsFiniteSet(Whole)
      BY <2>1, BoardAssumption, FS_Intersection
    <2> QED
      BY <1>2, <2>1, <2>2, NoFilter DEF Reads, HostSummariesFiltered
  <1>3. CASE req.kind = "checks"
    <2>1. Whole = {k[2] : k \in Has} \cap req.check /\ Items = {k[2] : k \in Has}
      BY <1>3 DEF Whole, Items
    <2>2. IsFiniteSet(Whole)
      BY <1>1, <2>1, FS_Intersection
    <2>3. CheckSummariesFiltered({}) = {k[2] : k \in Has}
      BY BoardAssumption DEF CheckSummariesFiltered, CheckMatches
    <2> QED
      BY <1>3, <2>1, <2>2, <2>3, NoFilter DEF Reads
  <1>4. CASE req.kind = "details"
    <2>1. Whole = Has \cap (req.host \X req.check) /\ Items = Has
      BY <1>4 DEF Whole, Items
    <2>2. IsFiniteSet(Whole)
      BY <1>1, <2>1, FS_Intersection
    <2> QED
      BY <1>4, <2>1, <2>2, NoFilter DEF Reads, RowsOf
  <1>5. CASE req.kind = "downtimes"
    <2>1. Whole = {e \in book : Wanted(e)} /\ Items = Candidates
      BY <1>5 DEF Whole, Items
    <2>2. IsFiniteSet(Whole)
      <3>1. Whole \subseteq book /\ IsFiniteSet(book)
        BY <2>1 DEF StateOK
      <3> QED
        BY <3>1, FS_Subset
    <2> QED
      BY <1>5, <2>1, <2>2 DEF Reads, StateOK
  <1> QED
    BY <1>2, <1>3, <1>4, <1>5, Requests

-----------------------------------------------------------------------------
(* A walk *)

\* A walk from the first page, through a list that is sorted in one way only.
Comparable == Offset(req.skip) = 0 /\ (req.kind = "downtimes" => steady /\ Untied)

\* Where the page ends that begins at offset.
Upto(q) == IF offset + Count(req.count) > Len(q) THEN Len(q) ELSE offset + Count(req.count)

\* What was seen is where the sorted list begins, and the page is what comes next.
Walk ==
  Comparable =>
    /\ at = "asked" =>
         \/ offset = 0 /\ seen = <<>>
         \/ \E q \in Orders(Whole) : offset <= Len(q) /\ seen = SubSeq(q, 1, offset)
    /\ at = "read" => \E q \in Orders(Whole) :
         /\ offset <= Len(q) /\ seen = SubSeq(q, 1, offset) /\ total = Len(q)
         /\ page = SubSeq(q, offset + 1, Upto(q))
    /\ at = "shown" => \E q \in Orders(Whole) :
         offset <= Len(q) /\ seen = SubSeq(q, 1, Upto(q)) /\ total = Len(q)

IInv == StateOK /\ AnswerOK /\ Walk

LEMMA Total ==
  ASSUME StateOK, Comparable
  PROVE  \A x, y \in Whole : x = y \/ Sorted(x, y) \/ Sorted(y, x)
  <1> SUFFICES ASSUME NEW x \in Whole, NEW y \in Whole
               PROVE x = y \/ Sorted(x, y) \/ Sorted(y, x)
    OBVIOUS
  <1>1. CASE req.kind \in {"hosts", "checks"}
    <2>1. x \in Nat /\ y \in Nat
      BY <1>1, BoardAssumption DEF Whole
    <2>2. (Sorted(x, y) <=> x < y) /\ (Sorted(y, x) <=> y < x)
      BY <1>1 DEF Sorted
    <2> QED
      BY <2>1, <2>2
  <1>2. CASE req.kind = "details"
    <2>1. x \in Nat \X Nat /\ y \in Nat \X Nat
      BY <1>2, BoardAssumption DEF Whole
    <2>2. x = y \/ RowBefore(x, y) \/ RowBefore(y, x)
      BY <2>1 DEF RowBefore
    <2> QED
      BY <1>2, <2>2 DEF Sorted
  <1>3. CASE req.kind = "downtimes"
    <2>1. x \in book /\ y \in book
      BY <1>3 DEF Whole
    <2>2. x = y \/ EntryBefore(x, y) \/ EntryBefore(y, x)
      BY <1>3, <2>1 DEF Comparable, Untied
    <2> QED
      BY <1>3, <2>2 DEF Sorted
  <1> QED
    BY <1>1, <1>2, <1>3, Requests

\* Whatever wraps around, a page that is cut is the one that begins at offset.
LEMMA CutIs ==
  ASSUME StateOK, offset \in Nat, NEW S, NEW q \in Seq(S), NEW then, Cut(q, then)
  PROVE  /\ total' = Len(q)
         /\ \/ at' = "failed" /\ page' = page
            \/ /\ at' = then /\ page' \in Seq(S)
               /\ offset <= Len(q) => /\ Upto(q) \in offset..Len(q)
                                      /\ page' = SubSeq(q, offset + 1, Upto(q))
  <1> DEFINE c     == Count(req.count)
             start == IF offset > Len(q) THEN Len(q) ELSE offset
             sum   == Plus(start, c)
             end   == IF sum > Len(q) THEN Len(q) ELSE sum
  <1>1. Len(q) \in Nat /\ c \in 1..MaxInt /\ MaxInt \in Nat
    BY Requests, IntsAssumption
  <1>2. /\ total' = Len(q)
        /\ \/ ~(0 <= start /\ start <= end) /\ at' = "failed" /\ page' = page
           \/ 0 <= start /\ start <= end /\ at' = then /\ page' = SubSeq(q, start + 1, end)
    BY DEF Cut
  <1>3. ASSUME start <= end
        PROVE  /\ start \in 0..Len(q) /\ end \in start..Len(q)
               /\ offset <= Len(q) => start = offset /\ end = Upto(q)
    <2> HIDE DEF c
    <2>1. start \in 0..Len(q) /\ (offset <= Len(q) => start = offset)
      BY <1>1
    <2> HIDE DEF start
    <2>2. sum = start + c
      BY <1>1, <1>3, <2>1 DEF Plus
    <2> QED
      BY <1>1, <1>3, <2>1, <2>2 DEF Upto, c
  <1>4. ASSUME start <= end PROVE SubSeq(q, start + 1, end) \in Seq(S)
    BY <1>1, <1>3, <1>4, Cuts
  <1> HIDE DEF start, end
  <1> QED
    BY <1>2, <1>3, <1>4

\* A page that is cut is as long as it can be.
LEMMA CutExact ==
  ASSUME StateOK, offset \in Nat, NEW S, NEW q \in Seq(S), NEW then \in {"read", "shown"}, Cut(q, then),
         UNCHANGED <<req, offset>>
  PROVE  PageExact'
  <1> DEFINE c     == Count(req.count)
             start == IF offset > Len(q) THEN Len(q) ELSE offset
             sum   == Plus(start, c)
             end   == IF sum > Len(q) THEN Len(q) ELSE sum
  <1>1. Len(q) \in Nat /\ c \in 1..MaxInt /\ MaxInt \in Nat
    BY Requests, IntsAssumption
  <1>2. /\ total' = Len(q)
        /\ \/ ~(0 <= start /\ start <= end) /\ at' = "failed"
           \/ 0 <= start /\ start <= end /\ at' = then /\ page' = SubSeq(q, start + 1, end)
    BY DEF Cut
  <1>3. start \in 0..Len(q) /\ Lesser(offset, total)' = start
    BY <1>1, <1>2 DEF Lesser
  <1>4. Count(req.count)' = c
    BY DEF Count
  <1> HIDE DEF c, start
  <1>5. CASE start + c > MaxInt
    <2>1. sum < start /\ sum \in Int
      BY <1>1, <1>3, <1>5 DEF Plus
    <2>2. ~(start <= end)
      BY <1>1, <1>3, <2>1
    <2> QED
      BY <1>2, <1>3, <1>4, <1>5, <2>2 DEF PageExact
  <1>6. CASE ~(start + c > MaxInt)
    <2>1. sum = start + c
      BY <1>6 DEF Plus
    <2>2. end \in start..Len(q) /\ end - start = Lesser(c, Len(q) - start)
      BY <1>1, <1>3, <2>1 DEF Lesser
    <2> HIDE DEF end
    <2>3. at' = then /\ page' = SubSeq(q, start + 1, end)
      BY <1>2, <1>3, <2>2
    <2>4. Len(page') = end - start
      BY <1>1, <1>3, <2>2, <2>3
    <2> QED
      BY <1>2, <1>3, <1>4, <2>2, <2>3, <2>4 DEF PageExact
  <1> QED
    BY <1>5, <1>6

\* The list of the page that is to come goes on where the pages so far end.
LEMMA Continues ==
  ASSUME IInv, at = "asked", Comparable, NEW q \in Orders(Whole)
  PROVE  offset <= Len(q) /\ seen = SubSeq(q, 1, offset)
  <1>1. IsFiniteSet(Whole)
    BY Lists DEF IInv
  <1>2. q \in Seq(Whole) /\ Len(q) \in Nat
    BY <1>1, OrdersAre
  <1>3. \A p \in Orders(Whole) : p = q
    BY <1>1, Total, OneOrder DEF IInv
  <1>4. SubSeq(q, 1, 0) = <<>>
    BY <1>2, Cuts
  <1>5. \/ offset = 0 /\ seen = <<>>
        \/ \E p \in Orders(Whole) : offset <= Len(p) /\ seen = SubSeq(p, 1, offset)
    BY DEF IInv, Walk
  <1>6. CASE offset = 0 /\ seen = <<>>
    BY <1>2, <1>4, <1>6
  <1> QED
    BY <1>3, <1>5, <1>6

-----------------------------------------------------------------------------
(* The steps *)

LEMMA Same ==
  ASSUME UNCHANGED <<req, book>>
  PROVE  Whole' = Whole /\ Items' = Items /\ \A S : Orders(S)' = Orders(S)
  <1>1. Whole' = Whole
    BY DEF Whole, Wanted, InScope
  <1>2. Items' = Items
    BY DEF Items
  <1>3. ASSUME NEW S PROVE Orders(S)' = Orders(S)
    BY DEF Orders, Sorted
  <1> QED
    BY <1>1, <1>2, <1>3

\* A handler that reads the board.
LEMMA ReadStep ==
  ASSUME IInv, at = "asked", NEW q \in Orders(Whole), Cut(q, "read"),
         UNCHANGED <<rows, book, req, offset, marks, seen, steady>>
  PROVE  IInv'
  <1>1. /\ Whole' = Whole /\ Items' = Items /\ Orders(Whole)' = Orders(Whole)
        /\ Upto(q)' = Upto(q)
    BY Same DEF Upto
  <1>2. IsFiniteSet(Whole) /\ Whole \subseteq Items
    BY Lists DEF IInv
  <1>3. q \in Seq(Whole) /\ Len(q) \in Nat
    BY <1>2, OrdersAre
  <1>4. /\ total' = Len(q)
        /\ \/ at' = "failed" /\ page' = page
           \/ /\ at' = "read" /\ page' \in Seq(Whole)
              /\ offset <= Len(q) => page' = SubSeq(q, offset + 1, Upto(q))
    BY <1>3, CutIs DEF IInv, AnswerOK
  <1>5. StateOK'
    BY <1>4 DEF IInv, StateOK
  <1>6. AnswerOK'
    <2>1. page' \in Seq(Items)
      BY <1>2, <1>4, SeqMonotonic DEF IInv, AnswerOK
    <2> QED
      BY <1>1, <1>3, <1>4, <2>1 DEF IInv, AnswerOK
  <1>7. Walk'
    <2> SUFFICES ASSUME Comparable, at' = "read"
                 PROVE  \E p \in Orders(Whole) :
                          /\ offset <= Len(p) /\ seen = SubSeq(p, 1, offset) /\ total' = Len(p)
                          /\ page' = SubSeq(p, offset + 1, Upto(p))
      BY <1>1, <1>4 DEF Walk, Comparable, Untied, EntryBefore, RowBefore, Upto
    <2>1. offset <= Len(q) /\ seen = SubSeq(q, 1, offset)
      BY Continues
    <2> QED
      BY <1>4, <2>1
  <1> QED
    BY <1>5, <1>6, <1>7 DEF IInv

LEMMA ReadsStep ==
  ASSUME IInv, ReadHosts \/ ReadChecks \/ ReadDetails PROVE IInv'
  <1>1. /\ at = "asked"
        /\ \E q \in Orders(Whole) : Cut(q, "read")
        /\ UNCHANGED <<rows, book, req, offset, marks, seen, steady>>
    <2>1. CASE ReadHosts
      BY <2>1, Lists DEF IInv, ReadHosts, Reads
    <2>2. CASE ReadChecks
      BY <2>2, Lists DEF IInv, ReadChecks, Reads
    <2>3. CASE ReadDetails
      BY <2>3, Lists DEF IInv, ReadDetails, Reads
    <2> QED
      BY <2>1, <2>2, <2>3
  <1> QED
    BY <1>1, ReadStep

\* The handler that has no marks to look up.
LEMMA DowntimesStep ==
  ASSUME IInv, ListDowntimes PROVE IInv'
  <1>1. PICK q \in Orders(Whole) : Cut(q, "shown")
    BY Lists DEF IInv, ListDowntimes, Reads
  <1>2. /\ at = "asked" /\ seen' = (IF at' = "shown" THEN seen \o page' ELSE seen)
        /\ marks' = <<>> /\ UNCHANGED <<rows, book, req, offset, steady>>
    BY DEF ListDowntimes, Reads
  <1>3. /\ Whole' = Whole /\ Items' = Items /\ Orders(Whole)' = Orders(Whole)
    BY <1>2, Same
  <1>4. IsFiniteSet(Whole) /\ Whole \subseteq Items
    BY Lists DEF IInv
  <1>5. q \in Seq(Whole) /\ Len(q) \in Nat
    BY <1>4, OrdersAre
  <1>6. /\ total' = Len(q)
        /\ \/ at' = "failed" /\ page' = page
           \/ /\ at' = "shown" /\ page' \in Seq(Whole)
              /\ offset <= Len(q) => /\ Upto(q) \in offset..Len(q)
                                     /\ page' = SubSeq(q, offset + 1, Upto(q))
    BY <1>1, <1>5, CutIs DEF IInv, AnswerOK
  <1>7. StateOK'
    BY <1>2, <1>6 DEF IInv, StateOK
  <1>8. AnswerOK'
    <2>1. page' \in Seq(Items)
      BY <1>4, <1>6, SeqMonotonic DEF IInv, AnswerOK
    <2>2. seen' \in Seq(Items)
      BY <1>2, <2>1 DEF IInv, AnswerOK
    <2> QED
      BY <1>2, <1>3, <1>5, <1>6, <2>1, <2>2 DEF IInv, AnswerOK
  <1>9. Walk'
    <2> SUFFICES ASSUME Comparable, at' = "shown"
                 PROVE  \E p \in Orders(Whole) :
                          /\ offset <= Len(p) /\ seen' = SubSeq(p, 1, Upto(p))
                          /\ total' = Len(p)
      BY <1>2, <1>3, <1>6 DEF Walk, Comparable, Untied, EntryBefore, RowBefore, Upto
    <2>1. offset <= Len(q) /\ seen = SubSeq(q, 1, offset) /\ offset \in Nat
      BY <1>1, <1>2, Continues DEF IInv, AnswerOK
    <2>2. Upto(q) \in offset..Len(q) /\ page' = SubSeq(q, offset + 1, Upto(q))
      BY <1>6, <2>1
    <2>3. seen' = SubSeq(q, 1, Upto(q))
      BY <1>2, <1>5, <2>1, <2>2, Cuts
    <2> QED
      BY <1>6, <2>1, <2>3
  <1> QED
    BY <1>7, <1>8, <1>9 DEF IInv

\* A handler that has looked up the marks.
LEMMA MarkStep ==
  ASSUME IInv, NEW kind, NEW names, Mark(kind, names),
         \A i \in DOMAIN names : names[i] \subseteq NamesOf(Candidates)
  PROVE  IInv'
  <1>1. /\ at = "read" /\ at' = "shown" /\ seen' = seen \o page /\ marks' = names
        /\ UNCHANGED <<rows, book, req, offset, total, page, steady>>
    BY DEF Mark
  <1>2. Whole' = Whole /\ Items' = Items /\ Orders(Whole)' = Orders(Whole)
    BY <1>1, Same
  <1>3. StateOK' /\ AnswerOK'
    BY <1>1, <1>2 DEF IInv, StateOK, AnswerOK
  <1>4. Walk'
    <2> SUFFICES ASSUME Comparable
                 PROVE  \E p \in Orders(Whole) :
                          offset <= Len(p) /\ seen' = SubSeq(p, 1, Upto(p)) /\ total = Len(p)
      BY <1>1, <1>2 DEF Walk, Comparable, Untied, EntryBefore, RowBefore, Upto
    <2>1. PICK q \in Orders(Whole) :
            /\ offset <= Len(q) /\ seen = SubSeq(q, 1, offset) /\ total = Len(q)
            /\ page = SubSeq(q, offset + 1, Upto(q))
      BY <1>1 DEF IInv, Walk
    <2>2. q \in Seq(Whole) /\ Len(q) \in Nat
      BY Lists, OrdersAre DEF IInv
    <2>3. offset \in 0..Len(q) /\ Upto(q) \in offset..Len(q)
      BY <2>1, <2>2, Requests DEF IInv, AnswerOK, Upto
    <2>4. SubSeq(q, 1, offset) \o SubSeq(q, offset + 1, Upto(q)) = SubSeq(q, 1, Upto(q))
      <3> DEFINE m == offset
                 n == Upto(q)
      <3> HIDE DEF m, n
      <3>1. m \in 0..Len(q) /\ n \in m..Len(q)
        BY <2>3 DEF m, n
      <3>2. SubSeq(q, 1, m) \o SubSeq(q, m + 1, n) = SubSeq(q, 1, n)
        BY <2>2, <3>1, Cuts
      <3> QED
        BY <3>2 DEF m, n
    <2> QED
      BY <1>1, <2>1, <2>4
  <1> QED
    BY <1>3, <1>4 DEF IInv

LEMMA MarksStep ==
  ASSUME IInv, MarkHosts \/ MarkChecks \/ MarkDetails PROVE IInv'
  <1>1. \A E \in SUBSET book : NamesOf(E) \subseteq NamesOf(Candidates)
    BY DEF IInv, StateOK, NamesOf
  <1>2. /\ IdxGlobal \subseteq NamesOf(Candidates)
        /\ \A h : IdxHost(h) \subseteq NamesOf(Candidates)
        /\ \A h, c : IdxCheck(h, c) \subseteq NamesOf(Candidates)
        /\ \A c : IdxAggregate(c) \subseteq NamesOf(Candidates)
    BY <1>1 DEF IdxGlobal, IdxHost, IdxCheck, IdxAggregate
  <1>3. \A c : FromHosts(c) \subseteq NamesOf(Candidates)
    BY <1>2 DEF FromHosts
  <1>4. CASE MarkHosts
    BY <1>2, <1>4, MarkStep DEF MarkHosts
  <1>5. CASE MarkChecks
    BY <1>2, <1>3, <1>5, MarkStep DEF MarkChecks
  <1>6. CASE MarkDetails
    BY <1>2, <1>6, MarkStep DEF MarkDetails
  <1> QED
    BY <1>4, <1>5, <1>6

LEMMA AskStep ==
  ASSUME IInv, NEW r \in Asked, Ask(r) PROVE IInv'
  <1>1. /\ req' = r /\ offset' = Offset(r.skip) /\ at' = "asked" /\ total' = 0
        /\ page' = <<>> /\ marks' = <<>> /\ seen' = <<>> /\ steady' = TRUE
        /\ UNCHANGED <<rows, book>>
    BY DEF Ask
  <1>2. StateOK' /\ AnswerOK'
    BY <1>1, Requests DEF IInv, StateOK, AnswerOK
  <1>3. Walk'
    BY <1>1 DEF Walk, Comparable
  <1> QED
    BY <1>2, <1>3 DEF IInv

LEMMA NextPageStep ==
  ASSUME IInv, NextPage PROVE IInv'
  <1>1. /\ at = "shown" /\ offset + Count(req.count) < total
        /\ offset' = offset + Count(req.count) /\ at' = "asked"
        /\ UNCHANGED <<rows, book, req, total, page, marks, seen, steady>>
    BY DEF NextPage, More
  <1>2. Whole' = Whole /\ Items' = Items /\ Orders(Whole)' = Orders(Whole)
    BY <1>1, Same
  <1>3. StateOK' /\ AnswerOK'
    BY <1>1, <1>2, Requests, IntsAssumption DEF IInv, StateOK, AnswerOK
  <1>4. Walk'
    <2> SUFFICES ASSUME Comparable
                 PROVE  \E q \in Orders(Whole) : offset' <= Len(q) /\ seen = SubSeq(q, 1, offset')
      BY <1>1, <1>2 DEF Walk, Comparable, Untied, EntryBefore, RowBefore
    <2>1. PICK q \in Orders(Whole) :
            offset <= Len(q) /\ seen = SubSeq(q, 1, Upto(q)) /\ total = Len(q)
      BY <1>1 DEF IInv, Walk
    <2>2. Len(q) \in Nat /\ offset \in Nat /\ Count(req.count) \in Nat
      BY Lists, OrdersAre, Requests, IntsAssumption DEF IInv, AnswerOK
    <2>3. Upto(q) = offset' /\ offset' <= Len(q)
      BY <1>1, <2>1, <2>2 DEF Upto
    <2> QED
      BY <2>1, <2>3
  <1> QED
    BY <1>3, <1>4 DEF IInv

LEMMA RefuseStep ==
  ASSUME IInv, Refuse PROVE IInv'
  <1>1. at' = "refused"
        /\ UNCHANGED <<rows, book, req, offset, total, page, marks, seen, steady>>
    BY DEF Refuse
  <1> QED
    BY <1>1, Same DEF IInv, StateOK, AnswerOK, Walk

\* What reports do not change: the lists are filtered by no status.
LEMMA UpdateStep ==
  ASSUME IInv, NEW k \in Has, NEW s \in Reported, Update(k, s) PROVE IInv'
  <1>1. /\ rows' = [rows EXCEPT ![k] = s]
        /\ UNCHANGED <<book, req, offset, at, total, page, marks, seen, steady>>
    BY DEF Update, answer
  <1>2. Whole' = Whole /\ Items' = Items /\ Orders(Whole)' = Orders(Whole)
    BY <1>1, Same
  <1>3. StateOK' /\ AnswerOK'
    BY <1>1, <1>2, InputsAssumption DEF IInv, StateOK, AnswerOK
  <1>4. Walk'
    BY <1>1, <1>2 DEF IInv, Walk, Comparable, Untied, EntryBefore, RowBefore, Upto
  <1> QED
    BY <1>3, <1>4 DEF IInv

LEMMA BookStep ==
  ASSUME IInv, NEW e \in Candidates, Add(e) \/ Drop(e) PROVE IInv'
  <1>1. /\ book' = book \cup {e} \/ book' = book \ {e}
        /\ steady' = FALSE
        /\ UNCHANGED <<rows, req, offset, at, total, page, marks, seen>>
    BY DEF Add, Drop, answer
  <1>2. Items' = Items
    BY <1>1 DEF Items
  <1>3. IsFiniteSet(book')
    BY <1>1, FS_AddElement, FS_RemoveElement DEF IInv, StateOK
  <1>4. StateOK' /\ AnswerOK'
    BY <1>1, <1>2, <1>3 DEF IInv, StateOK, AnswerOK
  <1>5. Walk'
    <2>1. CASE req.kind = "downtimes"
      BY <1>1, <2>1 DEF Walk, Comparable
    <2>2. CASE req.kind # "downtimes"
      <3>1. Whole' = Whole /\ Orders(Whole)' = Orders(Whole)
        BY <1>1, <2>2, Requests DEF Whole, Orders, Sorted, RowBefore, IInv
      <3>2. Comparable' <=> Comparable
        BY <1>1, <2>2 DEF Comparable
      <3> QED
        BY <1>1, <3>1, <3>2 DEF IInv, Walk, Upto
    <2> QED
      BY <2>1, <2>2
  <1> QED
    BY <1>4, <1>5 DEF IInv

LEMMA InitHolds == Init => IInv
  <1> SUFFICES ASSUME Init PROVE IInv
    OBVIOUS
  <1>1. StateOK /\ AnswerOK
    BY FS_EmptySet DEF Init, StateOK, AnswerOK, Statuses
  <1>2. Walk
    BY DEF Init, Walk
  <1> QED
    BY <1>1, <1>2 DEF IInv

LEMMA StepHolds == IInv /\ [Next]_vars => IInv'
  <1> SUFFICES ASSUME IInv, [Next]_vars PROVE IInv'
    OBVIOUS
  <1>1. CASE UNCHANGED vars
    <2>1. UNCHANGED <<rows, book, req, offset, at, total, page, marks, seen, steady>>
      BY <1>1 DEF vars, answer
    <2>2. Whole' = Whole /\ Items' = Items /\ Orders(Whole)' = Orders(Whole)
      BY <2>1, Same
    <2>3. StateOK' /\ AnswerOK'
      BY <2>1, <2>2 DEF IInv, StateOK, AnswerOK
    <2>4. Walk'
      BY <2>1, <2>2 DEF IInv, Walk, Comparable, Untied, EntryBefore, RowBefore, Upto
    <2> QED
      BY <2>3, <2>4 DEF IInv
  <1> QED
    BY <1>1, AskStep, NextPageStep, RefuseStep, ReadsStep, MarksStep, DowntimesStep,
       UpdateStep, BookStep DEF Next

LEMMA Invariance == Spec => []IInv
  BY InitHolds, StepHolds, PTL DEF Spec

-----------------------------------------------------------------------------
(* Results *)

\* Whatever is asked, a page holds items of the list it is a page of, and marks
\* are names of downtimes (httpserver/server.go, the listing handlers).
THEOREM ListingsTypeCorrect == Spec => []TypeOK
  <1>1. IInv => TypeOK
    <2> SUFFICES ASSUME IInv PROVE TypeOK
      OBVIOUS
    <2>1. ToSet(page) \cup ToSet(seen) \subseteq Items
      BY DEF IInv, AnswerOK, ToSet
    <2>2. ToSet(page) \cup ToSet(seen) \subseteq
            CASE req.kind = "hosts" -> Hosts [] req.kind = "checks" -> Checks
              [] req.kind = "details" -> Has [] req.kind = "downtimes" -> Candidates
      <3>1. {k[2] : k \in Has} \subseteq Checks
        BY BoardAssumption
      <3> QED
        BY <2>1, <3>1, Requests DEF Items, IInv
    <2> QED
      BY <2>2 DEF IInv, StateOK, AnswerOK, TypeOK
  <1> QED
    BY <1>1, Invariance, PTL

\* A walk over all the pages shows every item once (server.go, the cut of each
\* list handler; state/manager.go and downtime/manager.go, their sorts).
THEOREM WalksComplete == Spec => []WalkComplete
  <1>1. IInv => WalkComplete
    <2> SUFFICES ASSUME IInv, at = "shown", ~More, Offset(req.skip) = 0,
                        req.kind = "downtimes" => steady /\ Untied
                 PROVE  IsInjective(seen) /\ ToSet(seen) = Whole
      BY DEF WalkComplete
    <2>1. PICK q \in Orders(Whole) :
            offset <= Len(q) /\ seen = SubSeq(q, 1, Upto(q)) /\ total = Len(q)
      BY DEF IInv, Walk, Comparable
    <2>2. q \in Seq(Whole) /\ Len(q) \in Nat /\ IsInjective(q) /\ ToSet(q) = Whole
      BY Lists, OrdersAre DEF IInv
    <2>3. Upto(q) = Len(q)
      BY <2>1, <2>2, Requests, IntsAssumption DEF More, Upto, IInv, AnswerOK
    <2>4. seen = q
      BY <2>1, <2>2, <2>3, Cuts
    <2> QED
      BY <2>2, <2>4
  <1> QED
    BY <1>1, Invariance, PTL

LEMMA MarksAre ==
  ASSUME IInv, at = "read", MarkHosts \/ MarkChecks \/ MarkDetails, NEW i \in DOMAIN page
  PROVE  marks'[i] = NamesOf({e \in book : Concerns(e, page[i])})
  <1> DEFINE x == page[i]
  <1>1. page \in Seq(Items)
    BY DEF IInv, AnswerOK
  <1>2. x \in Items
    BY <1>1
  <1>3. \A e \in book :
          /\ e.name \in Nat /\ e.host \in Nat /\ e.check \in Nat
          /\ e.host = 0 => e.check = 0
    BY InputsAssumption DEF IInv, StateOK, Entry
  <1>4. CASE MarkHosts
    <2>1. marks'[i] = IdxGlobal \cup IdxHost(x) /\ req.kind = "hosts"
      BY <1>4 DEF MarkHosts, Mark
    <2>2. x \in Hosts /\ x # 0
      BY <1>2, <2>1, BoardAssumption DEF Items
    <2>3. \A e \in book : Concerns(e, x) <=> e.host = 0 \/ (e.host = x /\ e.check = 0)
      <3> SUFFICES ASSUME NEW e \in book
                   PROVE Concerns(e, x) <=> e.host = 0 \/ (e.host = x /\ e.check = 0)
        OBVIOUS
      <3>1. Concerns(e, x) <=> \A c \in Checks \cup {e.check + 1} : Covers(e, <<x, c>>)
        BY <2>1 DEF Concerns
      <3>2. e.check + 1 # 0 /\ e.check + 1 # e.check
        <4>1. e.check \in Nat
          BY <1>3
        <4> QED
          BY <4>1
      <3> QED
        BY <3>1, <3>2 DEF Covers
    <2> QED
      BY <2>1, <2>3 DEF IdxGlobal, IdxHost, NamesOf
  <1>5. CASE MarkChecks
    <2>1. /\ marks'[i] = IdxGlobal \cup IdxAggregate(x) \cup FromHosts(x)
          /\ req.kind = "checks"
      BY <1>5 DEF MarkChecks, Mark
    <2>2. x # 0 /\ \E k \in Has : k[2] = x
      BY <1>2, <2>1, BoardAssumption DEF Items
    <2>3. \A e \in book : Concerns(e, x) <=>
            \/ e.host = 0
            \/ e.host # 0 /\ e.check = x
            \/ \E h \in Hosts : <<h, x>> \in Has /\ e.host = h /\ e.check = 0
      <3> SUFFICES ASSUME NEW e \in book
                   PROVE Concerns(e, x) <=>
                           \/ e.host = 0
                           \/ e.host # 0 /\ e.check = x
                           \/ \E h \in Hosts : <<h, x>> \in Has /\ e.host = h /\ e.check = 0
        OBVIOUS
      <3>1. Concerns(e, x) <=> e.check = x \/ \E k \in Has : k[2] = x /\ Covers(e, k)
        BY <2>1 DEF Concerns
      <3>2. \A k \in Has : k[1] \in Hosts /\ k = <<k[1], k[2]>>
        BY BoardAssumption
      <3> QED
        BY <1>3, <2>2, <3>1, <3>2 DEF Covers
    <2> DEFINE E == {e \in book : \E h \in Hosts : <<h, x>> \in Has /\ e.host = h /\ e.check = 0}
    <2>4. FromHosts(x) = NamesOf(E)
      <3>1. ASSUME NEW n \in FromHosts(x) PROVE n \in NamesOf(E)
        <4>1. PICK h \in Hosts : <<h, x>> \in Has /\ n \in IdxHost(h)
          BY <3>1 DEF FromHosts
        <4>2. PICK e \in book : e.host = h /\ e.check = 0 /\ n = e.name
          BY <4>1 DEF IdxHost, NamesOf
        <4> QED
          BY <4>1, <4>2 DEF NamesOf
      <3>2. ASSUME NEW n \in NamesOf(E) PROVE n \in FromHosts(x)
        <4>1. PICK e \in book, h \in Hosts :
                <<h, x>> \in Has /\ e.host = h /\ e.check = 0 /\ n = e.name
          BY <3>2 DEF NamesOf
        <4>2. n \in IdxHost(h)
          BY <4>1 DEF IdxHost, NamesOf
        <4> QED
          BY <4>1, <4>2 DEF FromHosts
      <3> HIDE DEF E
      <3> QED
        BY <3>1, <3>2
    <2> QED
      BY <2>1, <2>3, <2>4 DEF IdxGlobal, IdxAggregate, NamesOf
  <1>6. CASE MarkDetails
    <2>1. /\ marks'[i] = IdxGlobal \cup IdxHost(x[1]) \cup IdxCheck(x[1], x[2])
          /\ req.kind = "details"
      BY <1>6 DEF MarkDetails, Mark
    <2>2. \A e \in book : Concerns(e, x) <=>
            e.host = 0 \/ (e.host = x[1] /\ e.check = 0) \/ (e.host = x[1] /\ e.check = x[2])
      BY <2>1 DEF Concerns, Covers
    <2> QED
      BY <2>1, <2>2 DEF IdxGlobal, IdxHost, IdxCheck, NamesOf
  <1> QED
    BY <1>4, <1>5, <1>6

\* Items carry the names of exactly the downtimes that keep them quiet (server.go,
\* the index of each list handler, against downtime/manager.go, isActiveLocked).
THEOREM MarksAlwaysTrue == Spec => MarksTrue
  <1> DEFINE A == at = "read" /\ at' = "shown" =>
                    \A i \in DOMAIN page :
                      marks'[i] = NamesOf({e \in book : Concerns(e, page[i])})
  <1>1. IInv /\ [Next]_vars => [A]_vars
    <2> SUFFICES ASSUME IInv, Next, at = "read", at' = "shown"
                 PROVE  MarkHosts \/ MarkChecks \/ MarkDetails
      BY MarksAre
    <2> QED
      BY DEF Next, Ask, NextPage, Refuse, ReadHosts, ReadChecks, ReadDetails, Reads,
             ListDowntimes, Update, Add, Drop, answer
  <1> QED
    BY <1>1, Invariance, PTL DEF Spec, MarksTrue

\* A page of items is as long as it can be, and a handler panics for no other cause
\* than a sum that wraps around (server.go, the cut of each list handler).
THEOREM PagesExact == Spec => []PageExact
  <1>1. Init => PageExact
    BY DEF Init, PageExact
  <1>2. IInv /\ PageExact /\ [Next]_vars => PageExact'
    <2> SUFFICES ASSUME IInv, PageExact, [Next]_vars PROVE PageExact'
      OBVIOUS
    <2>1. CASE ReadHosts \/ ReadChecks \/ ReadDetails \/ ListDowntimes
      <3>1. \E q \in Orders(Whole), then \in {"read", "shown"} : Cut(q, then)
        BY <2>1, Lists DEF IInv, ReadHosts, ReadChecks, ReadDetails, ListDowntimes, Reads
      <3>2. UNCHANGED <<req, offset>>
        BY <2>1 DEF ReadHosts, ReadChecks, ReadDetails, ListDowntimes
      <3>3. \A q \in Orders(Whole) : q \in Seq(Whole)
        BY Lists, OrdersAre DEF IInv
      <3> QED
        BY <3>1, <3>2, <3>3, CutExact DEF IInv, AnswerOK
    <2>2. CASE MarkHosts \/ MarkChecks \/ MarkDetails
      <3>1. at = "read" /\ at' = "shown" /\ UNCHANGED <<req, offset, total, page>>
        BY <2>2 DEF MarkHosts, MarkChecks, MarkDetails, Mark
      <3> QED
        BY <3>1 DEF PageExact
    <2>3. CASE NextPage \/ Refuse \/ \E r \in Asked : Ask(r)
      BY <2>3 DEF NextPage, Refuse, Ask, PageExact
    <2>4. CASE \/ \E k \in Has, s \in Reported : Update(k, s)
               \/ \E e \in Candidates : Add(e) \/ Drop(e)
               \/ UNCHANGED vars
      <3>1. UNCHANGED <<at, req, offset, total, page>>
        BY <2>4 DEF Update, Add, Drop, answer, vars
      <3> QED
        BY <3>1 DEF PageExact
    <2> QED
      BY <2>1, <2>2, <2>3, <2>4 DEF Next
  <1> QED
    BY <1>1, <1>2, Invariance, PTL DEF Spec
==============================================================================
