--------------------------- MODULE DowntimeProofs ---------------------------
(***************************************************************************)
(* Downtime for any hosts, checks, names, instants and filters: its        *)
(* invariants, and that it implements DowntimeBook.  The invariant         *)
(* PlacedRight carries the whole argument: an answer read from the buckets *)
(* of one check is the answer of the whole book only because every entry   *)
(* is in the one bucket its scope names.  None of it needs the keys to be  *)
(* apart: where two checks share one, the book has them share downtimes.   *)
(* For names that keep the keys apart the book is then one of pairs.       *)
(***************************************************************************)
EXTENDS Downtime, SequenceTheorems, TLAPS

-----------------------------------------------------------------------------
(* The keys.  Where two keys are one string and the hosts are not, the     *)
(* separator of each key lies inside a name of the other: after the host   *)
(* that is shorter, in the longer one, and before the check that goes with *)
(* the longer, in the other.  Names that cannot hold it keep pairs apart.  *)

\* The string k is h, then m, then c.
Glued(k, h, m, c) ==
  /\ Len(k) = Len(h) + Len(m) + Len(c)
  /\ \A i \in 1..Len(h) : k[i] = h[i]
  /\ \A i \in 1..Len(m) : k[Len(h) + i] = m[i]
  /\ \A i \in 1..Len(c) : k[Len(h) + Len(m) + i] = c[i]

LEMMA Joined ==
  ASSUME NEW k \in Seq(Char), NEW c \in Seq(Char)
  PROVE  /\ k \o c \in Seq(Char) /\ Len(k \o c) = Len(k) + Len(c)
         /\ \A i \in 1..Len(k) : (k \o c)[i] = k[i]
         /\ \A i \in 1..Len(c) : (k \o c)[Len(k) + i] = c[i]
  OBVIOUS

LEMMA Places ==
  ASSUME NEW h \in Seq(Char), NEW m \in Seq(Char), NEW c \in Seq(Char),
         NEW k, k = h \o m \o c
  PROVE  Glued(k, h, m, c)
  <1>0. h \o m \in Seq(Char)
    OBVIOUS
  <1>1. PICK n \in Seq(Char) : n = h \o m
    BY <1>0, Zenon
  <1>2. /\ Len(n) = Len(h) + Len(m)
        /\ \A i \in 1..Len(h) : n[i] = h[i]
        /\ \A i \in 1..Len(m) : n[Len(h) + i] = m[i]
        /\ Len(h) \in Nat /\ Len(m) \in Nat
    BY <1>1
  <1>3. k = n \o c
    BY <1>1
  <1>4. /\ Len(k) = Len(n) + Len(c)
        /\ \A i \in 1..Len(n) : k[i] = n[i]
        /\ \A i \in 1..Len(c) : k[Len(n) + i] = c[i]
    BY <1>3, Joined
  <1>5. /\ \A i \in 1..Len(h) : i \in 1..Len(n)
        /\ \A i \in 1..Len(m) : Len(h) + i \in 1..Len(n)
    BY <1>2
  <1> QED
    BY <1>2, <1>4, <1>5 DEF Glued

\* What is after hosts of one length is alike.
LEMMA SameLength ==
  ASSUME NEW m \in Seq(Char), NEW h \in Seq(Char), NEW g \in Seq(Char),
         NEW c \in Seq(Char), NEW d \in Seq(Char), NEW k,
         Glued(k, h, m, c), Glued(k, g, m, d), Len(h) = Len(g)
  PROVE  h = g /\ c = d
  <1>1. \A i \in 1..Len(h) : h[i] = g[i]
    BY DEF Glued
  <1>2. Len(c) = Len(d)
    BY DEF Glued
  <1>3. \A i \in 1..Len(c) : c[i] = d[i]
    BY <1>2 DEF Glued
  <1> QED
    BY <1>1, <1>2, <1>3, SeqEqual

LEMMA SameTotal ==
  ASSUME NEW m \in Seq(Char), NEW h \in Seq(Char), NEW g \in Seq(Char),
         NEW c \in Seq(Char), NEW d \in Seq(Char), NEW k,
         Glued(k, h, m, c), Glued(k, g, m, d)
  PROVE  Len(h) + Len(c) = Len(g) + Len(d)
  <1>1. Len(h) + Len(m) + Len(c) = Len(g) + Len(m) + Len(d)
    BY DEF Glued
  <1>2. /\ Len(h) \in Nat /\ Len(m) \in Nat /\ Len(c) \in Nat
        /\ Len(g) \in Nat /\ Len(d) \in Nat
    OBVIOUS
  <1>3. PICK x \in Nat, z \in Nat : x = Len(h) /\ z = Len(c)
    BY <1>2, Zenon
  <1>4. PICK y \in Nat : y = Len(m)
    BY <1>2, Zenon
  <1>5. PICK u \in Nat, w \in Nat : u = Len(g) /\ w = Len(d)
    BY <1>2, Zenon
  <1>6. x + y + z = u + y + w
    BY <1>1, <1>3, <1>4, <1>5, Zenon
  <1>7. x + z = u + w
    BY <1>6
  <1> QED
    BY <1>3, <1>5, <1>7, Zenon

\* The separator of the key whose host ends first is in the other's host.
LEMMA InsideHost ==
  ASSUME NEW m \in Seq(Char), NEW h \in Seq(Char), NEW g \in Seq(Char),
         NEW c \in Seq(Char), NEW d \in Seq(Char), NEW k,
         Glued(k, h, m, c), Glued(k, g, m, d)
  PROVE  \A i \in 1..Len(m) : Len(h) + i <= Len(g) => g[Len(h) + i] = m[i]
  BY DEF Glued

LEMMA Separators ==
  /\ <<Colon, Colon>> \in Seq(Char) /\ Len(<<Colon, Colon>>) = 2
  /\ <<Colon, Colon>>[1] = Colon /\ <<Colon, Colon>>[2] = Colon
  /\ <<Nul>> \in Seq(Char) /\ Len(<<Nul>>) = 1 /\ <<Nul>>[1] = Nul
  BY CharAssumption

\* Of two different hosts the longer one is not clear, nor is the other's check.
LEMMA NotClear ==
  ASSUME NEW h \in Seq(Char), NEW g \in Seq(Char), NEW c \in Seq(Char), NEW d \in Seq(Char),
         NEW m \in Seq(Char), Len(m) = 2, m[1] = Colon, m[2] = Colon,
         NEW k, Glued(k, h, m, c), Glued(k, g, m, d), Len(h) < Len(g)
  PROVE  ~ClearHost(g) /\ ~ClearCheck(c)
  <1>1. Len(h) \in Nat /\ Len(g) \in Nat /\ Len(c) \in Nat /\ Len(d) \in Nat
    OBVIOUS
  <1>2. Len(h) + Len(c) = Len(g) + Len(d)
    BY SameTotal
  <1>3. \A i \in 1..2 : Len(h) + i <= Len(g) => g[Len(h) + i] = Colon
    BY InsideHost
  <1>4. ASSUME NEW i \in 1..2, NEW j \in 1..Len(c), Len(g) + i = Len(h) + 2 + j
        PROVE  c[j] = Colon
    <2>1. i \in 1..Len(m) /\ Len(g) + i = Len(h) + Len(m) + j /\ m[i] = Colon
      BY <1>4
    <2>2. k[Len(g) + i] = m[i] /\ k[Len(h) + Len(m) + j] = c[j]
      BY <2>1 DEF Glued
    <2> QED
      BY <2>1, <2>2
  <1>5. ~ClearHost(g)
    <2> DEFINE n == Len(h) + 1
    <2>1. n \in 1..Len(g) /\ g[n] = Colon
      BY <1>1, <1>3
    <2>2. n < Len(g) => g[n + 1] = Colon
      BY <1>1, <1>3
    <2> HIDE DEF n
    <2> QED
      BY <2>1, <2>2 DEF ClearHost
  <1>6. ~ClearCheck(c)
    <2> DEFINE n == Len(g) - Len(h)
    <2>1. n \in 1..Len(c) /\ Len(g) + 2 = Len(h) + 2 + n
      BY <1>1, <1>2
    <2>2. c[n] = Colon
      BY <1>4, <2>1
    <2>3. ASSUME n > 1 PROVE c[n - 1] = Colon
      <3>1. n - 1 \in 1..Len(c) /\ Len(g) + 1 = Len(h) + 2 + (n - 1)
        BY <1>1, <2>1, <2>3
      <3> QED
        BY <1>4, <3>1
    <2> HIDE DEF n
    <2> QED
      BY <2>1, <2>2, <2>3 DEF ClearCheck
  <1> QED
    BY <1>5, <1>6

LEMMA NotWithout ==
  ASSUME NEW h \in Seq(Char), NEW g \in Seq(Char), NEW c \in Seq(Char), NEW d \in Seq(Char),
         NEW m \in Seq(Char), Len(m) = 1, m[1] = Nul,
         NEW k, Glued(k, h, m, c), Glued(k, g, m, d), Len(h) < Len(g)
  PROVE  ~Without(g, Nul) /\ ~Without(c, Nul)
  <1>1. Len(h) \in Nat /\ Len(g) \in Nat /\ Len(c) \in Nat /\ Len(d) \in Nat
    OBVIOUS
  <1>2. Len(h) + Len(c) = Len(g) + Len(d)
    BY SameTotal
  <1>3. ~Without(g, Nul)
    <2>1. Len(h) + 1 \in 1..Len(g) /\ Len(h) + 1 <= Len(g) /\ 1 \in 1..Len(m)
      BY <1>1
    <2>2. g[Len(h) + 1] = Nul
      <3>1. \A i \in 1..Len(m) : Len(h) + i <= Len(g) => g[Len(h) + i] = m[i]
        BY InsideHost, Zenon
      <3> QED
        BY <2>1, <3>1, Zenon
    <2> QED
      BY <2>1, <2>2 DEF Without
  <1>4. ~Without(c, Nul)
    <2> DEFINE n == Len(g) - Len(h)
    <2>1. n \in 1..Len(c) /\ Len(g) + 1 = Len(h) + Len(m) + n /\ 1 \in 1..Len(m)
      BY <1>1, <1>2
    <2> HIDE DEF n
    <2>2. k[Len(g) + 1] = m[1] /\ k[Len(h) + Len(m) + n] = c[n]
      BY <2>1 DEF Glued
    <2> QED
      BY <2>1, <2>2 DEF Without
  <1> QED
    BY <1>3, <1>4

LEMMA BuildKeyTells ==
  ASSUME NamesClear, NEW h \in HostNames, NEW g \in HostNames,
         NEW c \in CheckNames, NEW d \in CheckNames, BuildKey(h, c) = BuildKey(g, d)
  PROVE  h = g /\ c = d
  <1>1. /\ h \in Seq(Char) /\ g \in Seq(Char) /\ c \in Seq(Char) /\ d \in Seq(Char)
        /\ Len(h) \in Nat /\ Len(g) \in Nat
    BY NameAssumption
  <1>2. PICK m \in Seq(Char) : m = <<Colon, Colon>> /\ Len(m) = 2 /\ m[1] = Colon /\ m[2] = Colon
    BY Separators
  <1>3. PICK k : k = h \o m \o c /\ k = g \o m \o d
    BY <1>2, Zenon DEF BuildKey
  <1>4. Glued(k, h, m, c) /\ Glued(k, g, m, d)
    BY <1>1, <1>3, Places, Zenon
  <1>5. ~(Len(h) < Len(g)) /\ ~(Len(g) < Len(h))
    BY <1>1, <1>2, <1>4, NotClear, Zenon DEF NamesClear
  <1>6. Len(h) = Len(g)
    BY <1>1, <1>5
  <1> QED
    BY <1>1, <1>4, <1>6, SameLength, Zenon

LEMMA AssignmentKeyTells ==
  ASSUME NamesClear, NEW h \in HostNames, NEW g \in HostNames,
         NEW c \in CheckNames, NEW d \in CheckNames, AssignmentKey(h, c) = AssignmentKey(g, d)
  PROVE  h = g /\ c = d
  <1>1. /\ h \in Seq(Char) /\ g \in Seq(Char) /\ c \in Seq(Char) /\ d \in Seq(Char)
        /\ Len(h) \in Nat /\ Len(g) \in Nat
    BY NameAssumption
  <1>2. PICK m \in Seq(Char) : m = <<Nul>> /\ Len(m) = 1 /\ m[1] = Nul
    BY Separators
  <1>3. PICK k : k = h \o m \o c /\ k = g \o m \o d
    BY <1>2, Zenon DEF AssignmentKey
  <1>4. Glued(k, h, m, c) /\ Glued(k, g, m, d)
    BY <1>1, <1>3, Places, Zenon
  <1>5. ~(Len(h) < Len(g)) /\ ~(Len(g) < Len(h))
    BY <1>1, <1>2, <1>4, NotWithout, Zenon DEF NamesClear
  <1>6. Len(h) = Len(g)
    BY <1>1, <1>5
  <1> QED
    BY <1>1, <1>4, <1>6, SameLength, Zenon

\* No pair has the key of the downtimes of everything, whatever the names.
LEMMA NotGlobal ==
  ASSUME NEW h \in HostNames, NEW c \in CheckNames
  PROVE  BuildKey(h, c) # GlobalKey
  <1>1. h \in Seq(Char) /\ h # <<>> /\ c \in Seq(Char)
    BY NameAssumption
  <1>2. Len(h) \in Nat \ {0} /\ Len(c) \in Nat
    BY <1>1
  <1>3. Len(BuildKey(h, c)) = Len(h) + 2 + Len(c)
    BY <1>1, Places, Separators DEF BuildKey, Glued
  <1>4. Len(GlobalKey) = 2
    BY DEF GlobalKey
  <1>5. Len(BuildKey(h, c)) # 2
    BY <1>2, <1>3
  <1> QED
    BY <1>4, <1>5

\* The keys of different pairs are apart in every map as soon as no hostname ends
\* in a colon or has two in a row (localhost:5666 does neither), or no check begins
\* with a colon or has two in a row; and no hostname, or no check, has a NUL.
THEOREM KeysAreApart == NamesClear => KeysApart
  <1> SUFFICES ASSUME NamesClear, NEW p \in Pairs, NEW q \in Pairs
               PROVE  /\ BuildKey(p[1], p[2]) = BuildKey(q[1], q[2]) => p = q
                      /\ AssignmentKey(p[1], p[2]) = AssignmentKey(q[1], q[2]) => p = q
                      /\ BuildKey(p[1], p[2]) # GlobalKey
    BY DEF KeysApart
  <1>1. /\ p = <<p[1], p[2]>> /\ p[1] \in HostNames /\ p[2] \in CheckNames
        /\ q = <<q[1], q[2]>> /\ q[1] \in HostNames /\ q[2] \in CheckNames
    BY DEF Pairs
  <1>2. BuildKey(p[1], p[2]) # GlobalKey
    BY <1>1, NotGlobal
  <1>3. BuildKey(p[1], p[2]) = BuildKey(q[1], q[2]) => p = q
    BY <1>1, BuildKeyTells
  <1>4. AssignmentKey(p[1], p[2]) = AssignmentKey(q[1], q[2]) => p = q
    BY <1>1, AssignmentKeyTells
  <1> QED
    BY <1>2, <1>3, <1>4

-----------------------------------------------------------------------------
(* The manager *)

IInv == TypeOK /\ PlacedRight /\ UniqueNames

-----------------------------------------------------------------------------
(* The operators *)

\* What the maps need of their keys.
LEMMA KeyFacts ==
  /\ GlobalKey \in EntryKeys
  /\ \A h \in Hosts, c \in Checks : BuildKey(h, c) \in EntryKeys \ {GlobalKey}
  <1>1. ASSUME NEW h \in Hosts, NEW c \in Checks PROVE BuildKey(h, c) # GlobalKey
    BY HostsAndChecksAssumption, NotGlobal
  <1> QED
    BY <1>1 DEF EntryKeys

LEMMA UnionOf ==
  ASSUME NEW F, NEW S, NEW e
  PROVE  e \in UNION {F[k] : k \in S} <=> \E k \in S : e \in F[k]
  <1>1. ASSUME e \in UNION {F[k] : k \in S} PROVE \E k \in S : e \in F[k]
    <2>1. PICK x \in {F[k] : k \in S} : e \in x
      BY <1>1
    <2>2. PICK k \in S : x = F[k]
      BY <2>1
    <2> QED
      BY <2>1, <2>2
  <1>2. ASSUME NEW k \in S, e \in F[k] PROVE e \in UNION {F[j] : j \in S}
    <2>1. F[k] \in {F[j] : j \in S}
      OBVIOUS
    <2> QED
      BY <1>2, <2>1
  <1> QED
    BY <1>1, <1>2

LEMMA Membership ==
  \A e : e \in AllEntries <=> \/ \E k \in EntryKeys : e \in entries[k]
                              \/ \E h \in Hosts : e \in hostEntries[h]
  BY UnionOf, Zenon DEF AllEntries

LEMMA MembershipNext ==
  \A e : e \in AllEntries' <=> \/ \E k \in EntryKeys : e \in entries'[k]
                               \/ \E h \in Hosts : e \in hostEntries'[h]
  BY UnionOf, Zenon DEF AllEntries

LEMMA NewEntryType ==
  ASSUME NEW h \in OptHost, NEW c \in OptCheck, NEW n \in Names, NEW from \in Nat, NEW to \in Nat
  PROVE  /\ NewEntry(h, c, n, from, to) \in Entry
         /\ NewEntry(h, c, n, from, to).host = None => NewEntry(h, c, n, from, to).check = None
         /\ NewEntry(h, c, n, from, to).name = n
  BY DEF NewEntry, Entry, OptHost, OptCheck

\* Storing an entry adds it to the book and places it right.
LEMMA PutAdds ==
  ASSUME TypeOK, PlacedRight, NEW e \in Entry, e.host = None => e.check = None, Put(e)
  PROVE  /\ entries' \in [EntryKeys -> SUBSET Entry]
         /\ hostEntries' \in [Hosts -> SUBSET Entry]
         /\ PlacedRight'
         /\ AllEntries' = AllEntries \cup {e}
  <1> USE KeyFacts DEF TypeOK, PlacedRight
  <1>1. CASE e.host = None
    <2>1. /\ entries' = [entries EXCEPT ![GlobalKey] = @ \cup {e}]
          /\ hostEntries' = hostEntries
      BY <1>1 DEF Put
    <2> QED
      BY <1>1, <2>1, Membership, MembershipNext
  <1>2. CASE e.host # None /\ e.check = None
    <2>1. /\ hostEntries' = [hostEntries EXCEPT ![e.host] = @ \cup {e}]
          /\ entries' = entries
          /\ e.host \in Hosts
      BY <1>2 DEF Put, Entry, OptHost
    <2> QED
      BY <1>2, <2>1, Membership, MembershipNext
  <1>3. CASE e.host # None /\ e.check # None
    <2>1. /\ entries' = [entries EXCEPT ![BuildKey(e.host, e.check)] = @ \cup {e}]
          /\ hostEntries' = hostEntries
          /\ e.host \in Hosts /\ e.check \in Checks
      BY <1>3 DEF Put, Entry, OptHost, OptCheck
    <2>2. BuildKey(e.host, e.check) \in EntryKeys
      BY <2>1
    <2> QED
      BY <1>3, <2>1, <2>2, Membership, MembershipNext
  <1> QED
    BY <1>1, <1>2, <1>3

\* Taking an entry out of its bucket takes it out of the book: no other has it.
LEMMA TakeFromEntriesTakes ==
  ASSUME TypeOK, PlacedRight, NEW k \in EntryKeys, NEW e \in entries[k], TakeFromEntries(k, e)
  PROVE  /\ entries' \in [EntryKeys -> SUBSET Entry]
         /\ hostEntries' \in [Hosts -> SUBSET Entry]
         /\ PlacedRight'
         /\ AllEntries' = AllEntries \ {e}
  <1>1. /\ entries' = [entries EXCEPT ![k] = @ \ {e}]
        /\ hostEntries' = hostEntries
    BY DEF TakeFromEntries
  <1>2. \/ k = GlobalKey /\ e.host = None /\ e.check = None
        \/ e.host # None /\ e.check # None /\ k = BuildKey(e.host, e.check)
    BY DEF PlacedRight
  <1>3. ASSUME NEW j \in EntryKeys, e \in entries[j] PROVE j = k
    <2>1. \/ j = GlobalKey /\ e.host = None /\ e.check = None
          \/ e.host # None /\ e.check # None /\ j = BuildKey(e.host, e.check)
      BY <1>3 DEF PlacedRight
    <2> QED
      BY <1>2, <2>1
  <1>4. ASSUME NEW h \in Hosts PROVE e \notin hostEntries[h]
    <2>1. e \in hostEntries[h] => e.host \in Hosts /\ e.check = None
      BY DEF PlacedRight
    <2> QED
      BY <1>2, <2>1, EntryNoneAssumption
  <1> QED
    BY <1>1, <1>3, <1>4, Membership, MembershipNext DEF TypeOK, PlacedRight

LEMMA TakeFromHostTakes ==
  ASSUME TypeOK, PlacedRight, NEW h \in Hosts, NEW e \in hostEntries[h], TakeFromHost(h, e)
  PROVE  /\ entries' \in [EntryKeys -> SUBSET Entry]
         /\ hostEntries' \in [Hosts -> SUBSET Entry]
         /\ PlacedRight'
         /\ AllEntries' = AllEntries \ {e}
  <1> USE DEF TypeOK, PlacedRight
  <1>1. /\ hostEntries' = [hostEntries EXCEPT ![h] = @ \ {e}]
        /\ entries' = entries
    BY DEF TakeFromHost
  <1>2. \A j \in Hosts : e \in hostEntries[j] => j = h
    OBVIOUS
  <1>3. \A k \in EntryKeys : e \notin entries[k]
    <2>1. e.host # None /\ e.check = None
      BY EntryNoneAssumption
    <2> QED
      BY <2>1
  <1> QED
    BY <1>1, <1>2, <1>3, Membership, MembershipNext

\* Losing entries, in any bucket, disturbs neither placement nor names.
LEMMA Shrinking ==
  ASSUME IInv,
         \A k \in EntryKeys : entries'[k] \subseteq entries[k],
         \A h \in Hosts : hostEntries'[h] \subseteq hostEntries[h]
  PROVE  PlacedRight' /\ UniqueNames' /\ AllEntries' \subseteq AllEntries
  <1>1. AllEntries' \subseteq AllEntries
    BY Membership, MembershipNext
  <1>2. UniqueNames'
    BY <1>1 DEF IInv, UniqueNames
  <1>3. PlacedRight'
    BY DEF IInv, PlacedRight
  <1> QED
    BY <1>1, <1>2, <1>3

LEMMA NameExistsIsNameTaken == \A n : NameExists(n) <=> Book!NameTaken(n)
  BY Membership DEF NameExists, Named, Book!NameTaken

LEMMA KeyOf == \A h \in Hosts, c \in Checks : Key[<<h, c>>] = BuildKey(h, c)
  <1> SUFFICES ASSUME NEW h \in Hosts, NEW c \in Checks PROVE Key[<<h, c>>] = BuildKey(h, c)
    OBVIOUS
  <1>1. <<h, c>> \in Hosts \X Checks
    OBVIOUS
  <1> QED
    BY <1>1 DEF Key

\* Each bucket holds exactly the entries of its scope.
LEMMA Buckets ==
  ASSUME IInv
  PROVE  /\ \A e : e \in entries[GlobalKey] <=>
                   e \in AllEntries /\ e.host = None /\ e.check = None
         /\ \A h \in Hosts : \A e : e \in hostEntries[h] <=>
                   e \in AllEntries /\ e.host = h /\ e.check = None
         /\ \A h \in Hosts, c \in Checks : \A e : e \in entries[BuildKey(h, c)] <=>
                   e \in AllEntries /\ Book!OfCheck(e, h, c)
         /\ \A e \in AllEntries : e.host = None => e.check = None
  <1>1. ASSUME NEW k \in EntryKeys, NEW e \in entries[k]
        PROVE  \/ k = GlobalKey /\ e.host = None /\ e.check = None
               \/ /\ e.host \in Hosts /\ e.check \in Checks
                  /\ k = BuildKey(e.host, e.check) /\ k # GlobalKey
    <2>1. CASE e.host # None /\ e.check # None /\ k = BuildKey(e.host, e.check)
      <3>1. e.host \in Hosts /\ e.check \in Checks
        BY <2>1 DEF IInv, TypeOK, Entry, OptHost, OptCheck
      <3>2. BuildKey(e.host, e.check) # GlobalKey
        BY <3>1, KeyFacts
      <3> QED
        BY <2>1, <3>1, <3>2
    <2> QED
      BY <2>1 DEF IInv, PlacedRight
  <1>2. ASSUME NEW h \in Hosts, NEW e \in hostEntries[h]
        PROVE  e.host = h /\ e.check = None /\ h # None
    BY EntryNoneAssumption DEF IInv, PlacedRight
  <1>3. ASSUME NEW e \in AllEntries
        PROVE  \/ e.host = None /\ e.check = None /\ e \in entries[GlobalKey]
               \/ e.host \in Hosts /\ e.check = None /\ e \in hostEntries[e.host]
               \/ /\ e.host \in Hosts /\ e.check \in Checks
                  /\ e \in entries[BuildKey(e.host, e.check)]
    BY <1>1, <1>2, Membership
  <1>4. None \notin Hosts /\ None \notin Checks
    BY EntryNoneAssumption
  <1>5. \A e : e \in entries[GlobalKey] <=> e \in AllEntries /\ e.host = None /\ e.check = None
    <2>1. GlobalKey \in EntryKeys
      BY KeyFacts
    <2>2. ASSUME NEW e \in entries[GlobalKey]
          PROVE  e \in AllEntries /\ e.host = None /\ e.check = None
      BY <1>1, <2>1, <2>2, Membership
    <2>3. ASSUME NEW e \in AllEntries, e.host = None PROVE e \in entries[GlobalKey]
      BY <1>3, <1>4, <2>3
    <2> QED
      BY <2>2, <2>3
  <1>6. \A h \in Hosts : \A e : e \in hostEntries[h] <=>
           e \in AllEntries /\ e.host = h /\ e.check = None
    BY <1>2, <1>3, <1>4, Membership
  <1>7. ASSUME NEW h \in Hosts, NEW c \in Checks, NEW e
        PROVE  e \in entries[BuildKey(h, c)] <=> e \in AllEntries /\ Book!OfCheck(e, h, c)
    <2>1. BuildKey(h, c) \in EntryKeys /\ BuildKey(h, c) # GlobalKey
      BY KeyFacts
    <2>2. Key[<<h, c>>] = BuildKey(h, c)
      BY KeyOf
    <2>3. ASSUME e \in entries[BuildKey(h, c)]
          PROVE  e \in AllEntries /\ Book!OfCheck(e, h, c)
      <3>1. e.host \in Hosts /\ e.check \in Checks /\ BuildKey(h, c) = BuildKey(e.host, e.check)
        BY <1>1, <2>1, <2>3
      <3>2. Key[<<e.host, e.check>>] = BuildKey(e.host, e.check)
        BY <3>1, KeyOf
      <3>3. e \in AllEntries
        BY <2>1, <2>3, Membership
      <3> QED
        BY <1>4, <2>2, <3>1, <3>2, <3>3 DEF Book!OfCheck
    <2>4. ASSUME e \in AllEntries, Book!OfCheck(e, h, c)
          PROVE  e \in entries[BuildKey(h, c)]
      <3>1. /\ e.host \in Hosts /\ e.check \in Checks /\ e \in entries[BuildKey(e.host, e.check)]
            /\ Key[<<e.host, e.check>>] = Key[<<h, c>>]
        BY <1>3, <2>4 DEF Book!OfCheck
      <3>2. Key[<<e.host, e.check>>] = BuildKey(e.host, e.check)
        BY <3>1, KeyOf
      <3> QED
        BY <2>2, <3>1, <3>2
    <2> QED
      BY <2>3, <2>4
  <1>8. \A e \in AllEntries : e.host = None => e.check = None
    BY <1>3, <1>4
  <1> QED
    BY <1>5, <1>6, <1>7, <1>8

\* The entries a query for check c on host h has to look at are in three buckets.
LEMMA CoveredBy ==
  ASSUME IInv, NEW h \in Hosts, NEW c \in Checks, NEW e
  PROVE  e \in AllEntries /\ Book!Covers(e, h, c) <=>
           e \in entries[GlobalKey] \/ e \in hostEntries[h] \/ e \in entries[BuildKey(h, c)]
  BY Buckets DEF Book!Covers

-----------------------------------------------------------------------------
(* Every call keeps the invariant and is a call of the book. *)

\* The book and the manager build entries and answers alike.
LEMMA SameWords ==
  /\ \A h, c, n, from, to : Book!NewEntry(h, c, n, from, to) = NewEntry(h, c, n, from, to)
  /\ \A op, on, ok, items : Book!Answer(op, on, ok, items) = Answer(op, on, ok, items)
  /\ \A n, from, to : Book!Admissible(n, from, to) <=> Admissible(n, from, to)
  <1>1. \A n, from, to : Book!Admissible(n, from, to) <=> Admissible(n, from, to)
    BY NameExistsIsNameTaken, Zenon DEF Admissible, Book!Admissible
  <1> QED
    BY <1>1 DEF Book!NewEntry, NewEntry, Book!Answer, Answer

LEMMA AddImplements ==
  ASSUME IInv, NEW h \in OptHost, NEW c \in OptCheck, NEW n \in OptName,
         NEW from \in Nat, NEW to \in Nat, Add(h, c, n, from, to)
  PROVE  IInv' /\ Book!Add(h, c, n, from, to)
  <1>1. CASE Admissible(n, from, to)
    <2> DEFINE e == NewEntry(h, c, n, from, to)
    <2>1. n \in Names
      BY <1>1 DEF OptName, Admissible
    <2>2. e \in Entry /\ (e.host = None => e.check = None) /\ e.name = n
      BY <2>1, NewEntryType
    <2>3. /\ Put(e) /\ now' = now
          /\ reply' = Answer("add", <<h, c, n>>, TRUE, {e})
      BY <1>1, Zenon DEF Add
    <2> HIDE DEF e
    <2>4. /\ TypeOK' /\ PlacedRight'
          /\ AllEntries' = AllEntries \cup {e}
      BY <2>2, <2>3, PutAdds DEF IInv, TypeOK
    <2>5. ~Book!NameTaken(n)
      BY <1>1, NameExistsIsNameTaken DEF Admissible
    <2>6. UniqueNames'
      BY <2>2, <2>4, <2>5 DEF IInv, UniqueNames, Book!NameTaken
    <2>7. Book!Add(h, c, n, from, to)
      BY <1>1, <2>3, <2>4, SameWords, Zenon DEF Book!Add, e
    <2> QED
      BY <2>4, <2>6, <2>7 DEF IInv
  <1>2. CASE ~Admissible(n, from, to)
    <2>1. /\ UNCHANGED <<entries, hostEntries, now>>
          /\ reply' = Answer("add", <<h, c, n>>, FALSE, {})
      BY <1>2, Zenon DEF Add
    <2>2. AllEntries' = AllEntries
      BY <2>1 DEF AllEntries
    <2>3. IInv'
      BY <2>1, <2>2 DEF IInv, TypeOK, PlacedRight, UniqueNames
    <2> QED
      BY <1>2, <2>1, <2>2, <2>3, SameWords, Zenon DEF Book!Add
  <1> QED
    BY <1>1, <1>2

\* Both ways of taking an entry out keep the invariant.
LEMMA Taking ==
  ASSUME IInv, now' = now, NEW e,
         \/ \E k \in EntryKeys : e \in entries[k] /\ TakeFromEntries(k, e)
         \/ \E h \in Hosts : e \in hostEntries[h] /\ TakeFromHost(h, e)
  PROVE  IInv' /\ e \in AllEntries /\ AllEntries' = AllEntries \ {e}
  <1>1. TypeOK /\ PlacedRight
    BY DEF IInv
  <1>2. /\ entries' \in [EntryKeys -> SUBSET Entry]
        /\ hostEntries' \in [Hosts -> SUBSET Entry]
        /\ PlacedRight'
        /\ AllEntries' = AllEntries \ {e}
    BY <1>1, TakeFromEntriesTakes, TakeFromHostTakes
  <1>3. TypeOK'
    BY <1>1, <1>2 DEF TypeOK
  <1>4. UniqueNames'
    BY <1>2 DEF IInv, UniqueNames
  <1> QED
    BY <1>2, <1>3, <1>4, Membership DEF IInv

\* What Remove takes out has the scope it was asked for.
LEMMA RemoveImplements ==
  ASSUME IInv, NEW h \in OptHost, NEW c \in OptCheck, NEW n \in OptName, Remove(h, c, n)
  PROVE  IInv' /\ Book!Remove(h, c, n)
  <1>0. now' = now
    BY DEF Remove
  <1>a. \A e : e \in RemoveBucket(h, c) <=> e \in AllEntries /\ Book!InScope(e, h, c)
    BY Buckets DEF RemoveBucket, OptHost, OptCheck, Book!InScope
  <1>1. ASSUME NEW e \in Named(RemoveBucket(h, c), n),
               \/ h = None /\ TakeFromEntries(GlobalKey, e)
               \/ h # None /\ c = None /\ TakeFromHost(h, e)
               \/ h # None /\ c # None /\ TakeFromEntries(BuildKey(h, c), e),
               reply' = Answer("remove", <<h, c, n>>, TRUE, {e})
        PROVE  IInv' /\ Book!Remove(h, c, n)
    <2>1. /\ e \in RemoveBucket(h, c) /\ e.name = n
          /\ e \in AllEntries /\ Book!InScope(e, h, c)
      BY <1>1, <1>a DEF Named
    <2>2. h # None => h \in Hosts
      BY DEF OptHost
    <2>3. h # None /\ c # None => BuildKey(h, c) \in EntryKeys
      BY KeyFacts DEF OptHost, OptCheck
    <2>4. \/ \E k \in EntryKeys : e \in entries[k] /\ TakeFromEntries(k, e)
          \/ \E j \in Hosts : e \in hostEntries[j] /\ TakeFromHost(j, e)
      <3>1. CASE h = None
        BY <1>1, <2>1, <3>1, KeyFacts DEF RemoveBucket
      <3>2. CASE h # None /\ c = None
        BY <1>1, <2>1, <2>2, <3>2 DEF RemoveBucket
      <3>3. CASE h # None /\ c # None
        BY <1>1, <2>1, <2>3, <3>3 DEF RemoveBucket
      <3> QED
        BY <3>1, <3>2, <3>3
    <2>5. IInv' /\ AllEntries' = AllEntries \ {e}
      BY <1>0, <2>4, Taking
    <2> QED
      BY <1>0, <1>1, <2>1, <2>5, SameWords, Zenon DEF Book!Remove
  <1>2. ASSUME Named(RemoveBucket(h, c), n) = {},
               reply' = Answer("remove", <<h, c, n>>, FALSE, {}),
               UNCHANGED <<entries, hostEntries>>
        PROVE  IInv' /\ Book!Remove(h, c, n)
    <2>1. \A e \in AllEntries : ~(e.name = n /\ Book!InScope(e, h, c))
      BY <1>2, <1>a DEF Named
    <2>2. AllEntries' = AllEntries
      BY <1>2 DEF AllEntries
    <2>3. IInv'
      BY <1>0, <1>2, <2>2 DEF IInv, TypeOK, PlacedRight, UniqueNames
    <2> QED
      BY <1>0, <1>2, <2>1, <2>2, <2>3, SameWords, Zenon DEF Book!Remove
  <1> QED
    BY <1>1, <1>2, Zenon DEF Remove

LEMMA RemoveByNameImplements ==
  ASSUME IInv, NEW n \in OptName, RemoveByName(n)
  PROVE  IInv' /\ Book!RemoveByName(n)
  <1>0. now' = now
    BY DEF RemoveByName
  <1>1. ASSUME NEW e, e.name = n, reply' = Answer("removeByName", <<n>>, TRUE, {e}),
               \/ \E k \in EntryKeys : e \in entries[k] /\ TakeFromEntries(k, e)
               \/ \E h \in Hosts : e \in hostEntries[h] /\ TakeFromHost(h, e)
        PROVE  IInv' /\ Book!RemoveByName(n)
    <2>1. IInv' /\ e \in AllEntries /\ AllEntries' = AllEntries \ {e}
      BY <1>0, <1>1, Taking
    <2> QED
      BY <1>0, <1>1, <2>1, SameWords, Zenon DEF Book!RemoveByName
  <1>2. ASSUME NEW h \in Hosts, NEW e \in Named(hostEntries[h], n), TakeFromHost(h, e),
               reply' = Answer("removeByName", <<n>>, TRUE, {e})
        PROVE  IInv' /\ Book!RemoveByName(n)
    <2>1. e \in hostEntries[h] /\ e.name = n
      BY <1>2 DEF Named
    <2> QED
      BY <1>1, <1>2, <2>1
  <1>3. ASSUME NEW k \in EntryKeys, NEW e \in Named(entries[k], n), TakeFromEntries(k, e),
               reply' = Answer("removeByName", <<n>>, TRUE, {e})
        PROVE  IInv' /\ Book!RemoveByName(n)
    <2>1. e \in entries[k] /\ e.name = n
      BY <1>3 DEF Named
    <2> QED
      BY <1>1, <1>3, <2>1
  <1>4. ASSUME ~NameExists(n), reply' = Answer("removeByName", <<n>>, FALSE, {}),
               UNCHANGED <<entries, hostEntries>>
        PROVE  IInv' /\ Book!RemoveByName(n)
    <2>1. AllEntries' = AllEntries
      BY <1>4 DEF AllEntries
    <2>2. IInv'
      BY <1>0, <1>4, <2>1 DEF IInv, TypeOK, PlacedRight, UniqueNames
    <2> QED
      BY <1>0, <1>4, <2>1, <2>2, NameExistsIsNameTaken, SameWords, Zenon DEF Book!RemoveByName
  <1> QED
    BY <1>2, <1>3, <1>4, Zenon DEF RemoveByName

\* Sweeping buckets forgets expired entries only.
LEMMA Sweeping ==
  ASSUME IInv, now' = now,
         entries' \in [EntryKeys -> SUBSET Entry], hostEntries' \in [Hosts -> SUBSET Entry],
         \A k \in EntryKeys : entries'[k] \in {entries[k], Swept(entries[k])},
         \A h \in Hosts : hostEntries'[h] \in {hostEntries[h], Swept(hostEntries[h])}
  PROVE  IInv' /\ Book!Forget
  <1>1. /\ \A k \in EntryKeys : entries'[k] \subseteq entries[k]
        /\ \A h \in Hosts : hostEntries'[h] \subseteq hostEntries[h]
    BY DEF Swept
  <1>2. TypeOK'
    BY DEF IInv, TypeOK
  <1>3. IInv' /\ AllEntries' \subseteq AllEntries
    BY <1>1, <1>2, Shrinking DEF IInv
  <1>4. ASSUME NEW e \in AllEntries, e \notin AllEntries' PROVE Expired(e, now)
    <2>1. CASE \E k \in EntryKeys : e \in entries[k]
      BY <1>4, <2>1, MembershipNext DEF Swept
    <2>2. CASE \E h \in Hosts : e \in hostEntries[h]
      BY <1>4, <2>2, MembershipNext DEF Swept
    <2> QED
      BY <1>4, <2>1, <2>2, Membership
  <1>5. \A e : Book!Expired(e, now) <=> Expired(e, now)
    BY DEF Book!Expired, Expired
  <1> QED
    BY <1>3, <1>4, <1>5 DEF Book!Forget

LEMMA ActiveImplements ==
  ASSUME IInv, NEW h \in Hosts, NEW c \in Checks, Active(h, c)
  PROVE  IInv' /\ Book!IsActive(h, c)
  <1> DEFINE k == BuildKey(h, c)
  <1>1. k \in EntryKeys /\ GlobalKey \in EntryKeys
    <2>1. <<h, c>> \in Hosts \X Checks
      OBVIOUS
    <2> QED
      BY <2>1, KeyFacts
  <1>2. \A bucket \in SUBSET Entry : Swept(bucket) \in SUBSET Entry
    BY DEF Swept
  <1>3. /\ entries' \in [EntryKeys -> SUBSET Entry]
        /\ hostEntries' \in [Hosts -> SUBSET Entry]
        /\ \A j \in EntryKeys : entries'[j] \in {entries[j], Swept(entries[j])}
        /\ \A j \in Hosts : hostEntries'[j] \in {hostEntries[j], Swept(hostEntries[j])}
    BY <1>1, <1>2 DEF Active, IInv, TypeOK
  <1>4. /\ now' = now
        /\ reply' = Answer("active", <<h, c>>, Holds(entries[GlobalKey]) \/
                              Holds(hostEntries[h]) \/ Holds(entries[k]), {})
    BY DEF Active
  <1>5. \A e : Book!InForce(e, now) <=> InForce(e, now)
    BY DEF Book!InForce, InForce
  <1>6. (Holds(entries[GlobalKey]) \/ Holds(hostEntries[h]) \/ Holds(entries[k]))
           = Book!InDowntime(h, c)
    BY <1>5, CoveredBy DEF Holds, Book!InDowntime
  <1>7. IInv' /\ Book!Forget
    BY <1>3, <1>4, Sweeping
  <1> QED
    BY <1>4, <1>6, <1>7, SameWords DEF Book!IsActive

LEMMA ListImplements ==
  ASSUME IInv, NEW f \in Filters, List(f)
  PROVE  IInv' /\ Book!List(f)
  <1>1. /\ now' = now
        /\ entries' = [k \in EntryKeys |-> Swept(entries[k])]
        /\ hostEntries' = [h \in Hosts |-> Swept(hostEntries[h])]
        /\ reply' = Answer("list", <<f>>, TRUE, {e \in Swept(AllEntries) : Matches(f, e)})
    BY DEF List
  <1>2. IInv'
    BY <1>1, Sweeping DEF Swept, IInv, TypeOK
  <1>3. AllEntries' = Swept(AllEntries)
    BY <1>1, Membership, MembershipNext DEF Swept
  <1>4. Swept(AllEntries) = {e \in AllEntries : ~Book!Expired(e, now)}
    BY DEF Swept, Book!Expired, Expired
  <1>5. {e \in AllEntries' : Book!Matches(f, e)} = {e \in Swept(AllEntries) : Matches(f, e)}
    BY <1>3 DEF Book!Matches, Matches
  <1> QED
    BY <1>1, <1>2, <1>3, <1>4, <1>5, SameWords, Zenon DEF Book!List

LEMMA TickImplements ==
  ASSUME IInv, Tick
  PROVE  IInv' /\ Book!Tick
  <1>1. /\ now < MaxTime /\ now' = now + 1 /\ reply' = Idle
        /\ UNCHANGED <<entries, hostEntries>>
    BY DEF Tick
  <1>2. AllEntries' = AllEntries
    BY <1>1 DEF AllEntries
  <1>3. IInv'
    BY <1>1, <1>2, TimeAssumption DEF IInv, TypeOK, PlacedRight, UniqueNames
  <1>4. Book!Idle = Idle
    BY DEF Book!Idle, Idle
  <1> QED
    BY <1>1, <1>2, <1>3, <1>4 DEF Book!Tick

LEMMA InitImplements == Init => IInv /\ Book!Init
  <1> SUFFICES ASSUME Init PROVE IInv /\ Book!Init
    OBVIOUS
  <1>1. TypeOK /\ PlacedRight
    BY TimeAssumption DEF Init, TypeOK, PlacedRight
  <1>2. AllEntries = {}
    BY Membership DEF Init
  <1>3. Book!Idle = Idle
    BY DEF Book!Idle, Idle
  <1> QED
    BY <1>1, <1>2, <1>3 DEF Init, IInv, UniqueNames, Book!Init

LEMMA StepImplements == IInv /\ [Next]_vars => IInv' /\ [Book!Next]_(Book!vars)
  <1> SUFFICES ASSUME IInv, [Next]_vars PROVE IInv' /\ [Book!Next]_(Book!vars)
    OBVIOUS
  <1> USE DEF Book!Next, OptHost, OptCheck, OptName, Book!OptHost, Book!OptCheck, Book!OptName
  <1>1. ASSUME NEW span \in Spans PROVE span[1] \in Nat /\ span[2] \in Nat
    BY TimeAssumption
  <1>2. ASSUME NEW h \in OptHost, NEW c \in OptCheck, NEW n \in OptName, Remove(h, c, n)
        PROVE  IInv' /\ Book!Next
    BY <1>2, RemoveImplements
  <1>3. ASSUME NEW h \in OptHost, NEW c \in OptCheck, NEW n \in OptName,
               NEW span \in Spans, Add(h, c, n, span[1], span[2])
        PROVE  IInv' /\ Book!Next
    BY <1>1, <1>3, AddImplements
  <1>5. ASSUME NEW n \in OptName, RemoveByName(n) PROVE IInv' /\ Book!Next
    BY <1>5, RemoveByNameImplements
  <1>7. ASSUME NEW h \in Hosts, NEW c \in Checks, Active(h, c) PROVE IInv' /\ Book!Next
    BY <1>7, ActiveImplements
  <1>8. ASSUME NEW f \in Filters, List(f) PROVE IInv' /\ Book!Next
    BY <1>8, ListImplements
  <1>9. CASE Tick
    BY <1>9, TickImplements
  <1>10. CASE UNCHANGED vars
    <2>1. AllEntries' = AllEntries
      BY <1>10 DEF AllEntries, vars
    <2> QED
      BY <1>10, <2>1 DEF vars, IInv, TypeOK, PlacedRight, UniqueNames, Book!vars
  <1> QED
    BY <1>2, <1>3, <1>5, <1>7, <1>8, <1>9, <1>10 DEF Next

LEMMA Invariance == Spec => []IInv
  <1>1. Init => IInv
    BY InitImplements
  <1>2. IInv /\ [Next]_vars => IInv'
    BY StepImplements
  <1> QED
    BY <1>1, <1>2, PTL DEF Spec

-----------------------------------------------------------------------------

\* The maps keep their types, and the clock its bound.
THEOREM TypeCorrect == Spec => []TypeOK
  <1>1. IInv => TypeOK
    BY DEF IInv
  <1> QED
    BY Invariance, <1>1, PTL

\* Add, Remove, RemoveByName and the sweeps leave every entry where the lookups
\* of its scope find it.
THEOREM EntriesPlacedRight == Spec => []PlacedRight
  <1>1. IInv => PlacedRight
    BY DEF IInv
  <1> QED
    BY Invariance, <1>1, PTL

\* Over all scopes at most one entry has a given name.
THEOREM NamesUnique == Spec => []UniqueNames
  <1>1. IInv => UniqueNames
    BY DEF IInv
  <1> QED
    BY Invariance, <1>1, PTL

\* The two maps with their keys and their sweeping implement one flat book.
THEOREM BookImplemented == Spec => ImplementsBook
  <1>1. Init => Book!Init
    BY InitImplements
  <1>2. IInv /\ [Next]_vars => [Book!Next]_(Book!vars)
    BY StepImplements
  <1> QED
    BY Invariance, <1>1, <1>2, PTL DEF Spec, ImplementsBook, Book!Spec

-----------------------------------------------------------------------------
(* Names that keep the keys apart *)

ByPair == INSTANCE DowntimeBook WITH book <- AllEntries, Key <- [p \in Hosts \X Checks |-> p]

\* Where the keys are apart, having the key of a pair is being of that pair.
LEMMA KeyIsPair ==
  ASSUME KeysApart, TypeOK, NEW e \in AllEntries, NEW h \in Hosts, NEW c \in Checks
  PROVE  Book!OfCheck(e, h, c) <=> ByPair!OfCheck(e, h, c)
  <1>1. CASE e.host = None \/ e.check = None
    BY <1>1 DEF Book!OfCheck, ByPair!OfCheck
  <1>2. CASE e.host # None /\ e.check # None
    <2>1. e.host \in Hosts /\ e.check \in Checks
      BY <1>2, Membership DEF TypeOK, Entry, OptHost, OptCheck
    <2>2. Key[<<h, c>>] = BuildKey(h, c) /\ Key[<<e.host, e.check>>] = BuildKey(e.host, e.check)
      BY <2>1, KeyOf
    <2>3. <<h, c>> \in Pairs /\ <<e.host, e.check>> \in Pairs
      BY <2>1, HostsAndChecksAssumption DEF Pairs
    <2>4. BuildKey(e.host, e.check) = BuildKey(h, c) => <<e.host, e.check>> = <<h, c>>
      BY <2>3 DEF KeysApart
    <2>5. <<h, c>> \in Hosts \X Checks /\ <<e.host, e.check>> \in Hosts \X Checks
      BY <2>1
    <2> QED
      BY <1>2, <2>2, <2>4, <2>5 DEF Book!OfCheck, ByPair!OfCheck
  <1> QED
    BY <1>1, <1>2

LEMMA SameScopes ==
  ASSUME KeysApart, TypeOK, NEW e \in AllEntries
  PROVE  /\ \A h \in Hosts, c \in Checks : Book!Covers(e, h, c) <=> ByPair!Covers(e, h, c)
         /\ \A h \in OptHost, c \in OptCheck : Book!InScope(e, h, c) <=> ByPair!InScope(e, h, c)
  BY KeyIsPair DEF Book!Covers, ByPair!Covers, Book!InScope, ByPair!InScope, OptHost, OptCheck

LEMMA PairStep == KeysApart /\ TypeOK /\ [Book!Next]_(Book!vars) => [ByPair!Next]_(ByPair!vars)
  <1> SUFFICES ASSUME KeysApart, TypeOK, [Book!Next]_(Book!vars)
               PROVE  [ByPair!Next]_(ByPair!vars)
    OBVIOUS
  <1>0. /\ Book!OptHost = OptHost /\ Book!OptCheck = OptCheck /\ Book!OptName = OptName
        /\ ByPair!OptHost = OptHost /\ ByPair!OptCheck = OptCheck /\ ByPair!OptName = OptName
    BY DEF Book!OptHost, Book!OptCheck, Book!OptName, ByPair!OptHost, ByPair!OptCheck,
           ByPair!OptName, OptHost, OptCheck, OptName
  <1>1. ASSUME NEW h \in OptHost, NEW c \in OptCheck, NEW n \in OptName, Book!Remove(h, c, n)
        PROVE  ByPair!Remove(h, c, n)
    BY <1>1, SameScopes DEF Book!Remove, ByPair!Remove, Book!Answer, ByPair!Answer
  <1>2. ASSUME NEW h \in Hosts, NEW c \in Checks, Book!IsActive(h, c)
        PROVE  ByPair!IsActive(h, c)
    <2>1. Book!InDowntime(h, c) = ByPair!InDowntime(h, c)
      BY SameScopes DEF Book!InDowntime, ByPair!InDowntime, Book!InForce, ByPair!InForce
    <2>2. Book!Forget => ByPair!Forget
      BY DEF Book!Forget, ByPair!Forget, Book!Expired, ByPair!Expired
    <2>3. \A op, on, ok, items : Book!Answer(op, on, ok, items) = ByPair!Answer(op, on, ok, items)
      BY DEF Book!Answer, ByPair!Answer
    <2> QED
      BY <1>2, <2>1, <2>2, <2>3, Zenon DEF Book!IsActive, ByPair!IsActive
  <1>3. ASSUME NEW h, NEW c, NEW n, NEW from, NEW to, Book!Add(h, c, n, from, to)
        PROVE  ByPair!Add(h, c, n, from, to)
    BY <1>3, Zenon DEF Book!Add, ByPair!Add, Book!Answer, ByPair!Answer, Book!NewEntry,
       ByPair!NewEntry, Book!Admissible, ByPair!Admissible, Book!NameTaken, ByPair!NameTaken
  <1>4. ASSUME NEW n, Book!RemoveByName(n) PROVE ByPair!RemoveByName(n)
    BY <1>4, Zenon DEF Book!RemoveByName, ByPair!RemoveByName, Book!Answer, ByPair!Answer,
       Book!NameTaken, ByPair!NameTaken
  <1>5. ASSUME NEW f, Book!List(f) PROVE ByPair!List(f)
    BY <1>5, Zenon DEF Book!List, ByPair!List, Book!Answer, ByPair!Answer, Book!Expired,
       ByPair!Expired, Book!Matches, ByPair!Matches
  <1>6. ASSUME Book!Tick PROVE ByPair!Tick
    BY <1>6 DEF Book!Tick, ByPair!Tick, Book!Idle, ByPair!Idle
  <1>7. ASSUME UNCHANGED Book!vars PROVE UNCHANGED ByPair!vars
    BY <1>7 DEF Book!vars, ByPair!vars
  <1>8. ASSUME Book!Next PROVE ByPair!Next
    <2>1. CASE \E h \in OptHost, c \in OptCheck, n \in OptName : Book!Remove(h, c, n)
      BY <1>0, <1>1, <2>1 DEF ByPair!Next
    <2>2. CASE \E h \in OptHost, c \in OptCheck, n \in OptName, span \in Spans :
                 Book!Add(h, c, n, span[1], span[2])
      BY <1>0, <1>3, <2>2 DEF ByPair!Next
    <2>3. CASE \E n \in OptName : Book!RemoveByName(n)
      BY <1>0, <1>4, <2>3 DEF ByPair!Next
    <2>4. CASE \E h \in Hosts, c \in Checks : Book!IsActive(h, c)
      BY <1>2, <2>4 DEF ByPair!Next
    <2>5. CASE \E f \in Filters : Book!List(f)
      BY <1>5, <2>5 DEF ByPair!Next
    <2>6. CASE Book!Tick
      BY <1>6, <2>6 DEF ByPair!Next
    <2> QED
      BY <1>0, <1>8, <2>1, <2>2, <2>3, <2>4, <2>5, <2>6 DEF Book!Next
  <1> QED
    BY <1>7, <1>8

\* For such names the maps implement a book in which a check's downtimes are those
\* given for that host and that check, and no other's.
THEOREM BookOfPairs == NamesClear /\ Spec => ByPair!Spec
  <1>1. Book!Init => ByPair!Init
    BY DEF Book!Init, ByPair!Init, Book!Idle, ByPair!Idle
  <1>2. NamesClear => KeysApart
    BY KeysAreApart
  <1>3. NamesClear /\ TypeOK /\ [Book!Next]_(Book!vars) => [ByPair!Next]_(ByPair!vars)
    BY <1>2, PairStep
  <1>4. CASE NamesClear
    <2>1. TypeOK /\ [Book!Next]_(Book!vars) => [ByPair!Next]_(ByPair!vars)
      BY <1>3, <1>4
    <2> QED
      BY <1>1, <2>1, TypeCorrect, BookImplemented, PTL DEF ImplementsBook, Book!Spec, ByPair!Spec
  <1> QED
    BY <1>4
=============================================================================
