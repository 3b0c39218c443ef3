------------------------- MODULE DowntimeApiProofs -------------------------
(***************************************************************************)
(* The downtime handlers for any hosts, checks, names and requests.  What  *)
(* is served one call at a time can be taken back because the book never   *)
(* holds a name twice, and because only requests for a check on every host *)
(* take anything back.                                                     *)
(***************************************************************************)
EXTENDS DowntimeApi, SequenceTheorems, TLAPS

\* Only tests use a name twice, and no handler calls what they call.
OneName == \A e, f \in book : e.name = f.name => e = f

\* A request with entries to make, or to take back, beyond its first is for a
\* check on every host.
Loops ==
  \A r \in Requests :
    /\ stage[r] = "adding" => todo[r] # <<>> /\ ask[r].name # None
    /\ stage[r] = "adding" /\ (Len(todo[r]) > 1 \/ created[r] # <<>>) => Spread(ask[r])
    /\ stage[r] = "adding" /\ Spread(ask[r]) => todo[r] \in Seq(Hosts)
    /\ stage[r] = "undoing" => created[r] # <<>> /\ Spread(ask[r])
    /\ stage[r] \in {"idle", "refused"} => created[r] = <<>>

\* What a request has made bears its name, and a request for a check on every
\* host makes entries of checks.
Makes ==
  \A r \in Requests : \A e \in Told(r) :
    /\ e.name = ask[r].name
    /\ stage[r] # "idle"
    /\ Spread(ask[r]) /\ stage[r] \in {"adding", "undoing"} => e.check # None /\ e.host # None

\* Each entry of the book is of exactly one request, which still knows of it.
Owned ==
  /\ \A e \in book : \E r \in Requests : e \in mine[r]
  /\ \A r, q \in Requests : r # q => mine[r] \cap mine[q] = {}
  /\ \A r \in Requests : mine[r] \subseteq Told(r)

WideKept == \A r \in Requests : \A e \in Told(r) : e.check = None => Promised(e, r)

IInv == TypeOK /\ OneName /\ Loops /\ Makes /\ Owned /\ WideKept /\ SpansLast

-----------------------------------------------------------------------------
(* The calls of the manager, as far as the book is concerned *)

LEMMA NewEntryType ==
  ASSUME NEW h \in OptHost, NEW c \in OptCheck, NEW n \in Names,
         NEW from \in Nat, NEW to \in Nat
  PROVE  /\ NewEntry(h, c, n, from, to) \in Entry
         /\ NewEntry(h, c, n, from, to).name = n
         /\ NewEntry(h, c, n, from, to).from = from
         /\ NewEntry(h, c, n, from, to).to = to
         /\ NewEntry(h, c, n, from, to).host = h
         /\ NewEntry(h, c, n, from, to).check = IF h = None THEN None ELSE c
  BY DEF NewEntry, Entry, OptHost, OptCheck

LEMMA AddEffect ==
  ASSUME NEW h, NEW c, NEW n, NEW from, NEW to, Book!Add(h, c, n, from, to)
  PROVE  /\ now' = now
         /\ \/ /\ reply'.ok /\ to > from
               /\ \A e \in book : e.name # n
               /\ book' = book \cup {NewEntry(h, c, n, from, to)}
            \/ ~reply'.ok /\ book' = book
  BY DEF Book!Add, Book!Admissible, Book!NameTaken, Book!NewEntry, NewEntry, Book!Answer

\* Removing leaves no entry of that name and scope, and takes no other; of a check
\* it takes entries of checks only, whatever the keys.
LEMMA RemoveEffect ==
  ASSUME OneName, NEW h, NEW c, NEW n, Book!Remove(h, c, n), h # None, c # None
  PROVE  /\ now' = now /\ book' \subseteq book
         /\ \A e \in book \ book' : e.name = n /\ e.check # None
         /\ \A e \in book : e.name = n /\ e.host = h /\ e.check = c => e \notin book'
  <1>1. \A e : Book!InScope(e, h, c) => e.check # None
    BY DEF Book!InScope, Book!OfCheck
  <1>2. \A e : e.host = h /\ e.check = c => Book!InScope(e, h, c)
    BY DEF Book!InScope, Book!OfCheck
  <1> QED
    BY <1>1, <1>2 DEF Book!Remove, OneName

LEMMA RemoveByNameEffect ==
  ASSUME NEW n, Book!RemoveByName(n)
  PROVE  /\ now' = now /\ book' \subseteq book
         /\ \A e \in book \ book' : e.name = n
  BY DEF Book!RemoveByName

LEMMA IsActiveEffect ==
  ASSUME NEW h, NEW c, Book!IsActive(h, c)
  PROVE  /\ now' = now /\ book' \subseteq book
         /\ \A e \in book \ book' : Expired(e, now)
  BY DEF Book!IsActive, Book!Forget, Book!Expired, Expired

LEMMA ListEffect ==
  ASSUME NEW f, Book!List(f)
  PROVE  /\ now' = now /\ book' \subseteq book
         /\ \A e \in book \ book' : Expired(e, now)
  BY DEF Book!List, Book!Expired, Expired

-----------------------------------------------------------------------------
(* The steps *)

LEMMA EmptyRange == Range(<<>>) = {}
  BY DEF Range

\* A step that only takes entries away, every one of which had expired, or had
\* a name that is struck now, or was of a check.
LEMMA Fewer ==
  ASSUME IInv, book' \subseteq book, now' = now, Kept,
         struck \subseteq struck', struck' \subseteq Requests,
         stage' = stage, ask' = ask, todo' = todo, created' = created,
         \A e \in book \ book' :
           \/ Expired(e, now)
           \/ \A r \in Requests : e \in Told(r) => r \in struck'
           \/ e.check # None
  PROVE  IInv'
  <1>1. TypeOK'
    BY Zenon DEF IInv, TypeOK, Kept
  <1>2. OneName' /\ SpansLast'
    BY DEF IInv, OneName, SpansLast
  <1>3. Loops' /\ Makes'
    BY DEF IInv, Loops, Makes, Told
  <1>4. Owned'
    BY DEF IInv, Owned, Kept, Told
  <1>5. WideKept'
    BY DEF IInv, WideKept, Promised, Told
  <1> QED
    BY <1>1, <1>2, <1>3, <1>4, <1>5 DEF IInv

LEMMA SubmitKeeps ==
  ASSUME IInv, NEW r \in Requests, NEW h \in OptHost, NEW c \in OptCheck,
         NEW n \in OptName, NEW from \in Nat, NEW to \in Int,
         NEW sound \in BOOLEAN, sound => n # None,
         Submit(r, Asked(h, c, n, from, to), sound)
  PROVE  IInv'
  <1> DEFINE a == Asked(h, c, n, from, to)
  <1>1. /\ stage[r] = "idle" /\ ask' = [ask EXCEPT ![r] = a]
        /\ UNCHANGED <<book, now, created, mine, struck>>
        /\ \/ /\ stage' = [stage EXCEPT ![r] = "refused"] /\ todo' = todo
           \/ /\ a.name # None /\ (Spread(a) => HostSeq # <<>>)
              /\ stage' = [stage EXCEPT ![r] = "adding"]
              /\ todo'  = [todo EXCEPT ![r] = IF Spread(a) THEN HostSeq ELSE <<a.host>>]
    BY DEF Submit, manager, Asked
  <1>2. /\ a.host = h /\ a.check = c /\ a.name = n /\ a.from = from /\ a.to = to
        /\ a \in [host : OptHost, check : OptCheck, name : OptName, from : Nat, to : Int]
    BY DEF Asked
  <1> HIDE DEF a
  <1>3. HostSeq \in Seq(Hosts) /\ HostSeq \in Seq(OptHost) /\ <<h>> \in Seq(OptHost) /\ <<h>> # <<>>
    BY BoardAssumption DEF OptHost
  <1>4. created[r] = <<>> /\ Told(r) = {} /\ mine[r] = {}
    BY <1>1, EmptyRange DEF IInv, Loops, Owned, Told
  <1>5. TypeOK'
    BY <1>1, <1>2, <1>3 DEF IInv, TypeOK
  <1>6. OneName' /\ Owned' /\ SpansLast'
    BY <1>1 DEF IInv, OneName, Owned, Told, SpansLast
  <1>7. Loops'
    <2> SUFFICES ASSUME NEW q \in Requests
                 PROVE /\ stage'[q] = "adding" => todo'[q] # <<>> /\ ask'[q].name # None
                       /\ stage'[q] = "adding" /\ (Len(todo'[q]) > 1 \/ created'[q] # <<>>) => Spread(ask'[q])
                       /\ stage'[q] = "adding" /\ Spread(ask'[q]) => todo'[q] \in Seq(Hosts)
                       /\ stage'[q] = "undoing" => created'[q] # <<>> /\ Spread(ask'[q])
                       /\ stage'[q] \in {"idle", "refused"} => created'[q] = <<>>
      BY DEF Loops, Spread
    <2>1. CASE q # r
      <3>1. stage'[q] = stage[q] /\ todo'[q] = todo[q] /\ ask'[q] = ask[q] /\ created'[q] = created[q]
        BY <1>1, <2>1 DEF IInv, TypeOK
      <3> QED
        BY <3>1 DEF IInv, Loops
    <2>2. CASE q = r
      <3>1. ask'[r] = a /\ created'[r] = <<>> /\ stage'[r] \in {"adding", "refused"}
        BY <1>1, <1>4, <2>2 DEF IInv, TypeOK
      <3>2. ASSUME stage'[r] = "adding"
            PROVE a.name # None /\ todo'[r] = (IF Spread(a) THEN HostSeq ELSE <<h>>) /\ (Spread(a) => HostSeq # <<>>)
        BY <1>1, <1>2, <3>2 DEF IInv, TypeOK
      <3>3. CASE stage'[r] = "adding" /\ Spread(a)
        BY <1>3, <2>2, <3>1, <3>2, <3>3
      <3>4. CASE stage'[r] = "adding" /\ ~Spread(a)
        <4>1. todo'[r] = <<h>> /\ a.name # None
          BY <3>2, <3>4
        <4>2. <<h>> # <<>> /\ ~(Len(<<h>>) > 1)
          OBVIOUS
        <4> QED
          BY <2>2, <3>1, <3>4, <4>1, <4>2
      <3>5. CASE stage'[r] = "refused"
        BY <2>2, <3>1, <3>5
      <3> QED
        BY <3>1, <3>3, <3>4, <3>5
    <2> QED
      BY <2>1, <2>2
  <1>8. \A q \in Requests : Told(q)' = Told(q)
    BY <1>1 DEF Told
  <1>9. Makes'
    <2> SUFFICES ASSUME NEW q \in Requests, NEW e \in Told(q)
                 PROVE /\ e.name = ask'[q].name /\ stage'[q] # "idle"
                       /\ Spread(ask'[q]) /\ stage'[q] \in {"adding", "undoing"}
                            => e.check # None /\ e.host # None
      BY <1>8 DEF Makes, Spread
    <2>1. q # r
      BY <1>4
    <2>2. stage'[q] = stage[q] /\ ask'[q] = ask[q]
      BY <1>1, <2>1 DEF IInv, TypeOK
    <2> QED
      BY <2>2 DEF IInv, Makes
  <1>10. WideKept'
    BY <1>1, <1>8 DEF IInv, WideKept, Promised
  <1> QED
    BY <1>5, <1>6, <1>7, <1>9, <1>10 DEF IInv

LEMMA DeleteKeeps ==
  ASSUME IInv, NEW n \in Names, Delete(n)
  PROVE  IInv'
  <1>1. /\ now' = now /\ book' \subseteq book
        /\ \A e \in book \ book' : e.name = n
    BY RemoveByNameEffect DEF Delete
  <1>2. /\ Kept /\ UNCHANGED <<stage, ask, todo, created>>
        /\ struck' = struck \cup {r \in Requests : stage[r] # "idle" /\ ask[r].name = n}
    BY DEF Delete, requests
  <1>3. \A e \in book \ book' : \A r \in Requests : e \in Told(r) => r \in struck'
    BY <1>1, <1>2 DEF IInv, Makes
  <1> QED
    BY <1>1, <1>2, <1>3, Fewer DEF IInv, TypeOK

LEMMA SweepKeeps ==
  ASSUME IInv, now' = now, book' \subseteq book, Kept, UNCHANGED <<requests, struck>>,
         \A e \in book \ book' : Expired(e, now)
  PROVE  IInv'
  BY Fewer DEF IInv, TypeOK, requests

LEMMA TickKeeps ==
  ASSUME IInv, Tick
  PROVE  IInv'
  <1>1. /\ now < MaxTime /\ now' = now + 1
        /\ UNCHANGED <<book, stage, ask, todo, created, mine, struck>>
    BY DEF Tick, Book!Tick, requests
  <1>2. TypeOK'
    BY <1>1, TimeAssumption DEF IInv, TypeOK
  <1>3. OneName' /\ SpansLast' /\ Loops' /\ Makes' /\ Owned'
    BY <1>1 DEF IInv, OneName, SpansLast, Loops, Makes, Owned, Told
  <1>4. \A e \in Entry : Expired(e, now) => Expired(e, now')
    BY <1>1 DEF IInv, TypeOK, Expired, Entry
  <1>5. \A r \in Requests : Told(r) \subseteq Entry
    BY RangeOfSeq DEF IInv, TypeOK, Told
  <1>6. WideKept'
    BY <1>1, <1>4, <1>5 DEF IInv, WideKept, Promised, Told
  <1> QED
    BY <1>2, <1>3, <1>6 DEF IInv

LEMMA AppendElements ==
  ASSUME NEW S, NEW s \in Seq(S), NEW e \in S
  PROVE  /\ Append(s, e) \in Seq(S) /\ Append(s, e) # <<>>
         /\ Range(Append(s, e)) = Range(s) \cup {e}
  <1>1. Append(s, e) \in Seq(S) /\ Len(Append(s, e)) = Len(s) + 1
    OBVIOUS
  <1>2. \A i \in 1..Len(s) : Append(s, e)[i] = s[i]
    OBVIOUS
  <1>3. Append(s, e)[Len(s) + 1] = e
    OBVIOUS
  <1>4. Len(s) \in Nat
    OBVIOUS
  <1>5. /\ Range(s) = {s[i] : i \in 1..Len(s)}
        /\ Range(Append(s, e)) = {Append(s, e)[i] : i \in 1..Len(Append(s, e))}
    BY <1>1, RangeEquality
  <1> QED
    BY <1>1, <1>2, <1>3, <1>4, <1>5

LEMMA TailElements ==
  ASSUME NEW S, NEW s \in Seq(S), s # <<>>
  PROVE  /\ Head(s) \in S /\ Tail(s) \in Seq(S)
         /\ Len(s) = 1 => Tail(s) = <<>>
         /\ Len(s) # 1 => Tail(s) # <<>> /\ Len(s) > 1
         /\ Range(s) = {Head(s)} \cup Range(Tail(s))
  <1>1. /\ Tail(s) \in Seq(S) /\ Len(Tail(s)) = Len(s) - 1 /\ Len(s) \in Nat \ {0}
        /\ Head(s) = s[1]
    OBVIOUS
  <1>2. \A i \in 1..Len(Tail(s)) : Tail(s)[i] = s[i + 1]
    OBVIOUS
  <1>3. \A i \in 1..Len(s) : i = 1 \/ (i - 1 \in 1..Len(Tail(s)) /\ s[i] = Tail(s)[i - 1])
    BY <1>1, <1>2
  <1>4. \A i \in 1..Len(Tail(s)) : i + 1 \in 1..Len(s)
    BY <1>1
  <1>5. /\ Range(s) = {s[i] : i \in 1..Len(s)}
        /\ Range(Tail(s)) = {Tail(s)[i] : i \in 1..Len(Tail(s))}
    BY <1>1, RangeEquality
  <1>6. ASSUME NEW x \in Range(s)
        PROVE  x \in {Head(s)} \cup Range(Tail(s))
    BY <1>1, <1>3, <1>5
  <1>7. ASSUME NEW x \in {Head(s)} \cup Range(Tail(s))
        PROVE  x \in Range(s)
    BY <1>1, <1>2, <1>4, <1>5
  <1>8. Len(Tail(s)) = 0 <=> Tail(s) = <<>>
    BY <1>1, EmptySeq
  <1>9. Head(s) \in S
    BY <1>1
  <1> QED
    BY <1>1, <1>6, <1>7, <1>8, <1>9

\* The entry is made.
LEMMA AddedKeeps ==
  ASSUME IInv, NEW r \in Requests, AddNext(r), reply'.ok
  PROVE  IInv'
  <1> DEFINE a == ask[r]
             x == Head(todo[r])
             e == NewEntry(x, a.check, a.name, a.from, a.to)
  <1>1. /\ stage[r] = "adding"
        /\ created' = [created EXCEPT ![r] = Append(@, e)]
        /\ mine'    = [mine EXCEPT ![r] = @ \cup {e}]
        /\ todo'    = [todo EXCEPT ![r] = Tail(@)]
        /\ stage'   = [stage EXCEPT ![r] = IF Len(todo[r]) = 1 THEN "created" ELSE @]
        /\ UNCHANGED <<ask, struck>>
    BY DEF AddNext
  <1>2. /\ now' = now /\ book' = book \cup {e} /\ a.to > a.from
        /\ \A f \in book : f.name # a.name
    BY AddEffect DEF AddNext
  <1>3. todo[r] # <<>> /\ a.name # None /\ todo[r] \in Seq(OptHost)
    BY <1>1 DEF IInv, Loops, TypeOK
  <1>4. x \in OptHost /\ Tail(todo[r]) \in Seq(OptHost)
    BY <1>3, TailElements
  <1>5. /\ e \in Entry /\ e.name = a.name /\ e.host = x /\ e.from < e.to
        /\ e.check = IF x = None THEN None ELSE a.check
    <2>1. a.name \in Names /\ a.check \in OptCheck /\ a.from \in Nat /\ a.to \in Nat
      BY <1>2, <1>3 DEF IInv, TypeOK, OptName
    <2> QED
      BY <1>2, <1>4, <2>1, NewEntryType
  <1> HIDE DEF x, e
  <1>6. created[r] \in Seq(Entry)
    BY DEF IInv, TypeOK
  <1>7. /\ Append(created[r], e) \in Seq(Entry)
        /\ created'[r] = Append(created[r], e) /\ created'[r] # <<>>
        /\ Told(r)' = Told(r) \cup {e}
    <2>1. /\ Append(created[r], e) \in Seq(Entry) /\ Append(created[r], e) # <<>>
          /\ Range(Append(created[r], e)) = Range(created[r]) \cup {e}
      BY <1>5, <1>6, AppendElements
    <2>2. created'[r] = Append(created[r], e)
      BY <1>1 DEF IInv, TypeOK
    <2> QED
      BY <2>1, <2>2 DEF Told
  <1>8. ASSUME NEW q \in Requests, q # r
        PROVE /\ Told(q)' = Told(q) /\ created'[q] = created[q] /\ mine'[q] = mine[q]
              /\ todo'[q] = todo[q] /\ stage'[q] = stage[q]
    BY <1>1, <1>8 DEF IInv, TypeOK, Told
  <1>9. /\ mine'[r] = mine[r] \cup {e} /\ todo'[r] = Tail(todo[r])
        /\ stage'[r] = IF Len(todo[r]) = 1 THEN "created" ELSE "adding"
    BY <1>1 DEF IInv, TypeOK
  <1>10. TypeOK'
    BY <1>1, <1>2, <1>4, <1>5, <1>7 DEF IInv, TypeOK
  <1>11. OneName' /\ SpansLast'
    BY <1>2, <1>5 DEF IInv, OneName, SpansLast
  <1>12. stage'[r] = "adding" => /\ Spread(a) /\ Tail(todo[r]) # <<>>
                                 /\ Tail(todo[r]) \in Seq(Hosts)
    <2> SUFFICES ASSUME Len(todo[r]) # 1
                 PROVE Spread(a) /\ Tail(todo[r]) # <<>> /\ Tail(todo[r]) \in Seq(Hosts)
      BY <1>9
    <2>1. Len(todo[r]) > 1 /\ Tail(todo[r]) # <<>>
      BY <1>3, TailElements
    <2>2. Spread(a) /\ todo[r] \in Seq(Hosts)
      BY <1>1, <2>1 DEF IInv, Loops
    <2>3. Tail(todo[r]) \in Seq(Hosts)
      BY <1>3, <2>2, TailElements
    <2> QED
      BY <2>1, <2>2, <2>3
  <1>13. Loops'
    <2> SUFFICES ASSUME NEW q \in Requests
                 PROVE /\ stage'[q] = "adding" => todo'[q] # <<>> /\ ask'[q].name # None
                       /\ stage'[q] = "adding" /\ (Len(todo'[q]) > 1 \/ created'[q] # <<>>) => Spread(ask'[q])
                       /\ stage'[q] = "adding" /\ Spread(ask'[q]) => todo'[q] \in Seq(Hosts)
                       /\ stage'[q] = "undoing" => created'[q] # <<>> /\ Spread(ask'[q])
                       /\ stage'[q] \in {"idle", "refused"} => created'[q] = <<>>
      BY DEF Loops, Spread
    <2>1. CASE q # r
      BY <1>1, <1>8, <2>1 DEF IInv, Loops
    <2>2. CASE q = r
      BY <1>1, <1>3, <1>9, <1>12, <2>2
    <2> QED
      BY <2>1, <2>2
  <1>14. Makes'
    <2> SUFFICES ASSUME NEW q \in Requests, NEW f \in Told(q)'
                 PROVE /\ f.name = ask'[q].name /\ stage'[q] # "idle"
                       /\ Spread(ask'[q]) /\ stage'[q] \in {"adding", "undoing"}
                            => f.check # None /\ f.host # None
      BY DEF Makes, Spread
    <2>1. CASE q # r
      BY <1>1, <1>8, <2>1 DEF IInv, Makes
    <2>2. CASE q = r /\ f # e
      BY <1>1, <1>7, <1>9, <2>2 DEF IInv, Makes
    <2>3. CASE q = r /\ f = e
      <3>1. Spread(a) => x \in Hosts
        BY <1>1, <1>3, TailElements DEF IInv, Loops, x
      <3>2. None \notin Hosts
        BY EntryNoneAssumption
      <3> QED
        BY <1>1, <1>5, <1>9, <2>3, <3>1, <3>2 DEF Spread
    <2> QED
      BY <2>1, <2>2, <2>3
  <1>15. Owned'
    <2>1. e \notin book
      BY <1>2, <1>5
    <2>2. \A q \in Requests : e \notin mine[q]
      BY <2>1 DEF IInv, TypeOK
    <2> QED
      BY <1>2, <1>7, <1>8, <1>9, <2>2 DEF IInv, Owned
  <1>16. WideKept'
    BY <1>1, <1>2, <1>7, <1>8 DEF IInv, WideKept, Promised
  <1> QED
    BY <1>10, <1>11, <1>13, <1>14, <1>15, <1>16 DEF IInv

\* The entry is refused: its name is in use.
LEMMA RefusedKeeps ==
  ASSUME IInv, NEW r \in Requests, AddNext(r), ~reply'.ok
  PROVE  IInv'
  <1>1. /\ stage[r] = "adding"
        /\ stage' = [stage EXCEPT ![r] = IF created[r] = <<>> THEN "refused" ELSE "undoing"]
        /\ UNCHANGED <<ask, todo, created, mine, struck>>
    BY DEF AddNext
  <1>2. book' = book /\ now' = now
    BY AddEffect DEF AddNext
  <1>3. TypeOK' /\ OneName' /\ SpansLast' /\ Owned' /\ WideKept'
    BY <1>1, <1>2 DEF IInv, TypeOK, OneName, SpansLast, Owned, WideKept, Promised, Told
  <1>4. Loops'
    BY <1>1 DEF IInv, TypeOK, Loops
  <1>5. Makes'
    BY <1>1 DEF IInv, TypeOK, Makes, Told, Loops
  <1> QED
    BY <1>3, <1>4, <1>5 DEF IInv

\* What is taken back is gone, and what else goes is of a check.
LEMMA UndoKeeps ==
  ASSUME IInv, NEW r \in Requests, UndoNext(r)
  PROVE  IInv'
  <1> DEFINE e == Head(created[r])
  <1>1. /\ stage[r] = "undoing" /\ Book!Remove(e.host, e.check, e.name)
        /\ created' = [created EXCEPT ![r] = Tail(@)]
        /\ stage'   = [stage EXCEPT ![r] = IF Len(created[r]) = 1 THEN "refused" ELSE @]
        /\ Kept /\ UNCHANGED <<ask, todo, struck>>
    BY DEF UndoNext
  <1>2. created[r] \in Seq(Entry) /\ created[r] # <<>> /\ Spread(ask[r])
    BY <1>1 DEF IInv, TypeOK, Loops
  <1> HIDE DEF e
  <1>3. /\ e \in Entry /\ Tail(created[r]) \in Seq(Entry)
        /\ Len(created[r]) = 1 => Tail(created[r]) = <<>>
        /\ Len(created[r]) # 1 => Tail(created[r]) # <<>>
        /\ created'[r] = Tail(created[r])
        /\ Told(r) = {e} \cup Told(r)'
    BY <1>1, <1>2, TailElements DEF IInv, TypeOK, Told, e
  <1>4. ASSUME NEW q \in Requests, q # r
        PROVE Told(q)' = Told(q) /\ created'[q] = created[q] /\ stage'[q] = stage[q]
    BY <1>1, <1>4 DEF IInv, TypeOK, Told
  <1>5. e.check # None /\ e.host # None
    BY <1>1, <1>2, <1>3 DEF IInv, Makes
  <1>6. /\ now' = now /\ book' \subseteq book
        /\ \A f \in book \ book' : f.check # None
        /\ e \notin book'
    BY <1>1, <1>5, RemoveEffect DEF IInv
  <1>7. \A q \in Requests : mine'[q] = mine[q] \cap book'
    BY <1>1 DEF Kept
  <1>8. TypeOK'
    BY <1>1, <1>3, <1>6 DEF IInv, TypeOK, Kept
  <1>9. OneName' /\ SpansLast'
    BY <1>6 DEF IInv, OneName, SpansLast
  <1>10. stage'[r] = IF Len(created[r]) = 1 THEN "refused" ELSE "undoing"
    BY <1>1 DEF IInv, TypeOK
  <1>11. Loops'
    <2> SUFFICES ASSUME NEW q \in Requests
                 PROVE /\ stage'[q] = "adding" => todo'[q] # <<>> /\ ask'[q].name # None
                       /\ stage'[q] = "adding" /\ (Len(todo'[q]) > 1 \/ created'[q] # <<>>) => Spread(ask'[q])
                       /\ stage'[q] = "adding" /\ Spread(ask'[q]) => todo'[q] \in Seq(Hosts)
                       /\ stage'[q] = "undoing" => created'[q] # <<>> /\ Spread(ask'[q])
                       /\ stage'[q] \in {"idle", "refused"} => created'[q] = <<>>
      BY DEF Loops, Spread
    <2>1. CASE q # r
      BY <1>1, <1>4, <2>1 DEF IInv, Loops
    <2>2. CASE q = r
      <3>1. CASE Len(created[r]) = 1
        <4>1. stage'[r] = "refused" /\ created'[r] = <<>>
          BY <1>3, <1>10, <3>1
        <4> QED
          BY <2>2, <4>1
      <3>2. CASE Len(created[r]) # 1
        <4>1. stage'[r] = "undoing" /\ created'[r] # <<>> /\ ask'[r] = ask[r]
          BY <1>1, <1>3, <1>10, <3>2
        <4> QED
          BY <1>2, <2>2, <4>1
      <3> QED
        BY <3>1, <3>2
    <2> QED
      BY <2>1, <2>2
  <1>12. Makes'
    <2> SUFFICES ASSUME NEW q \in Requests, NEW f \in Told(q)'
                 PROVE /\ f.name = ask'[q].name /\ stage'[q] # "idle"
                       /\ Spread(ask'[q]) /\ stage'[q] \in {"adding", "undoing"}
                            => f.check # None /\ f.host # None
      BY DEF Makes, Spread
    <2>1. CASE q # r
      BY <1>1, <1>4, <2>1 DEF IInv, Makes
    <2>2. CASE q = r
      BY <1>1, <1>2, <1>3, <1>10, <2>2 DEF IInv, Makes
    <2> QED
      BY <2>1, <2>2
  <1>13. Owned'
    BY <1>3, <1>4, <1>6, <1>7 DEF IInv, Owned
  <1>14. WideKept'
    BY <1>1, <1>3, <1>4, <1>6 DEF IInv, WideKept, Promised
  <1> QED
    BY <1>8, <1>9, <1>11, <1>12, <1>13, <1>14 DEF IInv

-----------------------------------------------------------------------------
(* The theorems *)

LEMMA InitHolds == Init => IInv
  BY TimeAssumption, EmptyRange DEF Init, Book!Init, IInv, TypeOK, OneName, SpansLast, Loops, Makes, Owned,
     WideKept, Told, Nothing, OptHost, OptCheck, OptName

LEMMA StepKeeps == IInv /\ [Next]_vars => IInv'
  <1> SUFFICES ASSUME IInv, [Next]_vars PROVE IInv'
    OBVIOUS
  <1>1. CASE UNCHANGED vars
    BY <1>1 DEF vars, manager, requests, IInv, TypeOK, OneName, SpansLast, Loops, Makes, Owned,
       WideKept, Told, Promised
  <1>2. ASSUME NEW r \in Requests, SubmitAbsolute(r) PROVE IInv'
    <2>1. PICK h \in OptHost, c \in OptCheck, n \in OptName : \E span \in Spans :
            Submit(r, Asked(h, c, n, span[1], span[2]), Valid(Asked(h, c, n, span[1], span[2])))
      BY <1>2, Zenon DEF SubmitAbsolute
    <2>2. PICK span \in Spans :
            Submit(r, Asked(h, c, n, span[1], span[2]), Valid(Asked(h, c, n, span[1], span[2])))
      BY <2>1
    <2>3. Valid(Asked(h, c, n, span[1], span[2])) <=> n # None /\ span[2] > span[1]
      BY DEF Valid, Asked
    <2>4. Submit(r, Asked(h, c, n, span[1], span[2]), n # None /\ span[2] > span[1])
      BY <2>2, <2>3 DEF Submit
    <2>5. span[1] \in Nat /\ span[2] \in Int
      BY TimeAssumption
    <2> QED
      BY <2>4, <2>5, SubmitKeeps
  <1>3. ASSUME NEW r \in Requests, SubmitRelative(r) PROVE IInv'
    <2>1. PICK h \in OptHost, c \in OptCheck, n \in OptName, d \in Durations :
            Submit(r, Asked(h, c, n, now, now + Wrapped(d)), n # None /\ d > 0)
      BY <1>3, Zenon DEF SubmitRelative
    <2>2. now \in Nat /\ now + Wrapped(d) \in Int
      BY DurationAssumption, TimeAssumption DEF IInv, TypeOK, Wrapped
    <2> QED
      BY <2>1, <2>2, SubmitKeeps
  <1>4. ASSUME NEW r \in Requests, AddNext(r) PROVE IInv'
    BY <1>4, AddedKeeps, RefusedKeeps
  <1>5. ASSUME NEW r \in Requests, UndoNext(r) PROVE IInv'
    BY <1>5, UndoKeeps
  <1>6. ASSUME NEW n \in Names, Delete(n) PROVE IInv'
    BY <1>6, DeleteKeeps
  <1>7. ASSUME NEW f \in Filters, Listing(f) PROVE IInv'
    BY <1>7, ListEffect, SweepKeeps DEF Listing
  <1>8. ASSUME NEW h \in Hosts, NEW c \in Checks, Lookup(h, c) PROVE IInv'
    BY <1>8, IsActiveEffect, SweepKeeps DEF Lookup
  <1>9. CASE Tick
    BY <1>9, TickKeeps
  <1> QED
    BY <1>1, <1>2, <1>3, <1>4, <1>5, <1>6, <1>7, <1>8, <1>9 DEF Next

LEMMA Invariance == Spec => []IInv
  <1> QED
    BY InitHolds, StepKeeps, PTL DEF Spec

\* The requests, the book and what is remembered of both keep their types.
THEOREM TypeCorrect == Spec => []TypeOK
  <1>1. IInv => TypeOK
    BY DEF IInv
  <1> QED
    BY Invariance, <1>1, PTL

\* However the handlers interleave, a request that was refused has no entry in
\* the book, and each entry is of exactly one request.
THEOREM RefusedClean == Spec => []RefusedLeavesNothing
  <1>1. IInv => RefusedLeavesNothing
    <2> SUFFICES ASSUME IInv, NEW e \in book
                 PROVE \E r \in Requests : /\ e \in mine[r] /\ stage[r] # "refused"
                                           /\ \A q \in Requests \ {r} : e \notin mine[q]
      BY DEF RefusedLeavesNothing
    <2>1. PICK r \in Requests : e \in mine[r]
      BY DEF IInv, Owned
    <2>2. Told(r) # {}
      BY <2>1 DEF IInv, Owned
    <2>3. stage[r] # "refused"
      BY <2>2, EmptyRange DEF IInv, Loops, Told
    <2> QED
      BY <2>1, <2>3 DEF IInv, Owned
  <1> QED
    BY Invariance, <1>1, PTL

\* Whatever a duration has become, no entry ends before it begins.
THEOREM SpansAreSound == Spec => []SpansLast
  <1>1. IInv => SpansLast
    BY DEF IInv
  <1> QED
    BY Invariance, <1>1, PTL

\* No request's taking back reaches a downtime of a whole host or of everything.
THEOREM WideDowntimesStay == Spec => []WidePromiseKept
  <1>1. IInv => WidePromiseKept
    BY DEF IInv, WideKept, WidePromiseKept
  <1> QED
    BY Invariance, <1>1, PTL
=============================================================================
