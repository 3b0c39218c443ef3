---------------------------- MODULE DowntimeApi ----------------------------
(***************************************************************************)
(* The downtime handlers of the HTTP server (internal/httpserver/server.go)*)
(* over the downtime manager, taken here as the book it implements.  Each  *)
(* call of the manager is atomic; a handler that makes several is not, and *)
(* other handlers, the scheduler's lookups and the clock come in between.  *)
(* A request names a check on no host to mean that check on every host.    *)
(***************************************************************************)
EXTENDS DowntimeEntry, Integers, Sequences, Functions

CONSTANTS
  Requests,   \* bound: the create requests there are
  HostSeq,    \* the hosts of the board, in the order HostSummaries lists them
  Durations,  \* bound: the durations of the relative requests, in seconds
  Half,       \* a time.Duration is from -Half up to below Half
  Key         \* the manager's key of a host and a check

ASSUME BoardAssumption ==
  /\ HostSeq \in Seq(Hosts)
  /\ IsInjective(HostSeq)
ASSUME DurationAssumption == Durations \subseteq Nat /\ Half \in Nat \ {0}

VARIABLES
  book, now, reply,  \* the manager's, as in DowntimeBook
  stage,    \* where each request is
  ask,      \* what it asks for
  todo,     \* the hosts createDowntimeEntries has still to visit
  created,  \* its local variable: the entries it has made, oldest first
  mine,     \* history: the entries of the book that this request put there
  struck    \* history: the requests whose name was deleted after they began

manager  == <<book, now, reply>>
requests == <<stage, ask, todo, created>>
vars     == <<manager, requests, mine, struck>>

Book == INSTANCE DowntimeBook

\* A valid request names its entry and an end after the start.
Valid(a)  == a.name # None /\ a.to > a.from
Spread(a) == a.host = None /\ a.check # None

Nothing == [host |-> None, check |-> None, name |-> None, from |-> 0, to |-> 0]

Init ==
  /\ Book!Init
  /\ stage   = [r \in Requests |-> "idle"]
  /\ ask     = [r \in Requests |-> Nothing]
  /\ todo    = [r \in Requests |-> <<>>]
  /\ created = [r \in Requests |-> <<>>]
  /\ mine    = [r \in Requests |-> {}]
  /\ struck  = {}

\* What is gone from the book is nobody's any more.
Kept == mine' = [r \in Requests |-> mine[r] \cap book']

\* handleDowntimeAbsolute, handleDowntimeRelative: a request that is not sound is
\* refused at once; for one on every host the hosts are read here, once.
Submit(r, a, sound) ==
  /\ stage[r] = "idle"
  /\ ask' = [ask EXCEPT ![r] = a]
  /\ \/ /\ ~sound \/ (Spread(a) /\ HostSeq = <<>>)
        /\ stage' = [stage EXCEPT ![r] = "refused"]
        /\ UNCHANGED todo
     \/ /\ sound /\ (Spread(a) => HostSeq # <<>>)
        /\ stage' = [stage EXCEPT ![r] = "adding"]
        /\ todo'  = [todo EXCEPT ![r] = IF Spread(a) THEN HostSeq ELSE <<a.host>>]
  /\ UNCHANGED <<manager, created, mine, struck>>

Asked(h, c, n, from, to) == [host |-> h, check |-> c, name |-> n, from |-> from, to |-> to]

SubmitAbsolute(r) ==
  \E h \in OptHost, c \in OptCheck, n \in OptName : \E span \in Spans :
    LET a == Asked(h, c, n, span[1], span[2]) IN Submit(r, a, Valid(a))

\* time.Duration(d) * time.Second, in an int64: what is too long wraps around,
\* into a time before the start or into one soon after it.
Wrapped(d) == ((d + Half) % (2 * Half)) - Half

\* The handler looks at the number, before it becomes a time.
SubmitRelative(r) ==
  \E h \in OptHost, c \in OptCheck, n \in OptName : \E d \in Durations :
    Submit(r, Asked(h, c, n, now, now + Wrapped(d)), n # None /\ d > 0)

\* One round of the loop of createDowntimeEntries (or its only call): the entry
\* is added, and after the last the request is answered; or it is refused, and
\* what was added before is to be taken back.
AddNext(r) ==
  LET a == ask[r]  e == NewEntry(Head(todo[r]), a.check, a.name, a.from, a.to) IN
  /\ stage[r] = "adding"
  /\ Book!Add(Head(todo[r]), a.check, a.name, a.from, a.to)
  /\ \/ /\ reply'.ok
        /\ created' = [created EXCEPT ![r] = Append(@, e)]
        /\ mine'    = [mine EXCEPT ![r] = @ \cup {e}]
        /\ todo'    = [todo EXCEPT ![r] = Tail(@)]
        /\ stage'   = [stage EXCEPT ![r] = IF Len(todo[r]) = 1 THEN "created" ELSE @]
     \/ /\ ~reply'.ok
        /\ stage'   = [stage EXCEPT ![r] = IF created[r] = <<>> THEN "refused" ELSE "undoing"]
        /\ UNCHANGED <<created, mine, todo>>
  /\ UNCHANGED <<ask, struck>>

\* Mutant: the last entry made is forgotten.
UndoNextShort(r) ==
  /\ stage[r] = "undoing"
  /\ created' = [created EXCEPT ![r] = Tail(@)]
  /\ stage'   = [stage EXCEPT ![r] = IF Len(created[r]) = 1 THEN "refused" ELSE @]
  /\ IF Len(created[r]) = 1
     THEN UNCHANGED manager
     ELSE Book!Remove(Head(created[r]).host, Head(created[r]).check, Head(created[r]).name)
  /\ Kept
  /\ UNCHANGED <<ask, todo, struck>>

\* Mutant: the entries are taken back by name, whatever their scope.
UndoNextByName(r) ==
  /\ stage[r] = "undoing"
  /\ Book!RemoveByName(ask[r].name)
  /\ created' = [created EXCEPT ![r] = Tail(@)]
  /\ stage'   = [stage EXCEPT ![r] = IF Len(created[r]) = 1 THEN "refused" ELSE @]
  /\ Kept
  /\ UNCHANGED <<ask, todo, struck>>

\* One round of the loop that takes the entries back: whatever entry now has that
\* name, under the key of that host and check, is removed; a failure is not looked at.
UndoNext(r) ==
  LET e == Head(created[r]) IN
  /\ stage[r] = "undoing"
  /\ Book!Remove(e.host, e.check, e.name)
  /\ created' = [created EXCEPT ![r] = Tail(@)]
  /\ stage'   = [stage EXCEPT ![r] = IF Len(created[r]) = 1 THEN "refused" ELSE @]
  /\ Kept
  /\ UNCHANGED <<ask, todo, struck>>

\* handleDowntimeDelete: the whole handler is one call.
Delete(n) ==
  /\ Book!RemoveByName(n)
  /\ Kept
  /\ struck' = struck \cup {r \in Requests : stage[r] # "idle" /\ ask[r].name = n}
  /\ UNCHANGED requests

\* handleDowntimeList, and the lists of hosts and checks, which mark downtimes.
Listing(f) == Book!List(f) /\ Kept /\ UNCHANGED <<requests, struck>>

\* The scheduler asks.
Lookup(h, c) == Book!IsActive(h, c) /\ Kept /\ UNCHANGED <<requests, struck>>

Tick == Book!Tick /\ UNCHANGED <<requests, mine, struck>>

Next ==
  \/ \E r \in Requests :
       SubmitAbsolute(r) \/ SubmitRelative(r) \/ AddNext(r) \/ UndoNext(r)
  \/ \E n \in Names : Delete(n)
  \/ \E f \in Filters : Listing(f)
  \/ \E h \in Hosts, c \in Checks : Lookup(h, c)
  \/ Tick

Spec == Init /\ [][Next]_vars

-----------------------------------------------------------------------------
(* Properties *)

TypeOK ==
  /\ book \subseteq Entry /\ now \in 0..MaxTime
  /\ stage   \in [Requests -> {"idle", "adding", "undoing", "created", "refused"}]
  /\ ask     \in [Requests -> [host : OptHost, check : OptCheck, name : OptName,
                               from : Nat, to : Int]]
  /\ todo    \in [Requests -> Seq(OptHost)]
  /\ created \in [Requests -> Seq(Entry)]
  /\ mine    \in [Requests -> SUBSET book]
  /\ struck  \subseteq Requests

\* A request that was refused silences nothing: every entry it had made is gone,
\* whoever changed the book in between, and each entry left is of a request that
\* was answered with success or is still being served.
RefusedLeavesNothing ==
  \A e \in book : \E r \in Requests :
    /\ e \in mine[r] /\ stage[r] # "refused"
    /\ \A q \in Requests \ {r} : e \notin mine[q]

\* An entry of the book has a time to be in force in, whatever its duration became
\* on the way: what wraps around into the past stays out of the book.
SpansLast == \A e \in book : e.from < e.to

\* "Schedule downtime": an entry a request was told of stays until it expires
\* or its name is deleted.
Promised(e, r) == e \in book \/ Expired(e, now) \/ r \in struck
Told(r) == Range(created[r])

PromiseKept == \A r \in Requests : stage[r] = "created" => \A e \in Told(r) : Promised(e, r)

\* The same of the downtimes of whole hosts and of everything, which no request
\* takes back.
WidePromiseKept ==
  \A r \in Requests :
    stage[r] = "created" => \A e \in Told(r) : e.check = None => Promised(e, r)

\* "expected downtime entries for hosts": a valid request for a check on every
\* host is served, at least when no other request was ever made.
AloneServed ==
  \A r \in Requests :
    /\ Spread(ask[r]) /\ Valid(ask[r])
    /\ \A q \in Requests \ {r} : stage[q] = "idle"
    => stage[r] \notin {"undoing", "refused"}
=============================================================================
