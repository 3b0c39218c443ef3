------------------------------ MODULE Downtime ------------------------------
(***************************************************************************)
(* The downtime manager (internal/downtime/manager.go): two maps of        *)
(* buckets, one keyed by host, one by the string host::check, the global   *)
(* entries living in the second under the key "::".  Every exported method *)
(* holds the manager's mutex from start to end, so each is one action.     *)
(* AddHost and ActiveHost are left out: only tests call them.  A bucket    *)
(* that is absent and one that is empty are the same to every reader, and  *)
(* both are {} here.                                                       *)
(***************************************************************************)
EXTENDS DowntimeEntry, Keys

ASSUME HostsAndChecksAssumption == Hosts \subseteq HostNames /\ Checks \subseteq CheckNames

\* The keys that Manager.entries can have.
EntryKeys == {GlobalKey} \cup {BuildKey(h, c) : h \in Hosts, c \in Checks}

VARIABLES
  entries,      \* Manager.entries: key -> the entries of the bucket
  hostEntries,  \* Manager.hostEntries: host -> the entries of the bucket
  now,          \* the clock the callers read
  reply         \* the answer of the last call

vars == <<entries, hostEntries, now, reply>>

\* Everything the manager holds.
AllEntries == (UNION {entries[k] : k \in EntryKeys}) \cup (UNION {hostEntries[h] : h \in Hosts})

Named(bucket, n) == {e \in bucket : e.name = n}

\* Mutant: what is not in force is dropped.
SweptIdle(bucket) == {e \in bucket : InForce(e, now)}

\* What a lookup or a listing leaves of a bucket.
Swept(bucket) == {e \in bucket : ~Expired(e, now)}
Holds(bucket) == \E e \in bucket : InForce(e, now)

\* Mutant: the check map is forgotten.
NameExistsOnHosts(n) == \E h \in Hosts : Named(hostEntries[h], n) # {}

\* nameExistsLocked: an expired entry nobody has swept yet still counts.
NameExists(n) ==
  \/ \E h \in Hosts : Named(hostEntries[h], n) # {}
  \/ \E k \in EntryKeys : Named(entries[k], n) # {}

Init ==
  /\ entries     = [k \in EntryKeys |-> {}]
  /\ hostEntries = [h \in Hosts |-> {}]
  /\ now         = 0
  /\ reply       = Idle

\* addGlobalLocked, addHostLocked, addCheckLocked: by the scope of the entry.
Put(e) ==
  \/ /\ e.host = None
     /\ entries' = [entries EXCEPT ![GlobalKey] = @ \cup {e}]
     /\ UNCHANGED hostEntries
  \/ /\ e.host # None /\ e.check = None
     /\ hostEntries' = [hostEntries EXCEPT ![e.host] = @ \cup {e}]
     /\ UNCHANGED entries
  \/ /\ e.host # None /\ e.check # None
     /\ entries' = [entries EXCEPT ![BuildKey(e.host, e.check)] = @ \cup {e}]
     /\ UNCHANGED hostEntries

\* Mutant: an entry without a name is accepted.
AdmissibleUnnamed(n, from, to) == to > from /\ ~NameExists(n)

\* Add refuses an empty name, a name in use, and an end that is not after the start.
Admissible(n, from, to) == to > from /\ n # None /\ ~NameExists(n)

Add(h, c, n, from, to) ==
  /\ \/ /\ Admissible(n, from, to)
        /\ Put(NewEntry(h, c, n, from, to))
        /\ reply' = Answer("add", <<h, c, n>>, TRUE, {NewEntry(h, c, n, from, to)})
     \/ /\ ~Admissible(n, from, to)
        /\ reply' = Answer("add", <<h, c, n>>, FALSE, {})
        /\ UNCHANGED <<entries, hostEntries>>
  /\ UNCHANGED now

\* Take e out of the bucket of the check map, or of the host map.
TakeFromEntries(k, e) ==
  /\ entries' = [entries EXCEPT ![k] = @ \ {e}]
  /\ UNCHANGED hostEntries
TakeFromHost(h, e) ==
  /\ hostEntries' = [hostEntries EXCEPT ![h] = @ \ {e}]
  /\ UNCHANGED entries

\* The bucket Remove looks in; a check without a host has none.
RemoveBucket(h, c) ==
  IF h = None THEN IF c = None THEN entries[GlobalKey] ELSE {}
  ELSE IF c = None THEN hostEntries[h] ELSE entries[BuildKey(h, c)]

Remove(h, c, n) ==
  /\ \/ \E e \in Named(RemoveBucket(h, c), n) :
          /\ \/ h = None /\ TakeFromEntries(GlobalKey, e)
             \/ h # None /\ c = None /\ TakeFromHost(h, e)
             \/ h # None /\ c # None /\ TakeFromEntries(BuildKey(h, c), e)
          /\ reply' = Answer("remove", <<h, c, n>>, TRUE, {e})
     \/ /\ Named(RemoveBucket(h, c), n) = {}
        /\ reply' = Answer("remove", <<h, c, n>>, FALSE, {})
        /\ UNCHANGED <<entries, hostEntries>>
  /\ UNCHANGED now

\* The host map is searched before the check map; the first hit is removed.
RemoveByName(n) ==
  /\ \/ \E h \in Hosts : \E e \in Named(hostEntries[h], n) :
          /\ TakeFromHost(h, e)
          /\ reply' = Answer("removeByName", <<n>>, TRUE, {e})
     \/ /\ \A h \in Hosts : Named(hostEntries[h], n) = {}
        /\ \E k \in EntryKeys : \E e \in Named(entries[k], n) :
             /\ TakeFromEntries(k, e)
             /\ reply' = Answer("removeByName", <<n>>, TRUE, {e})
     \/ /\ ~NameExists(n)
        /\ reply' = Answer("removeByName", <<n>>, FALSE, {})
        /\ UNCHANGED <<entries, hostEntries>>
  /\ UNCHANGED now

\* Global, then host, then check, stopping at the first that answers; each
\* bucket that is looked at is swept on the way.
Active(h, c) ==
  LET global == entries[GlobalKey]
      host   == hostEntries[h]
      check  == entries[BuildKey(h, c)]
  IN
  /\ \/ /\ Holds(global)
        /\ entries' = [entries EXCEPT ![GlobalKey] = Swept(global)]
        /\ UNCHANGED hostEntries
     \/ /\ ~Holds(global) /\ Holds(host)
        /\ entries'     = [entries EXCEPT ![GlobalKey] = Swept(global)]
        /\ hostEntries' = [hostEntries EXCEPT ![h] = Swept(host)]
     \/ /\ ~Holds(global) /\ ~Holds(host)
        /\ entries'     = [entries EXCEPT ![GlobalKey] = Swept(global),
                                          ![BuildKey(h, c)] = Swept(check)]
        /\ hostEntries' = [hostEntries EXCEPT ![h] = Swept(host)]
  /\ reply' = Answer("active", <<h, c>>, Holds(global) \/ Holds(host) \/ Holds(check), {})
  /\ UNCHANGED now

\* Every bucket is swept, then what is left is filtered.
List(f) ==
  /\ entries'     = [k \in EntryKeys |-> Swept(entries[k])]
  /\ hostEntries' = [h \in Hosts |-> Swept(hostEntries[h])]
  /\ reply' = Answer("list", <<f>>, TRUE, {e \in Swept(AllEntries) : Matches(f, e)})
  /\ UNCHANGED now

Tick ==
  /\ now < MaxTime
  /\ now' = now + 1
  /\ reply' = Idle
  /\ UNCHANGED <<entries, hostEntries>>

Next ==
  \/ \E h \in OptHost, c \in OptCheck, n \in OptName :
       Remove(h, c, n) \/ \E span \in Spans : Add(h, c, n, span[1], span[2])
  \/ \E n \in OptName : RemoveByName(n)
  \/ \E h \in Hosts, c \in Checks : Active(h, c)
  \/ \E f \in Filters : List(f)
  \/ Tick

Spec == Init /\ [][Next]_vars

-----------------------------------------------------------------------------
(* Properties *)

TypeOK ==
  /\ entries     \in [EntryKeys -> SUBSET Entry]
  /\ hostEntries \in [Hosts -> SUBSET Entry]
  /\ now         \in 0..MaxTime

\* Every entry is in the bucket that the lookups for its scope read, and in no
\* other, whatever the names: a misplaced one would never be found again.
PlacedRight ==
  /\ \A k \in EntryKeys : \A e \in entries[k] :
       \/ k = GlobalKey /\ e.host = None /\ e.check = None
       \/ e.host # None /\ e.check # None /\ k = BuildKey(e.host, e.check)
  /\ \A h \in Hosts : \A e \in hostEntries[h] : e.host = h /\ e.check = None

\* A name identifies one entry over all scopes, as deletion by name needs it.
UniqueNames == \A e, f \in AllEntries : e.name = f.name => e = f

\* The maps and their sweeping implement one flat book of entries: Active answers
\* by the entries in force for that check, List shows what has not expired, and
\* no call but a removal loses an entry that has not expired.  Checks whose keys
\* are the same string share one bucket, and the book says so.
Key  == [p \in Hosts \X Checks |-> BuildKey(p[1], p[2])]
Book == INSTANCE DowntimeBook WITH book <- AllEntries
ImplementsBook == Book!Spec
=============================================================================
