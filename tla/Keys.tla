-------------------------------- MODULE Keys --------------------------------
(***************************************************************************)
(* The keys the daemon's maps are indexed by: a host and a check name in   *)
(* one string, with a separator in between.  Strings are sequences of      *)
(* characters here.  Nothing looks at the characters of a name: the loader *)
(* only refuses one that is empty, and a host may be host:port or an IPv6  *)
(* address.  Whether a key stands for one pair depends on the names.       *)
(***************************************************************************)
EXTENDS Sequences, Naturals

CONSTANTS
  Char, Colon, Nul,      \* the characters, and the two used as separators
  HostNames, CheckNames  \* the names a configuration gives, and the callers ask for

ASSUME CharAssumption == Colon \in Char /\ Nul \in Char
ASSUME NameAssumption ==
  HostNames \subseteq Seq(Char) \ {<<>>} /\ CheckNames \subseteq Seq(Char) \ {<<>>}

\* downtime.buildKey and alerts.keyFor, host::check.
BuildKey(h, c) == h \o <<Colon, Colon>> \o c

\* scheduler.assignmentKey, host, NUL, check.
AssignmentKey(h, c) == h \o <<Nul>> \o c

\* The bucket of the downtimes of everything.
GlobalKey == <<Colon, Colon>>

Pairs == HostNames \X CheckNames

\* Keys of different pairs differ, in all three maps, and none is the key of the
\* downtimes of everything: else one check's downtime would mute another, one
\* check's recovery close another's incident, one request run another check.
KeysApart ==
  \A p, q \in Pairs :
    /\ BuildKey(p[1], p[2]) = BuildKey(q[1], q[2]) => p = q
    /\ AssignmentKey(p[1], p[2]) = AssignmentKey(q[1], q[2]) => p = q
    /\ BuildKey(p[1], p[2]) # GlobalKey

\* A host whose colons are followed by something else, and a check whose colons
\* come after something else: "localhost:5666" is such a host, "fe80::1" is not.
ClearHost(h)  == \A i \in 1..Len(h) : h[i] = Colon => i < Len(h) /\ h[i + 1] # Colon
ClearCheck(c) == \A i \in 1..Len(c) : c[i] = Colon => i > 1 /\ c[i - 1] # Colon
Without(s, x) == \A i \in 1..Len(s) : s[i] # x

\* It is enough for the keys that one half of every pair is clear.
NamesClear ==
  /\ (\A h \in HostNames : ClearHost(h)) \/ (\A c \in CheckNames : ClearCheck(c))
  /\ (\A h \in HostNames : Without(h, Nul)) \/ (\A c \in CheckNames : Without(c, Nul))
=============================================================================
