------------------------------ MODULE MCConfig ------------------------------
(* A small instance of Config for TLC: the files there may be. *)
EXTENDS Config

CONSTANTS h1, h2, l1, l2

SeqsUpTo(S, n) == UNION {[1..k -> S] : k \in 0..n}
All(x) == [s \in Settings |-> x]

HostEntry(name, ping, labels, tls) ==
  [hostname |-> name, ping |-> ping, labels |-> labels, tls |-> tls]

\* h1 twice, with other labels; a host with both labels; one without a hostname.
SomeHosts ==
  {HostEntry(h1, TRUE, <<l1>>, None), HostEntry(h1, FALSE, <<l2>>, FALSE),
   HostEntry(h2, TRUE, <<l2, l1>>, None), HostEntry(None, FALSE, <<>>, TRUE)}

Check(name, labels, hosts, any, set) ==
  [name |-> name, command |-> "command", type |-> None, labels |-> labels,
   hosts |-> hosts, any |-> any, set |-> set]

\* The same name by label, by host and for any host; a Ping of the user's own,
\* by label and for any host; one with a negative setting.
GoodChecks ==
  {Check("Disk", {l1}, {}, FALSE, All(0)), Check("Disk", {}, {h1}, FALSE, All(3)),
   Check("Disk", {l2}, {}, TRUE, [All(2) EXCEPT !["MinFail"] = -1]),
   Check("Ping", {l2}, {}, FALSE, All(5)), Check("Ping", {}, {}, TRUE, All(4)),
   Check("Load", {l1}, {h2}, FALSE, All(-1))}

\* One that lacks its name, its command, a known type, a host to run on.
BadChecks ==
  LET c == Check("Bad", {l1}, {}, FALSE, All(0)) IN
  {[c EXCEPT !.name = None], [c EXCEPT !.command = None], [c EXCEPT !.type = "smtp"],
   [c EXCEPT !.labels = {}]}

Plain ==
  [hosts |-> <<HostEntry(h1, TRUE, <<l1>>, None)>>, checks |-> <<>>, sched |-> All(0),
   tls |-> None, port |-> 0, username |-> "admin", password |-> "secret", ttl |-> 0,
   notifiers |-> <<>>, telegram |-> FALSE, repeat |-> 0]

Bodies(H, C) == {[Plain EXCEPT !.hosts = hs, !.checks = cs] : hs \in H, cs \in C}

Heads ==
  [hosts : {Plain.hosts}, checks : {<<>>, <<Check("Disk", {l1}, {}, FALSE, All(0))>>},
   sched : {All(0), All(7), All(-2)}, tls : {None, FALSE}, port : {0, 443, -1},
   username : {None, "admin"}, password : {None, "secret"}, ttl : {-5, 0, 60},
   notifiers : {<<>>, <<"LOG">>, <<"log", "Telegram">>, <<"mail">>},
   telegram : BOOLEAN, repeat : {-1, 30}]

StringsValue ==
  {"Disk", "Ping", "Load", "Bad", "command", "builtin_ping", "nrpe", "ping", "smtp",
   "admin", "secret", "LOG", "log", "Telegram", "telegram", "mail"}

FilesValue ==
  Bodies(SeqsUpTo(SomeHosts, 2), SeqsUpTo(GoodChecks \cup BadChecks, 2))
    \cup Bodies(SeqsUpTo(SomeHosts, 3), [1..2 -> GoodChecks])
    \cup Bodies([1..2 -> SomeHosts], [1..3 -> GoodChecks])
    \cup Heads
=============================================================================
