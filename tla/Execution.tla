----------------------------- MODULE Execution -----------------------------
(***************************************************************************)
(* One execution of a check: an NRPE query over TCP or TLS                 *)
(* (internal/nrpeclient, internal/nrpe) or a ping (internal/pinger), from  *)
(* the moment executeCheck makes its context to the moment it has the      *)
(* result.  The peer answers in pieces, wrongly, late or never.            *)
(*                                                                         *)
(* age is the time since the context was made.  A step takes no time, but  *)
(* a wait lasts until something happens or its limit, until, has come:     *)
(* time does not pass that.                                                *)
(***************************************************************************)
EXTENDS Integers

CONSTANTS
  Timeout,      \* the check's execution timeout
  DialLimit,    \* what Dial takes for its timeout if it is not given any
  PingTimeout,  \* defaultPingTimeout
  ResolveTime,  \* bound: how long the resolver takes at most
  StopTime,     \* bound: how long a probe takes at most to end after Stop
  Milli,        \* one millisecond, in units of the clock
  Addresses,    \* bound: the addresses a name has at most
  Rounds,       \* bound: the answers of the peer that a TLS handshake takes
  Waits,        \* bound: the further waits of the socket in one SSL_read, SSL_write or SSL_shutdown
  Header,       \* the pieces of a header
  Packets       \* bound: what peers answer

Statuses == {"OK", "WARNING", "CRITICAL", "UNKNOWN"}
Codes    == {"0", "1", "2", "3", "other"}

\* The length the header declares, the length that was sent and the checksum taken
\* over, whether all arrives unchanged, and whether version and type are right.
Packet == [declared : Nat, length : Nat, sound : BOOLEAN, kind : BOOLEAN, code : Codes]

ASSUME TimesAssumption ==
  /\ Timeout \in Nat \ {0} /\ DialLimit \in Nat \ {0} /\ Milli \in Nat \ {0}
  /\ PingTimeout \in Nat /\ ResolveTime \in Nat /\ StopTime \in Nat
ASSUME SizesAssumption ==
  /\ Addresses \in Nat \ {0} /\ Rounds \in Nat /\ Waits \in Nat
  /\ Header \in Nat \ {0} /\ Packets \subseteq Packet

VARIABLES
  means,      \* the check's type, and the host's nrpe.tls.enabled
  packet,     \* what the peer answers with
  pc, age,
  until,      \* when the present wait ends by itself
  limit,      \* nrpe_ssl_conn.timeout_ms: how long one operation may wait
  left,       \* the addresses still to try, or rounds or waits still to come
  taken,      \* the pieces of the packet read so far
  cancelled,  \* the daemon shuts down
  held,       \* what has been acquired and not been released
  misused,    \* history: something was released that was not held, or acquired over what was
  result

vars == <<means, packet, pc, age, until, limit, left, taken, cancelled, held, misused, result>>
fixed == <<means, packet, age, cancelled>>

Least(m, n) == IF m <= n THEN m ELSE n

Init ==
  /\ means \in {"tcp", "tls", "ping"} /\ packet \in Packets
  /\ pc = "begin" /\ age = 0 /\ until = Timeout
  /\ limit = 0 /\ left = 0 /\ taken = 0
  /\ cancelled = FALSE /\ held = {} /\ misused = FALSE
  /\ result = "none"

Give(S) == held' = held \ S /\ misused' = (misused \/ ~(S \subseteq held))
Take(S) == held' = held \cup S /\ misused' = (misused \/ S \cap held # {})

\* The execution is over; what S names is released on the way out.
Over(S, r) ==
  /\ pc' = "over" /\ result' = r
  /\ Give(S)
  /\ UNCHANGED <<fixed, until, limit, left, taken>>

\* Go on to p, where a wait of at most w begins.
Go(p, w) == pc' = p /\ until' = age + w /\ UNCHANGED <<fixed, result>>

-----------------------------------------------------------------------------
(* TCP and TLS: dialling *)

\* DialContext is bounded by the context alone, and notices its cancellation.
DialTcp ==
  /\ pc = "begin" /\ means = "tcp" /\ age < Timeout /\ ~cancelled
  /\ Go("dial", Timeout - age)
  /\ UNCHANGED <<limit, left, taken, held, misused>>

\* Dial: the default shortened to what remains of the context, in whole
\* milliseconds; but less than one of them becomes the default again.
TlsLimit ==
  LET ms == Least(DialLimit, Timeout - age) \div Milli
  IN  IF ms > 0 THEN ms * Milli ELSE DialLimit

\* The resolver knows of no limit.
DialTls ==
  /\ pc = "begin" /\ means = "tls" /\ age < Timeout
  /\ limit' = TlsLimit
  /\ Go("resolve", ResolveTime)
  /\ UNCHANGED <<left, taken, held, misused>>

\* getaddrinfo gives at least one address.
Resolved ==
  /\ pc = "resolve" /\ means = "tls"
  /\ left' \in 1..Addresses
  /\ Go("socket", 0)
  /\ UNCHANGED <<limit, taken, held, misused>>

\* Each address gets a socket of its own.
OpenSocket ==
  /\ pc = "socket"
  /\ Go("connect", limit)
  /\ Take({"fd"})
  /\ UNCHANGED <<limit, left, taken>>

\* Mutant: the socket of an address that did not answer stays open.
NextAddressLeaks ==
  /\ pc \in {"socket", "connect"} /\ left > 1
  /\ left' = left - 1
  /\ Go("socket", 0)
  /\ UNCHANGED <<limit, taken, held, misused>>

\* There is no socket for an address; or it refuses or its wait ends, and its
\* socket is closed.  The next one is tried.
NextAddress ==
  /\ left > 1
  /\ left' = left - 1
  /\ \/ pc = "socket"  /\ Give({})
     \/ pc = "connect" /\ Give({"fd"})
  /\ Go("socket", 0)
  /\ UNCHANGED <<limit, taken>>

\* nrpe_ssl_connect, step by step: SSL_CTX_new, SSL_new, the rounds of
\* SSL_connect, each with a wait of its own, and calloc.
Connected ==
  /\ pc = "connect"
  /\ Go("configure", 0)
  /\ Take({"ctx"})
  /\ UNCHANGED <<limit, left, taken>>

Configured ==
  /\ pc = "configure"
  /\ left' = Rounds
  /\ Go("handshake", limit)
  /\ Take({"ssl"})
  /\ UNCHANGED <<limit, taken>>

Shake ==
  /\ pc = "handshake" /\ left > 0
  /\ left' = left - 1
  /\ Go("handshake", limit)
  /\ UNCHANGED <<limit, taken, held, misused>>

-----------------------------------------------------------------------------
(* Execute *)

\* The connection is there: SetDeadline, an instant for TCP, but a limit of every
\* single wait for TLS; then the request is written.
Dialled ==
  /\ \/ /\ pc = "dial"
        /\ Go("write", Timeout)
        /\ Take({"fd"})
        /\ UNCHANGED <<limit, left>>
     \/ /\ pc = "handshake" /\ left = 0
        /\ limit' = IF Timeout < Milli THEN limit ELSE (Timeout \div Milli) * Milli
        /\ left' = Waits
        /\ Go("write", limit')
        /\ UNCHANGED <<held, misused>>
  /\ UNCHANGED taken

\* The next operation on the connection: TLS waits anew, TCP's deadline stays.
Again(p) ==
  /\ pc' = p
  /\ \/ means = "tls" /\ until' = age + limit /\ left' = Waits
     \/ means # "tls" /\ UNCHANGED <<until, left>>
  /\ UNCHANGED <<fixed, limit, held, misused>>

Written == pc = "write" /\ Again("read") /\ UNCHANGED <<taken, result>>

Wanted == IF taken < Header THEN Header ELSE Header + packet.declared

\* Mutant: TCP waits anew for every piece too.
ReadRenewing(n) ==
  /\ pc = "read" /\ taken < Wanted /\ taken + n <= Wanted /\ taken + n <= Header + packet.length
  /\ taken' = taken + n
  /\ Go("read", Timeout)
  /\ UNCHANGED <<limit, left, held, misused>>

\* The next n pieces, of the header first and then of what it declares.
Read(n) ==
  /\ pc = "read" /\ taken < Wanted /\ taken + n <= Wanted /\ taken + n <= Header + packet.length
  /\ Again("read")
  /\ taken' = taken + n
  /\ UNCHANGED result

\* Mutant: the checksum is not looked at.
GenuineUnchecked == packet.kind

\* verifyCRC over what was read, version and type.  The checksum is taken to tell
\* every change, and every length that is not the one it was made for.
Genuine == packet.sound /\ packet.declared = packet.length /\ packet.kind

\* Mutant: the code is passed on as it is.
MapStatusRaw(code) == code

MapStatus(code) ==
  CASE code = "0" -> "OK" [] code = "1" -> "WARNING" [] code = "2" -> "CRITICAL" [] OTHER -> "UNKNOWN"

\* What the connection is made of.
Connection == IF means = "tls" THEN {"fd", "ctx", "ssl"} ELSE {"fd"}

\* Execute returns r through the deferred Close.  Over TLS this says goodbye
\* first, by SSL_shutdown, which writes and may have to wait.
Leave(r) ==
  \/ means # "tls" /\ Over(Connection, r)
  \/ means = "tls" /\ Again("closing") /\ result' = r /\ UNCHANGED taken

Closed == pc = "closing" /\ Over(Connection, result)

\* The packet is whole.
Complete == pc = "read" /\ taken >= Header /\ taken = Wanted

\* ParseResponse of the whole packet.
Parse ==
  /\ Complete
  /\ Leave(IF Genuine /\ packet.declared > 0 THEN MapStatus(packet.code) ELSE "error")

\* An SSL_write, an SSL_read or SSL_shutdown needs the socket once more: a record
\* goes out or comes in by parts, and each has the whole limit.
WaitOn ==
  /\ pc \in {"write", "read", "closing"} /\ means = "tls" /\ left > 0 /\ ~Complete
  /\ left' = left - 1
  /\ Go(pc, limit)
  /\ UNCHANGED <<limit, taken, held, misused>>

-----------------------------------------------------------------------------
(* Ping *)

\* NewPinger resolves the name; the probe gets a goroutine of its own.
NewPinger ==
  /\ pc = "begin" /\ means = "ping"
  /\ Go("resolve", ResolveTime)
  /\ UNCHANGED <<limit, left, taken, held, misused>>

Probe ==
  /\ pc = "resolve" /\ means = "ping"
  /\ Go("probe", PingTimeout)
  /\ Take({"goroutine"})
  /\ UNCHANGED <<limit, left, taken>>

\* The probe ends first: a reply came, or its own timeout.
Probed ==
  /\ pc = "probe"
  /\ \E r \in {"OK", "error"} : Over({"goroutine"}, r)

\* The context ends first: Stop, and the goroutine is waited for.
StopProbe ==
  /\ pc = "probe" /\ (cancelled \/ age >= Timeout)
  /\ Go("stopping", StopTime)
  /\ UNCHANGED <<limit, left, taken, held, misused>>

Stopped == pc = "stopping" /\ Over({"goroutine"}, "error")

-----------------------------------------------------------------------------

\* What is released when that step of making a TLS connection fails.
Frees ==
  CASE pc = "connect" -> {"fd"} [] pc = "configure" -> {"fd", "ctx"} [] OTHER -> {"fd", "ctx", "ssl"}

\* Mutant: a read has no limit.
FailNotReading ==
  \/ pc \in {"begin", "resolve", "dial"} /\ Over({}, "error")
  \/ pc = "socket" /\ left = 1 /\ Over({}, "error")
  \/ pc \in {"connect", "configure", "handshake"} /\ Over(Frees, "error")
  \/ pc = "write" /\ Leave("error")

\* Any step fails, at once or when its wait is over: the error paths of Dial, of
\* nrpe_ssl_connect (at "connect" the last address, or what follows a connection),
\* and of Execute, which closes what was dialled.
Fail ==
  \/ pc \in {"begin", "resolve", "dial"} /\ Over({}, "error")
  \/ pc = "socket" /\ left = 1 /\ Over({}, "error")
  \/ pc \in {"connect", "configure", "handshake"} /\ Over(Frees, "error")
  \/ pc \in {"write", "read"} /\ Leave("error")

Cancel ==
  /\ pc # "over" /\ ~cancelled
  /\ cancelled' = TRUE
  /\ UNCHANGED <<means, packet, pc, age, until, limit, left, taken, held, misused, result>>

\* The steps that notice the context at once, and what is left to do without waiting.
Noticing == pc = "dial" \/ pc = "probe"
Ready    == (pc = "handshake" /\ left = 0) \/ Complete

Tick ==
  /\ pc # "over" /\ age < until /\ ~Ready
  /\ Noticing => ~cancelled /\ age < Timeout
  /\ age' = age + 1
  /\ UNCHANGED <<means, packet, pc, until, limit, left, taken, cancelled, held, misused, result>>

Dialling == DialTcp \/ DialTls \/ Resolved \/ OpenSocket \/ NextAddress \/ Connected \/ Configured
              \/ Shake \/ Dialled
Asking   == Written \/ (\E n \in 1..Wanted : Read(n)) \/ WaitOn \/ Parse \/ Closed
Pinging  == NewPinger \/ Probe \/ Probed \/ StopProbe \/ Stopped

Step == Dialling \/ Asking \/ Pinging \/ Fail
Next == Step \/ Cancel \/ Tick
Spec == Init /\ [][Next]_vars

\* Time passes, and a step is taken when time cannot.
FairSpec == Spec /\ WF_vars(Step \/ Tick)

-----------------------------------------------------------------------------
(* Properties *)

TypeOK ==
  /\ means \in {"tcp", "tls", "ping"} /\ packet \in Packets
  /\ pc \in {"begin", "dial", "resolve", "socket", "connect", "configure", "handshake",
             "write", "read", "closing", "probe", "stopping", "over"}
  /\ age \in Nat /\ until \in Nat /\ limit \in Nat /\ left \in 0..(Addresses + Rounds + Waits)
  /\ taken \in 0..(Header + packet.length)
  /\ cancelled \in BOOLEAN /\ misused \in BOOLEAN
  /\ held \subseteq {"fd", "ctx", "ssl", "goroutine"}
  /\ result \in Statuses \cup {"none", "error"}

\* When the execution is over, on whatever path, all that was acquired has been
\* released, the socket of every address, OpenSSL's objects and the probe's
\* goroutine; nothing is released twice, and nothing is lost by acquiring the next.
Released == ~misused /\ (pc = "over" => held = {})

\* A status is reported only if a packet arrived whole and unchanged, in whatever
\* pieces, and it is the one the peer gave; a ping has no other but OK.
AnswerGenuine ==
  result \notin {"none", "error"} =>
    IF means = "ping" THEN result = "OK"
    ELSE /\ taken = Header + packet.length
         /\ packet.sound /\ packet.kind
         /\ result = MapStatus(packet.code)

Longest == IF DialLimit < Timeout THEN Timeout ELSE DialLimit

\* How long an execution can take: over TCP twice the timeout, for dialling and for
\* the rest; a ping the timeout, the resolver and what the probe takes to stop; over
\* TLS every wait counts by itself, one for each address and round of the handshake,
\* and those of the write, of each piece of the answer and of the close.
InTime ==
  CASE means = "tcp"  -> age <= 2 * Timeout
    [] means = "ping" -> age <= Timeout + ResolveTime + StopTime
    [] means = "tls"  ->
         age <= Timeout + ResolveTime
                + (Addresses + Rounds + (Waits + 1) * (Header + packet.declared + 2)) * Longest

\* Every execution ends, which the scheduler's progress rests on.
Ends == <>(pc = "over")
=============================================================================
