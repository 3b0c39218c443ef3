--------------------------- MODULE ExecutionProofs ---------------------------
(***************************************************************************)
(* An execution for any timeouts, addresses, rounds and packets.  What is  *)
(* held is told by the step that the execution has reached, and the time   *)
(* it has taken by the waits that are over.                                *)
(***************************************************************************)
EXTENDS Execution, TLAPS

\* What is held at each step, of which kind of execution the step is.
Place ==
  /\ pc = "begin"     => held = {}
  /\ pc = "dial"      => means = "tcp" /\ held = {}
  /\ pc = "resolve"   => means \in {"tls", "ping"} /\ held = {}
  /\ pc = "socket"    => means = "tls" /\ held = {}
  /\ pc = "connect"   => means = "tls" /\ held = {"fd"}
  /\ pc = "configure" => means = "tls" /\ held = {"fd", "ctx"}
  /\ pc = "handshake" => means = "tls" /\ held = {"fd", "ctx", "ssl"}
  /\ pc \in {"write", "read"} => means \in {"tcp", "tls"} /\ held = Connection
  /\ pc = "closing"   => means = "tls" /\ held = Connection /\ result # "none"
  /\ pc \in {"probe", "stopping"} => means = "ping" /\ held = {"goroutine"}
  /\ pc \notin {"closing", "over"} => result = "none"
  /\ pc = "over"      => held = {} /\ result # "none"
  /\ ~misused

\* The time there is before the k-th wait of a TLS execution is over.
Bound(k) == Timeout + ResolveTime + k * Longest

\* How long every step may last, and may have taken: the waits that are over count,
\* and the one that is under way does.
Waiting ==
  /\ age <= until
  /\ pc = "begin" => until = Timeout
  /\ pc \notin {"read", "closing", "over"} => taken = 0

TcpClock ==
  means = "tcp" =>
    /\ pc = "dial" => until = Timeout
    /\ until <= 2 * Timeout

PingClock ==
  means = "ping" =>
    /\ pc = "resolve" => until <= Timeout + ResolveTime
    /\ pc # "stopping" /\ pc # "over" => age <= Timeout + ResolveTime
    /\ pc = "stopping" => until <= Timeout + ResolveTime + StopTime
    /\ age <= Timeout + ResolveTime + StopTime

\* The waits of a TLS execution before the k-th operation of its connection.
Op(k) == Addresses + Rounds + k * (Waits + 1)

\* The pieces that an execution reads at most.
Pieces == Header + packet.declared

\* The waits there can have been, the one that is under way included.
WaitNo ==
  CASE pc = "socket"    -> Addresses - left
    [] pc = "connect"   -> Addresses - left + 1
    [] pc = "configure" -> Addresses
    [] pc = "handshake" -> Addresses + Rounds - left + (IF left > 0 THEN 1 ELSE 0)
    [] pc = "write"     -> Op(0) + Waits + 1 - left
    [] pc = "read"      -> IF taken < Pieces THEN Op(taken + 1) + Waits + 1 - left ELSE Op(taken + 1)
    [] pc = "closing"   -> Op(Pieces + 1) + Waits + 1 - left
    [] OTHER            -> 0

\* What is left at each step.
Lefts ==
  /\ pc \in {"socket", "connect"} => left \in 1..Addresses
  /\ pc = "handshake" => left \in 0..Rounds
  /\ pc \in {"write", "read", "closing"} => left \in 0..Waits
  /\ pc = "read" => taken <= Pieces

Timely(k, a, u, over) == k \in 0..Op(Pieces + 2) /\ a <= Bound(k) /\ (~over => u <= Bound(k))

TlsClock ==
  means = "tls" =>
    /\ limit <= Longest
    /\ Lefts
    /\ pc # "over" => Timely(WaitNo, age, until, Ready)
    /\ age <= Bound(Op(Pieces + 2))

Clock == Waiting /\ TcpClock /\ PingClock /\ TlsClock

IInv == TypeOK /\ Place /\ AnswerGenuine /\ Clock

LEMMA Bounds ==
  /\ Longest \in Nat /\ Timeout <= Longest /\ DialLimit <= Longest
  /\ \A k \in Nat : Bound(k) \in Nat /\ Bound(k + 1) = Bound(k) + Longest
  /\ \A j, k \in Nat : j <= k => Bound(j) <= Bound(k)
  <1>1. Longest \in Nat /\ Timeout <= Longest /\ DialLimit <= Longest
    BY TimesAssumption DEF Longest
  <1>2. ASSUME NEW L \in Nat
        PROVE /\ \A k \in Nat : k * L \in Nat /\ (k + 1) * L = k * L + L
              /\ \A j, k \in Nat : j <= k => j * L <= k * L
    OBVIOUS
  <1> QED
    BY <1>1, <1>2, TimesAssumption DEF Bound

\* The bounds of what a packet declares and has.
LEMMA Sizes == TypeOK => /\ packet \in Packet /\ packet.declared \in Nat /\ packet.length \in Nat
                         /\ Wanted \in Nat
  BY SizesAssumption DEF TypeOK, Packet, Wanted

LEMMA Ops ==
  /\ \A k \in Nat : Op(k) \in Nat /\ Op(k + 1) = Op(k) + Waits + 1
  /\ \A j, k \in Nat : j <= k => Op(j) <= Op(k)
  /\ Op(0) = Addresses + Rounds
  <1>1. ASSUME NEW W \in Nat
        PROVE /\ \A k \in Nat : k * W \in Nat /\ (k + 1) * W = k * W + W
              /\ \A j, k \in Nat : j <= k => j * W <= k * W
              /\ 0 * W = 0
    OBVIOUS
  <1>2. Waits + 1 \in Nat
    BY SizesAssumption
  <1> QED
    BY <1>1, <1>2, SizesAssumption DEF Op

LEMMA InitHolds == Init => IInv
  <1> SUFFICES ASSUME Init PROVE IInv
    OBVIOUS
  <1>1. TypeOK
    <2>1. packet.length \in Nat
      BY SizesAssumption DEF Init, Packet
    <2>2. 0 \in 0..(Header + packet.length) /\ 0 \in 0..(Addresses + Rounds + Waits)
      BY <2>1, SizesAssumption
    <2> QED
      BY <2>2, TimesAssumption DEF Init, TypeOK
  <1>2. Place /\ AnswerGenuine
    BY DEF Init, Place, AnswerGenuine
  <1>3. Clock
    <2>1. Pieces + 2 \in Nat
      BY <1>1, Sizes, SizesAssumption DEF Pieces
    <2>2. Op(Pieces + 2) \in Nat /\ 0 \in 0..Op(Pieces + 2)
      BY <2>1, Ops
    <2>3. Longest \in Nat /\ Bound(0) = Timeout + ResolveTime /\ Bound(0) <= Bound(Op(Pieces + 2))
          /\ Bound(Op(Pieces + 2)) \in Nat
      BY <2>2, Bounds, TimesAssumption DEF Bound
    <2>4. WaitNo = 0
      BY DEF Init, WaitNo
    <2>5. TlsClock
      BY <2>2, <2>3, <2>4, TimesAssumption DEF Init, TlsClock, Lefts, Timely
    <2> QED
      BY <2>5, TimesAssumption DEF Init, Clock, Waiting, TcpClock, PingClock
  <1> QED
    BY <1>1, <1>2, <1>3 DEF IInv

\* The limit of a TLS connection is one of a dial's or of the timeout's.
LEMMA Floor == \A x \in Nat : x \div Milli \in Nat /\ (x \div Milli) * Milli \in Nat /\ (x \div Milli) * Milli <= x
  BY TimesAssumption

LEMMA DialLimits == TypeOK /\ age < Timeout => TlsLimit \in Nat /\ TlsLimit <= DialLimit
  BY TimesAssumption, Floor DEF TypeOK, TlsLimit, Least

-----------------------------------------------------------------------------
(* The steps *)

LEMMA TypeKeeps == TypeOK /\ [Next]_vars => TypeOK'
  <1> SUFFICES ASSUME TypeOK, [Next]_vars PROVE TypeOK'
    OBVIOUS
  <1> USE TimesAssumption, SizesAssumption
  <1>1. CASE UNCHANGED vars
    BY <1>1 DEF vars, TypeOK
  <1>2. CASE DialTcp
    BY <1>2 DEF DialTcp, Go, fixed, TypeOK
  <1>3. CASE DialTls
    BY <1>3, DialLimits DEF DialTls, Go, fixed, TypeOK
  <1>4. CASE Resolved \/ OpenSocket
    <2>1. CASE Resolved
      BY <2>1 DEF Resolved, Go, fixed, TypeOK
    <2>2. CASE OpenSocket
      BY <2>2 DEF OpenSocket, Go, Take, fixed, TypeOK
    <2> QED
      BY <1>4, <2>1, <2>2
  <1>5. CASE NextAddress
    <2>1. left' \in 0..(Addresses + Rounds + Waits)
      BY <1>5 DEF NextAddress, TypeOK
    <2>2. /\ pc' = "socket" /\ until' = age
          /\ UNCHANGED <<means, packet, age, limit, taken, cancelled, result>>
      BY <1>5 DEF NextAddress, Go, fixed, TypeOK
    <2>3. held' \subseteq {"fd", "ctx", "ssl", "goroutine"} /\ misused' \in BOOLEAN
      <3>1. ASSUME NEW S, Give(S) PROVE held' \subseteq held /\ misused' \in BOOLEAN
        BY <3>1, Zenon DEF Give
      <3> QED
        BY <1>5, <3>1 DEF NextAddress, TypeOK
    <2> QED
      BY <2>1, <2>2, <2>3 DEF TypeOK
  <1>6. CASE Connected \/ Configured
    <2>1. CASE Connected
      BY <2>1 DEF Connected, Go, Take, fixed, TypeOK
    <2>2. CASE Configured
      BY <2>2 DEF Configured, Go, Take, fixed, TypeOK
    <2> QED
      BY <1>6, <2>1, <2>2
  <1>7. CASE Shake
    BY <1>7 DEF Shake, Go, fixed, TypeOK
  <1>8. CASE Dialled
    <2>1. CASE pc = "dial"
      <3>1. /\ held' = held \cup {"fd"} /\ misused' \in BOOLEAN /\ pc' = "write"
            /\ until' = age + Timeout
            /\ UNCHANGED <<means, packet, age, limit, left, taken, cancelled, result>>
        BY <1>8, <2>1 DEF Dialled, Go, Take, fixed, TypeOK
      <3> QED
        BY <3>1 DEF TypeOK
    <2>2. CASE pc = "handshake"
      <3>1. limit' \in Nat
        BY <1>8, <2>2, Floor DEF Dialled, TypeOK
      <3>2. /\ pc' = "write" /\ until' = age + limit' /\ left' = Waits
            /\ UNCHANGED <<means, packet, age, taken, cancelled, held, misused, result>>
        BY <1>8, <2>2 DEF Dialled, Go, fixed
      <3>3. until' \in Nat
        <4>1. \A x, y \in Nat : x + y \in Nat
          OBVIOUS
        <4>2. age \in Nat /\ until' = age + limit'
          BY <3>2 DEF TypeOK
        <4> QED
          BY <3>1, <4>1, <4>2, Zenon
      <3>4. left' \in 0..(Addresses + Rounds + Waits)
        BY <3>2
      <3> QED
        BY <3>1, <3>2, <3>3, <3>4 DEF TypeOK
    <2> QED
      BY <1>8, <2>1, <2>2 DEF Dialled
  <1>9. CASE Written \/ WaitOn
    <2>1. CASE Written
      BY <2>1 DEF Written, Again, fixed, TypeOK
    <2>2. CASE WaitOn
      <3>1. left' \in 0..(Addresses + Rounds + Waits)
        BY <2>2 DEF WaitOn, TypeOK
      <3> QED
        BY <2>2, <3>1 DEF WaitOn, Go, fixed, TypeOK
    <2> QED
      BY <1>9, <2>1, <2>2
  <1>10. ASSUME NEW n \in 1..Wanted, Read(n) PROVE TypeOK'
    <2>1. packet.length \in Nat /\ Wanted \in Nat
      BY Sizes
    <2>2. taken' \in 0..(Header + packet.length)
      BY <1>10, <2>1 DEF Read, TypeOK
    <2> QED
      BY <1>10, <2>2 DEF Read, Again, fixed, TypeOK
  <1>11. ASSUME NEW r \in Statuses \cup {"error"}, Leave(r) PROVE TypeOK'
    <2>1. CASE means = "tls"
      <3>1. /\ pc' = "closing" /\ until' = age + limit /\ left' = Waits /\ result' = r
            /\ UNCHANGED <<means, packet, age, limit, taken, cancelled, held, misused>>
        BY <1>11, <2>1 DEF Leave, Again, fixed
      <3> QED
        BY <1>11, <3>1 DEF TypeOK
    <2>2. CASE means # "tls"
      BY <1>11, <2>2 DEF Leave, Over, Give, fixed, TypeOK
    <2> QED
      BY <2>1, <2>2
  <1>12. CASE Parse
    <2>1. MapStatus(packet.code) \in Statuses
      BY DEF MapStatus, Statuses
    <2> QED
      BY <1>11, <1>12, <2>1 DEF Parse
  <1>13. CASE NewPinger \/ Probe \/ StopProbe
    <2>1. CASE NewPinger
      BY <2>1 DEF NewPinger, Go, fixed, TypeOK
    <2>2. CASE Probe
      BY <2>2 DEF Probe, Go, Take, fixed, TypeOK
    <2>3. CASE StopProbe
      BY <2>3 DEF StopProbe, Go, fixed, TypeOK
    <2> QED
      BY <1>13, <2>1, <2>2, <2>3
  <1>14. CASE Probed \/ Stopped \/ Closed
    BY <1>14 DEF Probed, Stopped, Closed, Over, Give, fixed, Statuses, TypeOK
  <1>16. CASE Fail
    <2>1. ASSUME NEW S, Over(S, "error") PROVE TypeOK'
      BY <2>1 DEF Over, Give, fixed, TypeOK
    <2> QED
      BY <1>11, <1>16, <2>1 DEF Fail
  <1>15. CASE Cancel \/ Tick
    <2>1. CASE Cancel
      BY <2>1 DEF Cancel, TypeOK
    <2>2. CASE Tick
      BY <2>2 DEF Tick, TypeOK
    <2> QED
      BY <1>15, <2>1, <2>2
  <1> QED
    BY <1>1, <1>2, <1>3, <1>4, <1>5, <1>6, <1>7, <1>8, <1>9, <1>10, <1>11, <1>12, <1>13, <1>14, <1>15,
       <1>16
       DEF Next, Step, Dialling, Asking, Pinging

\* Each step takes and releases what its place says.
LEMMA PlaceKeeps == TypeOK /\ Place /\ [Next]_vars => Place'
  <1> SUFFICES ASSUME TypeOK, Place, [Next]_vars PROVE Place'
    OBVIOUS
  <1>1. CASE UNCHANGED vars
    BY <1>1 DEF vars, Place, Connection
  <1>2. CASE DialTcp \/ DialTls
    BY <1>2 DEF DialTcp, DialTls, Go, fixed, Place
  <1>3. CASE Resolved
    <2>1. means' = "tls" /\ pc' = "socket" /\ held' = {} /\ ~misused' /\ result' = "none"
      BY <1>3 DEF Resolved, Go, fixed, Place
    <2> QED
      BY <2>1 DEF Place
  <1>3a. CASE OpenSocket
    <2>1. means' = "tls" /\ pc' = "connect" /\ held' = {"fd"} /\ ~misused' /\ result' = "none"
      BY <1>3a DEF OpenSocket, Go, Take, fixed, Place
    <2> QED
      BY <2>1 DEF Place
  <1>3b. CASE NextAddress
    <2>1. means' = "tls" /\ pc' = "socket" /\ held' = {} /\ ~misused' /\ result' = "none"
      BY <1>3b DEF NextAddress, Go, Give, fixed, Place
    <2> QED
      BY <2>1 DEF Place
  <1>4. CASE Connected
    <2>1. means' = "tls" /\ pc' = "configure" /\ held' = {"fd", "ctx"} /\ ~misused' /\ result' = "none"
      BY <1>4 DEF Connected, Go, Take, fixed, Place
    <2> QED
      BY <2>1 DEF Place
  <1>4a. CASE Configured
    <2>1. means' = "tls" /\ pc' = "handshake" /\ held' = {"fd", "ctx", "ssl"} /\ ~misused' /\ result' = "none"
      BY <1>4a DEF Configured, Go, Take, fixed, Place
    <2> QED
      BY <2>1 DEF Place
  <1>4b. CASE Shake
    <2>1. means' = "tls" /\ pc' = "handshake" /\ held' = {"fd", "ctx", "ssl"} /\ ~misused' /\ result' = "none"
      BY <1>4b DEF Shake, Go, fixed, Place
    <2> QED
      BY <2>1 DEF Place
  <1>5. CASE Dialled
    <2>1. /\ means' = means /\ pc' = "write" /\ ~misused' /\ result' = "none"
          /\ \/ means = "tcp" /\ held' = {"fd"}
             \/ means = "tls" /\ held' = {"fd", "ctx", "ssl"}
      <3>1. CASE pc = "dial"
        BY <1>5, <3>1 DEF Dialled, Go, Take, fixed, Place
      <3>2. CASE pc = "handshake"
        BY <1>5, <3>2 DEF Dialled, Go, fixed, Place
      <3> QED
        BY <1>5, <3>1, <3>2 DEF Dialled
    <2> QED
      BY <2>1 DEF Place, Connection
  <1>6. CASE Written \/ WaitOn
    BY <1>6 DEF Written, WaitOn, Go, Again, fixed, Place, Connection
  <1>7. ASSUME NEW n \in 1..Wanted, Read(n) PROVE Place'
    BY <1>7 DEF Read, Again, fixed, Place, Connection
  <1>8. ASSUME NEW r, r # "none", pc \in {"write", "read"}, Leave(r) PROVE Place'
    <2>1. CASE means = "tls"
      BY <1>8, <2>1 DEF Leave, Again, fixed, Place, Connection
    <2>2. CASE means # "tls"
      <3>1. pc' = "over" /\ held' = {} /\ ~misused' /\ result' = r
        BY <1>8, <2>2 DEF Leave, Over, Give, Place
      <3> QED
        BY <1>8, <3>1 DEF Place
    <2> QED
      BY <2>1, <2>2
  <1>9. CASE Parse
    <2>1. MapStatus(packet.code) # "none"
      BY DEF MapStatus
    <2> QED
      BY <1>8, <1>9, <2>1 DEF Parse, Complete
  <1>10. CASE NewPinger \/ Probe \/ StopProbe
    <2>1. CASE NewPinger
      BY <2>1 DEF NewPinger, Go, fixed, Place
    <2>2. CASE Probe
      BY <2>2 DEF Probe, Go, Take, fixed, Place
    <2>3. CASE StopProbe
      BY <2>3 DEF StopProbe, Go, fixed, Place
    <2> QED
      BY <1>10, <2>1, <2>2, <2>3
  <1>11. CASE Probed \/ Stopped \/ Closed
    <2>1. pc' = "over" /\ held' = {} /\ ~misused' /\ result' # "none"
      BY <1>11 DEF Probed, Stopped, Closed, Over, Give, Place
    <2> QED
      BY <2>1 DEF Place
  <1>12. CASE Fail
    <2>1. CASE pc \in {"write", "read"}
      BY <1>8, <1>12, <2>1 DEF Fail
    <2>2. CASE pc \notin {"write", "read"}
      <3>1. pc' = "over" /\ held' = {} /\ ~misused' /\ result' # "none"
        BY <1>12, <2>2 DEF Fail, Frees, Over, Give, Place
      <3> QED
        BY <3>1 DEF Place
    <2> QED
      BY <2>1, <2>2
  <1>13. CASE Cancel \/ Tick
    BY <1>13 DEF Cancel, Tick, Place, Connection
  <1> QED
    BY <1>1, <1>2, <1>3, <1>3a, <1>3b, <1>4, <1>4a, <1>4b, <1>5, <1>6, <1>7, <1>9, <1>10, <1>11,
       <1>12, <1>13
       DEF Next, Step, Dialling, Asking, Pinging

\* Only Parse gives a status, and only of a packet that is genuine and whole.
LEMMA GenuineKeeps == TypeOK /\ Place /\ AnswerGenuine /\ [Next]_vars => AnswerGenuine'
  <1> SUFFICES ASSUME TypeOK, Place, AnswerGenuine, [Next]_vars PROVE AnswerGenuine'
    OBVIOUS
  <1>1. CASE UNCHANGED vars
    BY <1>1 DEF vars, AnswerGenuine
  <1>2. CASE Dialling
    BY <1>2 DEF Dialling, DialTcp, DialTls, Resolved, OpenSocket, NextAddress, Connected, Configured,
       Shake, Dialled, Go, fixed, Place, AnswerGenuine
  <1>3. CASE Written \/ WaitOn
    BY <1>3 DEF Written, WaitOn, Go, Again, fixed, AnswerGenuine
  <1>4. ASSUME NEW n \in 1..Wanted, Read(n) PROVE AnswerGenuine'
    BY <1>4 DEF Read, Again, Place, AnswerGenuine
  <1>5. CASE Parse
    <2>1. /\ taken >= Header /\ taken = Wanted /\ UNCHANGED <<means, packet, taken>>
          /\ result' = IF Genuine /\ packet.declared > 0 THEN MapStatus(packet.code) ELSE "error"
      BY <1>5 DEF Parse, Complete, Leave, Again, Over, fixed
    <2>2. means # "ping"
      BY <1>5 DEF Parse, Complete, Place
    <2>3. taken = Header + packet.declared
      BY <2>1, Sizes, SizesAssumption DEF Wanted, TypeOK
    <2> QED
      BY <2>1, <2>2, <2>3 DEF AnswerGenuine, Genuine
  <1>6. CASE NewPinger \/ Probe \/ StopProbe
    BY <1>6 DEF NewPinger, Probe, StopProbe, Go, fixed, Place, AnswerGenuine
  <1>7. CASE Probed \/ Stopped \/ Closed
    BY <1>7 DEF Probed, Stopped, Closed, Over, fixed, Place, AnswerGenuine
  <1>8. CASE Fail
    BY <1>8 DEF Fail, Leave, Over, AnswerGenuine
  <1>9. CASE Cancel \/ Tick
    BY <1>9 DEF Cancel, Tick, AnswerGenuine
  <1> QED
    BY <1>1, <1>2, <1>3, <1>4, <1>5, <1>6, <1>7, <1>8, <1>9 DEF Next, Step, Asking, Pinging

\* Before an execution over anything but TLS has waited too long, its wait is over.
LEMMA PlainClockKeeps ==
  TypeOK /\ Place /\ Waiting /\ TcpClock /\ PingClock /\ [Next]_vars => Waiting' /\ TcpClock' /\ PingClock'
  <1> SUFFICES ASSUME TypeOK, Place, Waiting, TcpClock, PingClock, [Next]_vars
               PROVE Waiting' /\ TcpClock' /\ PingClock'
    OBVIOUS
  <1>0. age \in Nat /\ until \in Nat /\ limit \in Nat /\ taken \in Int
    BY DEF TypeOK
  <1> USE <1>0, TimesAssumption DEF Waiting, TcpClock, PingClock
  <1>1. CASE UNCHANGED vars
    BY <1>1 DEF vars
  <1>2. CASE DialTcp
    BY <1>2 DEF DialTcp, Go, fixed
  <1>3. CASE DialTls
    BY <1>3 DEF DialTls, Go, fixed
  <1>4. CASE Resolved
    BY <1>4 DEF Resolved, Go, fixed
  <1>5. CASE OpenSocket \/ NextAddress
    BY <1>5 DEF OpenSocket, NextAddress, Go, fixed, Place
  <1>6. CASE Connected
    BY <1>6 DEF Connected, Go, fixed, Place
  <1>7. CASE Configured
    BY <1>7 DEF Configured, Go, fixed, Place
  <1>8. CASE Shake
    BY <1>8 DEF Shake, Go, fixed, Place
  <1>9. CASE Dialled
    <2>1. CASE pc = "dial"
      BY <1>9, <2>1 DEF Dialled, Go, fixed, Place
    <2>2. CASE pc = "handshake"
      <3>1. limit' \in Nat
        BY <1>9, TypeKeeps DEF TypeOK, Next, Step, Dialling
      <3>2. /\ age' = age /\ pc' = "write" /\ until' = age + limit' /\ means' = "tls" /\ taken' = 0
        BY <1>9, <2>2 DEF Dialled, Go, fixed, Place
      <3>3. age <= age + limit'
        <4>1. \A x, y \in Nat : x <= x + y
          OBVIOUS
        <4> QED
          BY <1>0, <3>1, <4>1, Zenon
      <3>4. Waiting'
        BY <3>2, <3>3
      <3>5. TcpClock' /\ PingClock'
        BY <3>2
      <3> QED
        BY <3>4, <3>5
    <2> QED
      BY <1>9, <2>1, <2>2 DEF Dialled
  <1>10. CASE Written
    BY <1>10 DEF Written, Again, fixed, Place
  <1>11. ASSUME NEW n \in 1..Wanted, Read(n) PROVE Waiting' /\ TcpClock' /\ PingClock'
    BY <1>11 DEF Read, Again, fixed, Place
  <1>12. CASE WaitOn
    BY <1>12 DEF WaitOn, Go, fixed, Place
  <1>13. ASSUME NEW r, Leave(r), pc \in {"write", "read"} PROVE Waiting' /\ TcpClock' /\ PingClock'
    BY <1>13 DEF Leave, Again, Over, fixed, Place
  <1>14. CASE Parse \/ Fail
    <2>1. CASE pc \in {"write", "read"}
      BY <1>13, <1>14, <2>1 DEF Parse, Fail
    <2>2. CASE pc \notin {"write", "read"}
      BY <1>14, <2>2 DEF Parse, Complete, Fail, Over, fixed
    <2> QED
      BY <2>1, <2>2
  <1>15. CASE NewPinger
    BY <1>15 DEF NewPinger, Go, fixed
  <1>16. CASE Probe
    BY <1>16 DEF Probe, Go, fixed
  <1>17. CASE StopProbe
    BY <1>17 DEF StopProbe, Go, fixed, Place
  <1>18. CASE Probed \/ Stopped \/ Closed
    BY <1>18 DEF Probed, Stopped, Closed, Over, fixed
  <1>19. CASE Cancel
    BY <1>19 DEF Cancel
  <1>20. CASE Tick
    <2>1. /\ age < until /\ age' = age + 1 /\ UNCHANGED <<means, pc, until, taken>>
          /\ pc \in {"dial", "probe"} => age < Timeout
          /\ pc # "over"
      BY <1>20 DEF Tick, Noticing
    <2>2. means = "ping" => pc \in {"begin", "resolve", "probe", "stopping"}
      BY <2>1 DEF Place, TypeOK
    <2> QED
      BY <2>1, <2>2
  <1> QED
    BY <1>1, <1>2, <1>3, <1>4, <1>5, <1>6, <1>7, <1>8, <1>9, <1>10, <1>11, <1>12, <1>14, <1>15,
       <1>16, <1>17, <1>18, <1>19, <1>20 DEF Next, Step, Dialling, Asking, Pinging

\* A step that takes no time and begins a wait of at most the limit, one further on,
\* or begins none.
LEMMA Advance ==
  ASSUME NEW k \in Nat, NEW l, NEW T \in Nat, NEW a \in Nat, NEW u \in Nat, NEW w \in Nat,
         NEW over \in BOOLEAN,
         a <= Bound(k), w <= Longest, l \in 0..T,
         \/ k <= l /\ (over \/ u = a)
         \/ k + 1 <= l /\ u = a + w
  PROVE  a <= Bound(l) /\ (~over => u <= Bound(l)) /\ Bound(l) <= Bound(T)
  <1>0. l \in Nat /\ l <= T /\ k + 1 \in Nat
    OBVIOUS
  <1>1. k \in Nat /\ l \in Nat /\ k + 1 \in Nat /\ Bound(k) \in Nat /\ Bound(l) \in Nat /\ Longest \in Nat
    BY <1>0, Bounds
  <1>2. Bound(k + 1) = Bound(k) + Longest /\ Bound(l) <= Bound(T)
    BY <1>0, <1>1, Bounds
  <1>3. CASE k <= l /\ (over \/ u = a)
    <2>1. Bound(k) <= Bound(l)
      BY <1>1, <1>3, Bounds
    <2> QED
      BY <1>1, <1>2, <1>3, <2>1
  <1>4. CASE k + 1 <= l /\ u = a + w
    <2>1. Bound(k + 1) <= Bound(l)
      BY <1>1, <1>4, Bounds
    <2>2. a + w <= Bound(k + 1)
      BY <1>1, <1>2
    <2>3. Bound(k + 1) \in Nat /\ a <= Bound(k + 1)
      BY <1>1, <1>2
    <2> QED
      BY <1>1, <1>2, <1>4, <2>1, <2>2, <2>3
  <1> QED
    BY <1>3, <1>4

\* No wait of TLS is longer than the limit, and each makes way for the next.
LEMMA TlsClockKeeps == TypeOK /\ Place /\ Waiting /\ TlsClock /\ [Next]_vars => TlsClock'
  <1> DEFINE T == Op(Pieces + 2)
  <1> SUFFICES ASSUME TypeOK, Place, Waiting, TlsClock, [Next]_vars, means' = "tls"
               PROVE TlsClock'
    BY DEF TlsClock
  <1>0. /\ age \in Nat /\ until \in Nat /\ limit \in Nat /\ taken \in Nat /\ left \in Nat
        /\ Addresses \in Nat \ {0} /\ Rounds \in Nat /\ Waits \in Nat
        /\ Pieces \in Nat /\ Wanted \in Nat /\ Wanted <= Pieces
        /\ packet' = packet /\ Pieces' = Pieces /\ means = "tls"
    <2>1. packet' = packet /\ means' = means
      BY DEF Next, Step, Dialling, Asking, Pinging, DialTcp, DialTls, Resolved, OpenSocket, NextAddress,
         Connected, Configured, Shake, Dialled, Written, WaitOn, Read, Parse, Leave, Closed, NewPinger,
         Probe, Probed, StopProbe, Stopped, Fail, Cancel, Tick, Go, Again, Over, fixed, vars
    <2>2. taken \in Nat /\ left \in Nat
      BY Sizes, SizesAssumption DEF TypeOK
    <2> QED
      BY <2>1, <2>2, Sizes, SizesAssumption DEF TypeOK, Pieces, Wanted
  <1>1. limit <= Longest /\ Lefts /\ (pc # "over" => Timely(WaitNo, age, until, Ready)) /\ age <= Bound(T)
    BY <1>0 DEF TlsClock
  <1>2. T \in Nat /\ Longest \in Nat /\ Bound(T) \in Nat
    <2>1. Pieces + 2 \in Nat
      BY <1>0
    <2> QED
      BY <2>1, Ops, Bounds
  <1>3. /\ Op(0) = Addresses + Rounds
        /\ \A k \in Nat : Op(k) \in Nat /\ Op(k + 1) = Op(k) + Waits + 1
        /\ \A j, k \in Nat : j <= k => Op(j) <= Op(k)
    BY Ops
  <1>4. /\ Op(0) \in Nat /\ Op(0) = Addresses + Rounds /\ Op(0) <= T
        /\ Op(1) \in Nat /\ Op(1) = Op(0) + Waits + 1 /\ Op(1) <= T
        /\ Op(Pieces + 1) \in Nat /\ T = Op(Pieces + 1) + Waits + 1
    <2>1. Op(0) \in Nat /\ Op(1) \in Nat /\ Op(0) <= T /\ Op(1) <= T
      <3>1. 0 <= Pieces + 2 /\ 1 <= Pieces + 2 /\ Pieces + 2 \in Nat
        BY <1>0
      <3> QED
        BY <1>3, <3>1
    <2>2. Op(0 + 1) = Op(0) + Waits + 1 /\ Op(Pieces + 1 + 1) = Op(Pieces + 1) + Waits + 1
          /\ Op(Pieces + 1) \in Nat
      <3>1. 0 \in Nat /\ Pieces + 1 \in Nat
        BY <1>0
      <3> QED
        BY <1>3, <3>1, Zenon
    <2>3. 0 + 1 = 1 /\ Pieces + 1 + 1 = Pieces + 2
      BY <1>0
    <2> QED
      BY <1>3, <2>1, <2>2, <2>3
  <1> HIDE DEF T
  <1>5. T' = T
    BY <1>0 DEF T, Op
  <1> DEFINE k == WaitNo
  <1>6. pc # "over" => k \in 0..T /\ age <= Bound(k) /\ (~Ready => until <= Bound(k))
    BY <1>1 DEF Timely, T
  \* What a step has to show: how far it moves the number of waits.
  <1>7. ASSUME pc # "over", pc' # "over", age' = age, until' \in Nat, limit' \in Nat,
               limit' <= Longest, Lefts', WaitNo' \in 0..T,
               \/ k <= WaitNo' /\ (Ready' \/ until' = age)
               \/ k + 1 <= WaitNo' /\ until' = age + limit'
        PROVE  TlsClock'
    <2>1. Ready' \in BOOLEAN /\ k \in Nat /\ age <= Bound(k)
      BY <1>2, <1>6, <1>7 DEF Ready, Complete
    <2> DEFINE l == WaitNo'
               r == Ready'
    <2>2. l \in 0..T /\ r \in BOOLEAN /\ until' \in Nat /\ limit' \in Nat /\ limit' <= Longest
          /\ \/ k <= l /\ (r \/ until' = age)
             \/ k + 1 <= l /\ until' = age + limit'
      BY <1>7, <2>1
    <2> HIDE DEF k, l, r
    <2>3. age <= Bound(l) /\ (~r => until' <= Bound(l))
      <3>1. \A kk, T2, a, u, w \in Nat : \A o \in BOOLEAN : \A ll \in 0..T2 :
              /\ a <= Bound(kk) /\ w <= Longest
              /\ \/ kk <= ll /\ (o \/ u = a)
                 \/ kk + 1 <= ll /\ u = a + w
              => a <= Bound(ll) /\ (~o => u <= Bound(ll))
        BY Advance
      <3>2. age \in Nat /\ T \in Nat /\ k \in Nat /\ age <= Bound(k)
        BY <1>0, <1>2, <2>1
      <3> HIDE DEF T
      <3>3. /\ age <= Bound(k) /\ limit' <= Longest
            /\ \/ k <= l /\ (r \/ until' = age)
               \/ k + 1 <= l /\ until' = age + limit'
        BY <2>2, <3>2
      <3> QED
        BY <2>2, <3>1, <3>2, <3>3
    <2>4. age' <= Bound(T) /\ age' <= Bound(l) /\ l \in 0..T
      BY <1>1, <1>7, <2>2, <2>3
    <2> QED
      BY <1>5, <1>7, <2>2, <2>3, <2>4 DEF TlsClock, Timely, T, l, r
  <1>8. ASSUME pc' = "over", age' = age, limit' = limit PROVE TlsClock'
    BY <1>1, <1>5, <1>8 DEF TlsClock, Lefts, T
  <1>9. CASE UNCHANGED vars
    BY <1>9 DEF vars, TlsClock, Lefts, Timely, WaitNo, Ready, Complete, Wanted, Pieces, Bound, Op
  <1>10. CASE DialTcp \/ NewPinger \/ Probe \/ Probed \/ StopProbe \/ Stopped
    BY <1>0, <1>10 DEF DialTcp, NewPinger, Probe, Probed, StopProbe, Stopped, Place
  <1>11. CASE DialTls
    <2>1. /\ age < Timeout /\ UNCHANGED <<age, left, taken>> /\ pc' = "resolve"
          /\ until' = age + ResolveTime /\ limit' = TlsLimit
      BY <1>11 DEF DialTls, Go, fixed
    <2>2. limit' <= Longest /\ limit' \in Nat
      BY <2>1, DialLimits, Bounds, TimesAssumption
    <2>3. WaitNo' = 0 /\ Lefts' /\ Bound(0) = Timeout + ResolveTime
      BY <2>1, Bounds, TimesAssumption DEF WaitNo, Lefts, Bound
    <2> QED
      BY <1>0, <1>1, <1>2, <1>5, <2>1, <2>2, <2>3, TimesAssumption DEF TlsClock, Timely, T
  <1>12. CASE Resolved
    <2>1. /\ pc = "resolve" /\ left' \in 1..Addresses /\ pc' = "socket" /\ until' = age
          /\ UNCHANGED <<age, limit, taken>>
      BY <1>0, <1>12 DEF Resolved, Go, fixed
    <2>2. k = 0 /\ WaitNo' = Addresses - left' /\ Lefts'
      BY <2>1 DEF WaitNo, Lefts
    <2>3. WaitNo' \in 0..T
      <3>1. \A a, b, t \in Nat : b \in 1..a /\ a <= t => a - b \in 0..t
        OBVIOUS
      <3>2. Addresses <= T /\ left' \in Nat
        BY <1>0, <1>2, <1>4, <2>1
      <3> QED
        BY <1>0, <1>2, <2>1, <2>2, <3>1, <3>2
    <2> QED
      BY <1>0, <1>1, <1>7, <2>1, <2>2, <2>3
  <1>13. CASE OpenSocket
    <2>1. /\ pc = "socket" /\ pc' = "connect" /\ until' = age + limit
          /\ UNCHANGED <<age, limit, left, taken>>
      BY <1>13 DEF OpenSocket, Go, fixed
    <2>2. left \in 1..Addresses /\ k = Addresses - left /\ WaitNo' = Addresses - left + 1 /\ Lefts'
      BY <1>1, <2>1 DEF WaitNo, Lefts
    <2>3. WaitNo' \in 0..T
      <3>1. \A a, b, t \in Nat : b \in 1..a /\ a <= t => a - b + 1 \in 0..t
        OBVIOUS
      <3>2. Addresses <= T
        BY <1>0, <1>2, <1>4
      <3> QED
        BY <1>0, <1>2, <2>2, <3>1, <3>2
    <2> QED
      BY <1>0, <1>1, <1>7, <2>1, <2>2, <2>3
  <1>14. CASE NextAddress
    <2>1. /\ pc \in {"socket", "connect"} /\ left > 1 /\ left' = left - 1 /\ pc' = "socket"
          /\ until' = age /\ UNCHANGED <<age, limit, taken>>
      BY <1>0, <1>14 DEF NextAddress, Go, fixed
    <2>2. left \in 1..Addresses /\ k \in {Addresses - left, Addresses - left + 1}
          /\ WaitNo' = Addresses - left'
      BY <1>1, <2>1 DEF WaitNo, Lefts
    <2>3. WaitNo' \in 0..T /\ left' \in 1..Addresses /\ k <= WaitNo'
      BY <1>0, <1>2, <1>4, <2>1, <2>2
    <2>4. Lefts'
      BY <2>1, <2>3 DEF Lefts
    <2> QED
      BY <1>0, <1>1, <1>7, <2>1, <2>3, <2>4
  <1>15. CASE Connected
    <2>1. /\ pc = "connect" /\ pc' = "configure" /\ until' = age /\ UNCHANGED <<age, limit, left, taken>>
      BY <1>0, <1>15 DEF Connected, Go, fixed
    <2>2. left \in 1..Addresses /\ k = Addresses - left + 1 /\ WaitNo' = Addresses /\ Lefts'
      BY <1>1, <2>1 DEF WaitNo, Lefts
    <2>3. WaitNo' \in 0..T /\ k <= WaitNo'
      BY <1>0, <1>2, <1>4, <2>2
    <2> QED
      BY <1>0, <1>1, <1>7, <2>1, <2>2, <2>3
  <1>16. CASE Configured
    <2>1. /\ pc = "configure" /\ pc' = "handshake" /\ left' = Rounds /\ until' = age + limit
          /\ UNCHANGED <<age, limit, taken>>
      BY <1>16 DEF Configured, Go, fixed
    <2>2. k = Addresses /\ WaitNo' = Addresses + Rounds - left' + (IF left' > 0 THEN 1 ELSE 0)
      BY <2>1 DEF WaitNo
    <2>3. WaitNo' \in 0..T /\ left' \in 0..Rounds /\ (Rounds = 0 \/ k + 1 <= WaitNo') /\ k <= WaitNo'
      BY <1>0, <1>2, <1>4, <2>1, <2>2
    <2>4. Lefts' /\ (Rounds = 0 => Ready')
      BY <2>1, <2>3 DEF Lefts, Ready
    <2> QED
      BY <1>0, <1>1, <1>7, <2>1, <2>3, <2>4
  <1>17. CASE Shake
    <2>1. /\ pc = "handshake" /\ left > 0 /\ left' = left - 1 /\ pc' = "handshake"
          /\ until' = age + limit /\ UNCHANGED <<age, limit, taken>>
      BY <1>17 DEF Shake, Go, fixed
    <2>2. left \in 0..Rounds /\ k = Addresses + Rounds - left + 1
          /\ WaitNo' = Addresses + Rounds - left' + (IF left' > 0 THEN 1 ELSE 0)
      BY <1>0, <1>1, <2>1 DEF WaitNo, Lefts
    <2>3. /\ WaitNo' \in 0..T /\ left' \in 0..Rounds /\ k <= WaitNo'
          /\ left' = 0 \/ k + 1 <= WaitNo'
      BY <1>0, <1>2, <1>4, <2>1, <2>2
    <2>4. Lefts' /\ (left' = 0 => Ready')
      BY <2>1, <2>3 DEF Lefts, Ready
    <2> QED
      BY <1>0, <1>1, <1>7, <2>1, <2>3, <2>4
  <1>18. CASE Dialled
    <2>1. /\ pc = "handshake" /\ left = 0 /\ pc' = "write" /\ left' = Waits /\ until' = age + limit'
          /\ limit' = IF Timeout < Milli THEN limit ELSE (Timeout \div Milli) * Milli
          /\ UNCHANGED <<age, taken>>
      BY <1>0, <1>18 DEF Dialled, Go, fixed, Place
    <2>2. limit' \in Nat /\ limit' <= Longest
      <3>1. (Timeout \div Milli) * Milli \in Nat /\ (Timeout \div Milli) * Milli <= Timeout
        BY Floor, TimesAssumption
      <3>2. Timeout <= Longest /\ Timeout \in Nat
        BY Bounds, TimesAssumption
      <3> QED
        BY <1>0, <1>1, <1>2, <2>1, <3>1, <3>2
    <2>3. k = Addresses + Rounds /\ WaitNo' = (Op(0) + Waits + 1 - left')
      <3>1. WaitNo' = Op(0)' + Waits + 1 - left' /\ Op(0)' = Op(0)
        BY <2>1 DEF WaitNo, Op
      <3>2. k = Addresses + Rounds - left + (IF left > 0 THEN 1 ELSE 0)
        BY <2>1 DEF WaitNo
      <3> QED
        BY <1>0, <2>1, <3>1, <3>2
    <2>4. WaitNo' \in 0..T /\ k + 1 <= WaitNo' /\ left' \in 0..Waits
      BY <1>0, <1>2, <1>4, <2>1, <2>3
    <2>5. Lefts'
      BY <2>1, <2>4 DEF Lefts
    <2> QED
      BY <1>0, <1>7, <2>1, <2>2, <2>4, <2>5
  <1>19. CASE Written
    <2>1. /\ pc = "write" /\ pc' = "read" /\ until' = age + limit /\ left' = Waits /\ taken = 0
          /\ UNCHANGED <<age, limit, taken>>
      BY <1>0, <1>19 DEF Written, Again, fixed, Waiting
    <2>2. k = Op(0) + Waits + 1 - left /\ left \in 0..Waits
      BY <1>1, <2>1 DEF WaitNo, Lefts
    <2>3. WaitNo' = IF 0 < Pieces THEN Op(1) + Waits + 1 - left' ELSE Op(1)
      BY <1>0, <2>1 DEF WaitNo, Op
    <2>4. 0 < Pieces
      BY Sizes, SizesAssumption DEF Pieces
    <2>5. Op(2) = Op(1) + Waits + 1 /\ Op(2) <= T /\ Op(1) \in Nat /\ Op(0) \in Nat
      <3>1. Op(1 + 1) = Op(1) + Waits + 1 /\ Op(1) \in Nat /\ Op(0) \in Nat
        BY <1>3
      <3>2. Op(2) <= T
        BY <1>0, <1>3 DEF T
      <3> QED
        BY <3>1, <3>2
    <2>6. WaitNo' \in 0..T /\ k + 1 <= WaitNo'
      BY <1>0, <1>2, <1>4, <2>1, <2>2, <2>3, <2>4, <2>5
    <2>7. Lefts'
      BY <1>0, <2>1 DEF Lefts
    <2> QED
      BY <1>0, <1>1, <1>7, <2>1, <2>6, <2>7
  <1>20. ASSUME NEW n \in 1..Wanted, Read(n) PROVE TlsClock'
    <2>1. /\ pc = "read" /\ pc' = "read" /\ until' = age + limit /\ left' = Waits /\ UNCHANGED <<age, limit>>
          /\ taken < Wanted /\ taken + n <= Wanted /\ taken' = taken + n
      BY <1>0, <1>20 DEF Read, Again, fixed
    <2>2. n \in Nat \ {0} /\ taken < Pieces /\ taken' \in Nat /\ taken + 1 <= taken' /\ taken' <= Pieces
      BY <1>0, <2>1
    <2>3. k = Op(taken + 1) + Waits + 1 - left /\ left \in 0..Waits
      BY <1>1, <2>1, <2>2 DEF WaitNo, Lefts
    <2>4. WaitNo' = IF taken' < Pieces THEN Op(taken' + 1) + Waits + 1 - left' ELSE Op(taken' + 1)
      BY <1>0, <2>1 DEF WaitNo, Op
    <2>5. Op(taken + 2) = Op(taken + 1) + Waits + 1 /\ Op(taken + 2) <= Op(taken' + 1)
          /\ Op(taken + 1) \in Nat /\ Op(taken' + 1) \in Nat /\ Op(taken' + 2) = Op(taken' + 1) + Waits + 1
          /\ Op(taken' + 2) <= T
      <3>1. Op(taken + 1 + 1) = Op(taken + 1) + Waits + 1 /\ Op(taken + 1) \in Nat
        BY <1>0, <1>3
      <3>2. Op(taken' + 1 + 1) = Op(taken' + 1) + Waits + 1 /\ Op(taken' + 1) \in Nat
        BY <1>3, <2>2
      <3>3. taken + 1 + 1 = taken + 2 /\ taken' + 1 + 1 = taken' + 2
        BY <1>0, <2>2
      <3>4. /\ taken + 2 \in Nat /\ taken' + 1 \in Nat /\ taken + 2 <= taken' + 1
            /\ taken' + 2 \in Nat /\ Pieces + 2 \in Nat /\ taken' + 2 <= Pieces + 2
        <4>1. \A x, y, z \in Nat : x + 1 <= y /\ y <= z =>
                /\ x + 2 \in Nat /\ y + 1 \in Nat /\ x + 2 <= y + 1
                /\ y + 2 \in Nat /\ z + 2 \in Nat /\ y + 2 <= z + 2
          OBVIOUS
        <4> QED
          BY <1>0, <2>2, <4>1
      <3>5. Op(taken + 2) <= Op(taken' + 1) /\ Op(taken' + 2) <= T
        BY <1>3, <3>4 DEF T
      <3> QED
        BY <3>1, <3>2, <3>3, <3>5
    <2>6. WaitNo' \in 0..T /\ k <= WaitNo' /\ (taken' = Pieces \/ k + 1 <= WaitNo')
      BY <1>0, <1>2, <2>1, <2>2, <2>3, <2>4, <2>5
    <2>7. Lefts'
      BY <1>0, <2>1, <2>2 DEF Lefts
    <2>8. taken' = Pieces => Ready'
      BY <1>0, <2>1, Sizes, SizesAssumption DEF Ready, Complete, Wanted, Pieces
    <2> QED
      BY <1>0, <1>1, <1>7, <2>1, <2>6, <2>7, <2>8
  <1>21. CASE WaitOn
    <2>1. /\ pc \in {"write", "read", "closing"} /\ pc' = pc /\ left > 0 /\ left' = left - 1
          /\ until' = age + limit /\ UNCHANGED <<age, limit, taken>> /\ ~Complete
      BY <1>21 DEF WaitOn, Go, fixed
    <2>2. left \in 0..Waits /\ left' \in 0..Waits /\ (pc = "read" => taken < Pieces)
      <3>1. left \in 0..Waits
        BY <1>1, <2>1 DEF Lefts
      <3>2. ASSUME pc = "read" PROVE taken < Pieces
        BY <1>0, <1>1, <2>1, <3>2, Sizes, SizesAssumption DEF Lefts, Complete, Wanted, Pieces
      <3> QED
        BY <1>0, <2>1, <3>1, <3>2
    <2> DEFINE o == CASE pc = "write" -> Op(0) [] pc = "read" -> Op(taken + 1) [] OTHER -> Op(Pieces + 1)
    <2>3. k = o + Waits + 1 - left
      BY <2>1, <2>2 DEF WaitNo
    <2>4. WaitNo' = o + Waits + 1 - left'
      BY <1>0, <2>1, <2>2 DEF WaitNo, Op
    <2>5. o \in Nat /\ o + Waits + 1 <= T
      <3>1. ASSUME pc = "read" PROVE Op(taken + 1) \in Nat /\ Op(taken + 1) <= Op(Pieces + 1)
        <4>1. taken + 1 \in Nat /\ Pieces + 1 \in Nat /\ taken + 1 <= Pieces + 1
          BY <1>0, <2>2, <3>1
        <4> QED
          BY <1>3, <4>1
      <3>2. Op(0) \in Nat /\ Op(0) <= Op(Pieces + 1)
        BY <1>0, <1>3
      <3> QED
        BY <1>0, <1>2, <1>4, <2>1, <3>1, <3>2
    <2> HIDE DEF o
    <2>6. WaitNo' \in 0..T /\ k + 1 <= WaitNo'
      BY <1>0, <1>2, <2>1, <2>2, <2>3, <2>4, <2>5
    <2>7. Lefts'
      BY <1>0, <2>1, <2>2 DEF Lefts
    <2> QED
      BY <1>0, <1>1, <1>7, <2>1, <2>6, <2>7
  <1>22. ASSUME NEW x, Leave(x), pc \in {"write", "read"} PROVE TlsClock'
    <2>1. /\ pc' = "closing" /\ until' = age + limit /\ left' = Waits /\ UNCHANGED <<age, limit, taken>>
      BY <1>0, <1>22 DEF Leave, Again, fixed
    <2>2. left \in 0..Waits /\ (pc = "read" => taken <= Pieces)
      BY <1>1, <1>22 DEF Lefts
    <2>3. WaitNo' = Op(Pieces + 1) + Waits + 1 - left'
      BY <1>0, <2>1 DEF WaitNo, Op
    <2>4. k <= Op(Pieces + 1)
      <3>1. CASE pc = "write"
        <4>1. k = Op(0) + Waits + 1 - left
          BY <3>1 DEF WaitNo
        <4>2. Op(1) <= Op(Pieces + 1)
          BY <1>0, <1>3
        <4> QED
          BY <1>0, <1>3, <1>4, <2>2, <4>1, <4>2
      <3>2. CASE pc = "read" /\ taken < Pieces
        <4>1. k = Op(taken + 1) + Waits + 1 - left
          BY <3>2 DEF WaitNo
        <4>2. Op(taken + 1 + 1) = Op(taken + 1) + Waits + 1 /\ Op(taken + 1) \in Nat
          BY <1>0, <1>3
        <4>3. Op(taken + 1 + 1) <= Op(Pieces + 1)
          BY <1>0, <1>3, <3>2
        <4> QED
          BY <1>0, <1>4, <2>2, <4>1, <4>2, <4>3
      <3>3. CASE pc = "read" /\ ~(taken < Pieces)
        <4>1. k = Op(taken + 1)
          BY <3>3 DEF WaitNo
        <4>2. taken = Pieces
          BY <1>0, <2>2, <3>3
        <4> QED
          BY <1>4, <4>1, <4>2
      <3> QED
        BY <1>22, <3>1, <3>2, <3>3
    <2>5. WaitNo' \in 0..T /\ k + 1 <= WaitNo'
      BY <1>0, <1>2, <1>4, <1>6, <1>22, <2>1, <2>3, <2>4
    <2>6. Lefts'
      BY <1>0, <2>1 DEF Lefts
    <2> QED
      BY <1>0, <1>1, <1>7, <1>22, <2>1, <2>5, <2>6
  <1>23. CASE Parse
    BY <1>22, <1>23 DEF Parse, Complete
  <1>24. CASE Closed
    BY <1>8, <1>24 DEF Closed, Over, fixed
  <1>25. CASE Fail
    <2>1. CASE pc \in {"write", "read"}
      BY <1>22, <1>25, <2>1 DEF Fail
    <2>2. CASE pc \notin {"write", "read"}
      BY <1>8, <1>25, <2>2 DEF Fail, Over, fixed
    <2> QED
      BY <2>1, <2>2
  <1>26. CASE Cancel
    BY <1>26 DEF Cancel, TlsClock, Lefts, Timely, WaitNo, Ready, Complete, Wanted, Pieces, Bound, Op
  <1>27. CASE Tick
    <2>1. /\ pc # "over" /\ age < until /\ age' = age + 1 /\ ~Ready
          /\ UNCHANGED <<pc, until, limit, left, taken>>
      BY <1>27 DEF Tick
    <2>2. WaitNo' = k /\ Lefts' /\ Ready' = Ready
      BY <1>0, <1>1, <2>1 DEF WaitNo, Lefts, Ready, Complete, Wanted, Op
    <2>3. k \in 0..T /\ until <= Bound(k) /\ Bound(k) <= Bound(T) /\ Bound(k) \in Nat
      BY <1>2, <1>6, <2>1, Bounds
    <2> HIDE DEF k
    <2>4. age' <= Bound(k) /\ age' <= Bound(T)
      BY <1>0, <1>2, <2>1, <2>3
    <2> QED
      BY <1>1, <1>5, <2>1, <2>2, <2>3, <2>4 DEF TlsClock, Timely, T
  <1> QED
    BY <1>9, <1>10, <1>11, <1>12, <1>13, <1>14, <1>15, <1>16, <1>17, <1>18, <1>19, <1>20, <1>21,
       <1>23, <1>24, <1>25, <1>26, <1>27 DEF Next, Step, Dialling, Asking, Pinging

LEMMA Invariance == Spec => []IInv
  <1>1. IInv /\ [Next]_vars => IInv'
    BY TypeKeeps, PlaceKeeps, GenuineKeeps, PlainClockKeeps, TlsClockKeeps DEF IInv, Clock
  <1> QED
    BY <1>1, InitHolds, PTL DEF Spec

-----------------------------------------------------------------------------
(* The theorems *)

\* The execution keeps its types, for any settings, addresses and packets.
THEOREM TypeCorrect == Spec => []TypeOK
  <1>1. IInv => TypeOK
    BY DEF IInv
  <1> QED
    BY Invariance, <1>1, PTL

\* On every path what was acquired is released, and nothing twice.
THEOREM AllReleased == Spec => []Released
  <1>1. IInv => Released
    BY DEF IInv, Place, Released
  <1> QED
    BY Invariance, <1>1, PTL

\* Only a packet that came whole and unchanged becomes a status, and it is its own.
THEOREM AnswersGenuine == Spec => []AnswerGenuine
  <1>1. IInv => AnswerGenuine
    BY DEF IInv
  <1> QED
    BY Invariance, <1>1, PTL

\* The bounds on the time of an execution, for any limits and any packet.
THEOREM TimeBounded == Spec => []InTime
  <1>1. IInv => InTime
    <2> SUFFICES ASSUME IInv PROVE InTime
      OBVIOUS
    <2>1. age \in Nat /\ until \in Nat /\ means \in {"tcp", "tls", "ping"}
      BY DEF IInv, TypeOK
    <2>2. CASE means = "tcp"
      BY <2>1, <2>2, TimesAssumption DEF IInv, Clock, Waiting, TcpClock, InTime
    <2>3. CASE means = "ping"
      BY <2>1, <2>3 DEF IInv, Clock, PingClock, InTime
    <2>4. CASE means = "tls"
      <3>1. \A x, y \in Int : x * y = y * x
        OBVIOUS
      <3>2. Header + packet.declared + 2 \in Int /\ Waits + 1 \in Int
        BY Sizes, SizesAssumption DEF IInv
      <3>3. (Waits + 1) * (Header + packet.declared + 2) = (Header + packet.declared + 2) * (Waits + 1)
        BY <3>1, <3>2
      <3> QED
        BY <2>1, <2>4, <3>3 DEF IInv, Clock, TlsClock, Bound, Op, Pieces, InTime
    <2> QED
      BY <2>1, <2>2, <2>3, <2>4
  <1> QED
    BY Invariance, <1>1, PTL
=============================================================================
