--------------------------- MODULE SessionsProofs ---------------------------
(***************************************************************************)
(* Signing in, for any browsers, overlapping requests and TTL.  The heart  *)
(* is Kept: as long as owed stands, whatever the server and the answers    *)
(* under way know of the session covers the TTL after lastOk.              *)
(***************************************************************************)
EXTENDS Sessions, TLAPS

\* What a request under way, or the browser itself, has of a token.
Names(r, t)   == req[r].at # "idle" /\ (req[r].cookie = t \/ (req[r].at = "answered" /\ req[r].sets = t))
Touches(b, t) == jar[b] = t \/ owed[b] = t \/ \E r \in Requests : Names(r, t) /\ req[r].by = b

\* An answer that brings a new session to the browser.
NewSession(r, t) == req[r].at = "answered" /\ req[r].kind = "login" /\ req[r].sets = t

\* Tokens that are about have been drawn, and only one browser has each.
Owners ==
  \A t \in Tokens, b \in Browsers :
    Touches(b, t) => t \in issued /\ \A c \in Browsers : Touches(c, t) => b = c

\* Logouts hold a token; nobody names a session whose login is still being answered.
Places ==
  \A r \in Requests :
    /\ req[r].at # "idle" => req[r].sent <= now
    /\ req[r].at = "inside" => req[r].kind = "logout" /\ req[r].cookie # None
    /\ \A t \in Tokens : NewSession(r, t) =>
         /\ req[r].cookie # t
         /\ \A b \in Browsers : jar[b] # t /\ owed[b] # t
         /\ \A q \in Requests : q # r => ~Names(q, t)

\* The session t lasts to m and a TTL on; if it is gone, that time has passed.
Covers(t, m) == IF expires[t] = None THEN m + TTL < now ELSE m + TTL <= expires[t]

CoversThen(t, m) == IF expires'[t] = None THEN m + TTL < now' ELSE m + TTL <= expires'[t]

NewCovered == \A r \in Requests, t \in Tokens : NewSession(r, t) => Covers(t, req[r].sent)

Kept ==
  \A b \in Browsers : \A t \in Tokens : owed[b] = t =>
    /\ Covers(t, lastOk[b])
    /\ expires[t] # None => jar[b] = t
    /\ lastOk[b] + TTL <= jarUntil[b]
    /\ \A r \in Requests : req[r].at # "idle" /\ req[r].by = b =>
         /\ req[r].kind = "page" /\ req[r].cookie = t
         /\ req[r].at = "answered" =>
              \/ req[r].sets = t /\ Covers(t, req[r].sent)
              \/ req[r].sets = None /\ expires[t] = None

Times == \A b \in Browsers : lastOk[b] <= now

IInv == TypeOK /\ LoggedOutStaysOut /\ Owners /\ Places /\ NewCovered /\ Kept /\ Times

-----------------------------------------------------------------------------

LEMMA Fields ==
  ASSUME TypeOK, NEW r \in Requests
  PROVE  /\ req[r].at \in {"idle", "sent", "inside", "answered"}
         /\ req[r].at = "idle" <=> req[r] = Idle
         /\ req[r].at # "idle" =>
              /\ req[r].by \in Browsers /\ req[r].kind \in Kinds
              /\ req[r].cookie \in Tokens \cup {None} /\ req[r].sent \in 0..MaxTime
         /\ req[r].at = "answered" => req[r].sets \in Tokens \cup {None, "kept"}
  BY DEF TypeOK, Idle, Underway, Answered

\* A request that is answered keeps all else that was known of it.
LEMMA AnswerIs ==
  ASSUME TypeOK, NEW r \in Requests, req[r].at # "idle", NEW c \in Tokens \cup {None, "kept"},
         req' = [req EXCEPT ![r] = Answer(r, c)]
  PROVE  /\ req' \in [Requests -> {Idle} \cup Underway \cup Answered]
         /\ \A q \in Requests : q # r => req'[q] = req[q]
         /\ req'[r].at = "answered" /\ req'[r].sets = c
         /\ req'[r].by = req[r].by /\ req'[r].kind = req[r].kind
         /\ req'[r].cookie = req[r].cookie /\ req'[r].sent = req[r].sent
  <1>1. Answer(r, c) \in Answered
    BY Fields DEF Answer, Answered
  <1>2. req'[r] = Answer(r, c)
    BY DEF TypeOK
  <1> QED
    BY <1>1, <1>2 DEF TypeOK, Answer

LEMMA GoneIs ==
  ASSUME TypeOK, NEW r \in Requests, req' = [req EXCEPT ![r] = Idle]
  PROVE  /\ req' \in [Requests -> {Idle} \cup Underway \cup Answered]
         /\ \A q \in Requests : q # r => req'[q] = req[q]
         /\ req'[r].at = "idle"
  BY DEF TypeOK, Idle

LEMMA Times0 ==
  ASSUME TypeOK
  PROVE  /\ now \in Int /\ TTL \in Nat /\ MaxTime \in Nat /\ now + TTL \in 0..MaxTime + TTL
         /\ \A b \in Browsers : lastOk[b] \in Int /\ jarUntil[b] \in Int
         /\ \A t \in Tokens : expires[t] # None => expires[t] \in Int
  BY NumbersAssumption DEF TypeOK

LEMMA InitHolds == Init => IInv
  <1> SUFFICES ASSUME Init PROVE IInv
    OBVIOUS
  <1>1. TypeOK
    BY NumbersAssumption DEF Init, TypeOK
  <1>2. LoggedOutStaysOut /\ Times
    BY DEF Init, LoggedOutStaysOut, Times
  <1>3. \A r \in Requests : req[r].at = "idle"
    BY DEF Init, Idle
  <1>4. Owners /\ Places /\ NewCovered /\ Kept
    BY <1>3, NoneAssumption DEF Init, Owners, Touches, Names, Places, NewSession, NewCovered, Kept
  <1> QED
    BY <1>1, <1>2, <1>4 DEF IInv

LEMMA SendKeeps ==
  ASSUME IInv, NEW r \in Requests, NEW b \in Browsers, NEW k \in Kinds, Send(r, b, k)
  PROVE  IInv'
  <1> DEFINE x == [at |-> "sent", by |-> b, kind |-> k, cookie |-> CookieOf(b), sent |-> now]
  <1>1. /\ TypeOK /\ req[r].at = "idle" /\ req' = [req EXCEPT ![r] = x]
        /\ owed' = [owed EXCEPT ![b] = IF k = "page" /\ CookieOf(b) = @ THEN @ ELSE None]
        /\ UNCHANGED <<now, issued, expires, jar, jarUntil, left, lastOk>>
    BY DEF Send, IInv, Idle, server, browser
  <1>2. CookieOf(b) \in Tokens \cup {None} /\ (CookieOf(b) # None => CookieOf(b) = jar[b])
    BY <1>1 DEF TypeOK, CookieOf
  <1>3. x \in Underway
    BY <1>1, <1>2 DEF Underway, TypeOK
  <1>4. /\ req' \in [Requests -> {Idle} \cup Underway \cup Answered]
        /\ \A q \in Requests : q # r => req'[q] = req[q]
        /\ req'[r].at = "sent" /\ req'[r].by = b /\ req'[r].kind = k
        /\ req'[r].cookie = CookieOf(b) /\ req'[r].sent = now
    BY <1>1, <1>3 DEF TypeOK
  <1>5. /\ owed' \in [Browsers -> Tokens \cup {None}]
        /\ \A c \in Browsers : c # b => owed'[c] = owed[c]
        /\ owed'[b] = None \/ (owed'[b] = owed[b] /\ k = "page" /\ CookieOf(b) = owed[b])
    BY <1>1 DEF TypeOK
  <1> HIDE DEF x
  <1>6. TypeOK'
    BY <1>1, <1>4, <1>5 DEF TypeOK
  <1>7. LoggedOutStaysOut' /\ Times'
    BY <1>1 DEF IInv, LoggedOutStaysOut, Times
  <1>8. \A t \in Tokens, c \in Browsers : Touches(c, t)' => Touches(c, t)
    BY <1>1, <1>2, <1>4, <1>5, NoneAssumption DEF Touches, Names
  <1>9. Owners'
    BY <1>1, <1>8 DEF IInv, Owners
  <1>10. \A q \in Requests, t \in Tokens : NewSession(q, t)' => NewSession(q, t) /\ q # r
    BY <1>4 DEF NewSession
  <1>11. Places'
    <2>1. \A q \in Requests : /\ req'[q].at # "idle" => req'[q].sent <= now'
                              /\ req'[q].at = "inside" => req'[q].kind = "logout" /\ req'[q].cookie # None
      BY <1>1, <1>4, Times0 DEF IInv, Places
    <2>2. ASSUME NEW q \in Requests, NEW t \in Tokens, NewSession(q, t)'
          PROVE  /\ req'[q].cookie # t
                 /\ \A c \in Browsers : jar'[c] # t /\ owed'[c] # t
                 /\ \A p \in Requests : p # q => ~Names(p, t)'
      <3>1. q # r /\ req'[q] = req[q] /\ NewSession(q, t)
        BY <1>4, <1>10, <2>2
      <3>2. /\ req[q].cookie # t /\ \A c \in Browsers : jar[c] # t /\ owed[c] # t
            /\ \A p \in Requests : p # q => ~Names(p, t)
        BY <3>1 DEF IInv, Places
      <3> QED
        BY <1>1, <1>2, <1>4, <1>5, <3>1, <3>2, NoneAssumption DEF Names
    <2> QED
      BY <2>1, <2>2 DEF Places
  <1>12. NewCovered'
    BY <1>1, <1>4, <1>10 DEF IInv, NewCovered, Covers
  <1>13. Kept'
    BY <1>1, <1>4, <1>5, NoneAssumption DEF IInv, Kept, Covers
  <1> QED
    BY <1>6, <1>7, <1>9, <1>11, <1>12, <1>13 DEF IInv

\* A request that vanishes takes what it names with it.
LEMMA LoseKeeps ==
  ASSUME IInv, NEW r \in Requests, Lose(r)
  PROVE  IInv'
  <1>1. /\ TypeOK /\ req' = [req EXCEPT ![r] = Idle]
        /\ UNCHANGED <<now, issued, expires, jar, jarUntil, left, owed, lastOk>>
    BY DEF Lose, IInv, server, browser, history
  <1>2. /\ req' \in [Requests -> {Idle} \cup Underway \cup Answered]
        /\ \A q \in Requests : q # r => req'[q] = req[q]
        /\ req'[r].at = "idle"
    BY <1>1, GoneIs
  <1>3. TypeOK'
    BY <1>1, <1>2 DEF TypeOK
  <1>4. LoggedOutStaysOut' /\ Times'
    BY <1>1 DEF IInv, LoggedOutStaysOut, Times
  <1>5. \A t \in Tokens, c \in Browsers : Touches(c, t)' => Touches(c, t)
    BY <1>1, <1>2 DEF Touches, Names
  <1>6. Owners'
    BY <1>1, <1>5 DEF IInv, Owners
  <1>7. \A q \in Requests, t \in Tokens :
          /\ NewSession(q, t)' => NewSession(q, t) /\ req'[q] = req[q]
          /\ Names(q, t)' => Names(q, t)
    BY <1>2 DEF NewSession, Names
  <1>8. Places'
    BY <1>1, <1>2, <1>7 DEF IInv, Places
  <1>9. NewCovered'
    BY <1>1, <1>2, <1>7 DEF IInv, NewCovered, Covers
  <1>10. Kept'
    BY <1>1, <1>2 DEF IInv, Kept, Covers
  <1> QED
    BY <1>3, <1>4, <1>6, <1>8, <1>9, <1>10 DEF IInv

LEMMA ReceiveKeeps ==
  ASSUME IInv, NEW r \in Requests, Receive(r)
  PROVE  IInv'
  <1> DEFINE b == req[r].by
             c == req[r].sets
             m == IF Accepted(r) /\ (req[r].kind = "login" \/ lastOk[b] < req[r].sent)
                  THEN req[r].sent ELSE lastOk[b]
  <1>1. /\ TypeOK /\ req[r].at = "answered" /\ req' = [req EXCEPT ![r] = Idle]
        /\ UNCHANGED <<now, issued, expires, left>>
    BY DEF Receive, IInv, server
  <1>2. /\ req' \in [Requests -> {Idle} \cup Underway \cup Answered]
        /\ \A q \in Requests : q # r => req'[q] = req[q]
        /\ req'[r].at = "idle"
    BY <1>1, GoneIs
  <1>3. /\ b \in Browsers /\ c \in Tokens \cup {None, "kept"} /\ req[r].kind \in Kinds
        /\ req[r].sent \in 0..MaxTime /\ req[r].sent <= now
    BY <1>1, Fields DEF IInv, Places
  <1>4. /\ jar' = [jar EXCEPT ![b] = IF c = "kept" THEN @ ELSE c]
        /\ jarUntil' = [jarUntil EXCEPT ![b] = IF c \in Tokens THEN now + TTL ELSE @]
        /\ lastOk' = [lastOk EXCEPT ![b] = m]
        /\ owed' = [owed EXCEPT ![b] =
             IF req[r].kind # "login" \/ ~Accepted(r) THEN @
             ELSE IF InFlight(b) = {r} THEN c ELSE None]
    BY DEF Receive, TypeOK
  <1>5. /\ jar' \in [Browsers -> Tokens \cup {None}]
        /\ jar'[b] = (IF c = "kept" THEN jar[b] ELSE c)
        /\ \A d \in Browsers : d # b => jar'[d] = jar[d]
    BY <1>1, <1>3, <1>4, NoneAssumption DEF TypeOK
  <1>6. /\ jarUntil' \in [Browsers -> 0..MaxTime + TTL]
        /\ jarUntil'[b] = (IF c \in Tokens THEN now + TTL ELSE jarUntil[b])
        /\ \A d \in Browsers : d # b => jarUntil'[d] = jarUntil[d]
    BY <1>1, <1>3, <1>4, Times0 DEF TypeOK
  <1>7. m \in 0..MaxTime /\ m <= now
    BY <1>1, <1>3, Times0 DEF TypeOK, IInv, Times
  <1> HIDE DEF m
  <1>8. /\ lastOk' \in [Browsers -> 0..MaxTime] /\ lastOk'[b] = m
        /\ \A d \in Browsers : d # b => lastOk'[d] = lastOk[d]
    BY <1>1, <1>3, <1>4, <1>7 DEF TypeOK
  <1>9. /\ owed' \in [Browsers -> Tokens \cup {None}]
        /\ IF NewSession(r, c) /\ c \in Tokens THEN owed'[b] = None \/ (owed'[b] = c /\ InFlight(b) = {r})
           ELSE owed'[b] = owed[b]
        /\ \A d \in Browsers : d # b => owed'[d] = owed[d]
    BY <1>1, <1>3, <1>4 DEF TypeOK, Accepted, NewSession
  <1>10. TypeOK'
    BY <1>1, <1>2, <1>5, <1>6, <1>8, <1>9 DEF TypeOK
  <1>11. LoggedOutStaysOut' /\ Times'
    BY <1>1, <1>7, <1>8 DEF IInv, LoggedOutStaysOut, Times
  <1>12. Names(r, c)
    BY <1>1 DEF Names
  <1>13. \A t \in Tokens, d \in Browsers : Touches(d, t)' => Touches(d, t)
    BY <1>2, <1>5, <1>9, <1>12, NoneAssumption DEF Touches, Names
  <1>14. Owners'
    BY <1>1, <1>13 DEF IInv, Owners
  <1>15. \A q \in Requests, t \in Tokens :
           /\ NewSession(q, t)' => NewSession(q, t) /\ req'[q] = req[q] /\ q # r
           /\ Names(q, t)' => Names(q, t)
    BY <1>2 DEF NewSession, Names
  <1>16. Places'
    <2>1. \A q \in Requests : /\ req'[q].at # "idle" => req'[q].sent <= now'
                              /\ req'[q].at = "inside" => req'[q].kind = "logout" /\ req'[q].cookie # None
      BY <1>1, <1>2 DEF IInv, Places
    <2>2. ASSUME NEW q \in Requests, NEW t \in Tokens, NewSession(q, t)'
          PROVE  /\ req'[q].cookie # t
                 /\ \A d \in Browsers : jar'[d] # t /\ owed'[d] # t
                 /\ \A p \in Requests : p # q => ~Names(p, t)'
      <3>1. q # r /\ req'[q] = req[q] /\ NewSession(q, t)
        BY <1>15, <2>2
      <3>2. /\ req[q].cookie # t /\ \A d \in Browsers : jar[d] # t /\ owed[d] # t
            /\ \A p \in Requests : p # q => ~Names(p, t)
        BY <3>1 DEF IInv, Places
      <3>3. c # t
        BY <1>12, <3>1, <3>2
      <3> QED
        BY <1>3, <1>5, <1>9, <1>15, <3>1, <3>2, <3>3, NoneAssumption
    <2> QED
      BY <2>1, <2>2 DEF Places
  <1>17. NewCovered'
    BY <1>1, <1>15 DEF IInv, NewCovered, Covers
  <1>18. Kept'
    <2> SUFFICES ASSUME NEW d \in Browsers, NEW t \in Tokens, owed'[d] = t
                 PROVE  /\ Covers(t, lastOk[d])'
                        /\ expires'[t] # None => jar'[d] = t
                        /\ lastOk'[d] + TTL <= jarUntil'[d]
                        /\ \A q \in Requests : req'[q].at # "idle" /\ req'[q].by = d =>
                             /\ req'[q].kind = "page" /\ req'[q].cookie = t
                             /\ req'[q].at = "answered" =>
                                  \/ req'[q].sets = t /\ Covers(t, req[q].sent)'
                                  \/ req'[q].sets = None /\ expires'[t] = None
      BY DEF Kept
    <2>1. CASE d # b
      <3>1. owed[d] = t /\ jar'[d] = jar[d] /\ jarUntil'[d] = jarUntil[d] /\ lastOk'[d] = lastOk[d]
        BY <1>5, <1>6, <1>8, <1>9, <2>1
      <3> QED
        BY <1>1, <1>2, <3>1 DEF IInv, Kept, Covers
    <2>2. CASE d = b /\ NewSession(r, c) /\ c \in Tokens
      <3>1. owed'[b] = c /\ t = c /\ InFlight(b) = {r}
        BY <1>9, <2>2, NoneAssumption
      <3>2. \A q \in Requests : req'[q].at = "idle" \/ req'[q].by # b
        BY <1>1, <1>2, <3>1, Fields DEF InFlight
      <3>3. m = req[r].sent
        BY <2>2 DEF m, Accepted, NewSession
      <3>4. Covers(c, m)
        BY <2>2, <3>3 DEF IInv, NewCovered
      <3>5. jar'[b] = c /\ jarUntil'[b] = now + TTL
        BY <1>5, <1>6, <2>2, NoneAssumption
      <3>6. m + TTL <= now + TTL
        BY <1>1, <1>7, Times0
      <3> QED
        BY <1>1, <1>8, <2>2, <3>1, <3>2, <3>4, <3>5, <3>6 DEF Covers
    <2>3. CASE d = b /\ ~(NewSession(r, c) /\ c \in Tokens)
      <3>1. owed[b] = t
        BY <1>9, <2>3
      <3>2. /\ Covers(t, lastOk[b]) /\ (expires[t] # None => jar[b] = t)
            /\ lastOk[b] + TTL <= jarUntil[b]
            /\ req[r].kind = "page"
            /\ (c = t /\ Covers(t, req[r].sent)) \/ (c = None /\ expires[t] = None)
        BY <1>1, <1>3, <3>1 DEF IInv, Kept
      <3>3. IF expires'[t] = None THEN m + TTL < now' ELSE m + TTL <= expires'[t]
        BY <1>1, <3>2, NoneAssumption DEF m, Covers, Accepted
      <3>4. expires'[t] # None => jar'[b] = t
        BY <1>1, <1>5, <3>2, NoneAssumption
      <3>5. m + TTL <= jarUntil'[b]
        <4>1. CASE c = t
          <5>1. jarUntil'[b] = now + TTL
            BY <1>6, <4>1
          <5> QED
            BY <1>1, <1>7, <5>1, Times0
        <4>2. CASE c = None
          BY <1>6, <3>2, <4>2, NoneAssumption DEF m, Accepted
        <4> QED
          BY <3>2, <4>1, <4>2
      <3>6. \A q \in Requests : req'[q].at # "idle" /\ req'[q].by = b => req'[q] = req[q]
        BY <1>2
      <3> QED
        BY <1>1, <1>8, <2>3, <3>1, <3>3, <3>4, <3>5, <3>6 DEF IInv, Kept, Covers
    <2> QED
      BY <2>1, <2>2, <2>3
  <1> QED
    BY <1>10, <1>11, <1>14, <1>16, <1>17, <1>18 DEF IInv

\* What handlers do to a request, but for a login that succeeds: the answer names
\* at most the cookie that the request came with.
Handled(r) ==
  /\ req[r].at \in {"sent", "inside"}
  /\ req' \in [Requests -> {Idle} \cup Underway \cup Answered]
  /\ \A q \in Requests : q # r => req'[q] = req[q]
  /\ req'[r].by = req[r].by /\ req'[r].kind = req[r].kind
  /\ req'[r].cookie = req[r].cookie /\ req'[r].sent = req[r].sent
  /\ \/ req'[r].at = "inside" /\ req[r].kind = "logout" /\ req[r].cookie # None
     \/ /\ req'[r].at = "answered"
        /\ req'[r].sets \in Tokens => req'[r].sets = req[r].cookie /\ req[r].kind # "login"

LEMMA HandledNames ==
  ASSUME IInv, NEW r \in Requests, Handled(r), UNCHANGED <<now, issued, jar, owed>>
  PROVE  /\ Owners' /\ Places'
         /\ \A q \in Requests, t \in Tokens : NewSession(q, t)' =>
              q # r /\ NewSession(q, t) /\ req[r].cookie # t
  <1>1. \A q \in Requests, t \in Tokens : Names(q, t)' => Names(q, t)
    BY DEF Names, Handled
  <1>2. \A q \in Requests : req'[q].by = req[q].by
    BY DEF Handled
  <1>3. \A t \in Tokens, d \in Browsers : Touches(d, t)' => Touches(d, t)
    BY <1>1, <1>2 DEF Touches
  <1>4. Owners'
    BY <1>3 DEF IInv, Owners
  <1>5. \A q \in Requests, t \in Tokens : NewSession(q, t)' => NewSession(q, t) /\ q # r
    BY DEF NewSession, Handled
  <1>6. \A q \in Requests, t \in Tokens : NewSession(q, t) /\ q # r =>
          /\ req[r].cookie # t /\ req'[q] = req[q] /\ req[q].cookie # t
          /\ \A b \in Browsers : jar[b] # t /\ owed[b] # t
          /\ \A p \in Requests : p # q => ~Names(p, t)
    BY DEF IInv, Places, Names, Handled
  <1>7. \A q \in Requests : /\ req'[q].at # "idle" => req'[q].sent <= now'
                            /\ req'[q].at = "inside" => req'[q].kind = "logout" /\ req'[q].cookie # None
    BY DEF IInv, Places, Handled
  <1>8. Places'
    BY <1>1, <1>5, <1>6, <1>7 DEF Places
  <1> QED
    BY <1>4, <1>5, <1>6, <1>8

\* A request of another browser carries another token.
LEMMA NotMine ==
  ASSUME IInv, NEW r \in Requests, req[r].at # "idle",
         NEW b \in Browsers, req[r].by # b, NEW t \in Tokens, owed[b] = t
  PROVE  req[r].cookie # t
  <1>1. req[r].by \in Browsers
    BY Fields DEF IInv
  <1>2. Touches(b, t) /\ (req[r].cookie = t => Touches(req[r].by, t))
    BY DEF Touches, Names
  <1> QED
    BY <1>1, <1>2 DEF IInv, Owners

\* An expiry moves as a page request lets it: what it covered it covers still, a
\* session that is gone stays gone, and the answer tells which it is.
Prolonged(r) ==
  LET u == req[r].cookie IN
  /\ \A t \in Tokens : t # u => expires'[t] = expires[t]
  /\ u \in Tokens /\ req[r].kind = "page" =>
       /\ \A m \in 0..MaxTime : m <= now /\ Covers(u, m) => CoversThen(u, m)
       /\ expires[u] = None => expires'[u] = None
       /\ \/ req'[r].sets = u /\ expires'[u] = now + TTL
          \/ req'[r].sets = None /\ expires'[u] = None

LEMMA HandledKept ==
  ASSUME IInv, NEW r \in Requests, Handled(r), Prolonged(r),
         UNCHANGED <<now, issued, jar, jarUntil, owed, lastOk>>
  PROVE  NewCovered' /\ Kept'
  <1>1. NewCovered'
    <2> SUFFICES ASSUME NEW q \in Requests, NEW t \in Tokens, NewSession(q, t)'
                 PROVE  CoversThen(t, req'[q].sent)
      BY DEF NewCovered, Covers, CoversThen
    <2>1. q # r /\ NewSession(q, t) /\ req[r].cookie # t
      BY HandledNames
    <2>2. req'[q] = req[q] /\ expires'[t] = expires[t]
      BY <2>1 DEF Handled, Prolonged
    <2> QED
      BY <2>1, <2>2 DEF IInv, NewCovered, Covers, CoversThen
  <1>2. Kept'
    <2> SUFFICES ASSUME NEW d \in Browsers, NEW t \in Tokens, owed[d] = t
                 PROVE  /\ CoversThen(t, lastOk[d])
                        /\ expires'[t] # None => jar[d] = t
                        /\ lastOk[d] + TTL <= jarUntil[d]
                        /\ \A q \in Requests : req'[q].at # "idle" /\ req'[q].by = d =>
                             /\ req'[q].kind = "page" /\ req'[q].cookie = t
                             /\ req'[q].at = "answered" =>
                                  \/ req'[q].sets = t /\ CoversThen(t, req'[q].sent)
                                  \/ req'[q].sets = None /\ expires'[t] = None
      BY DEF Kept, Covers, CoversThen
    <2>1. CASE req[r].by = d
      <3>1. req[r].kind = "page" /\ req[r].cookie = t /\ req'[r].at = "answered"
        BY <2>1 DEF IInv, Kept, Handled
      <3>2. /\ \A m \in 0..MaxTime : m <= now /\ Covers(t, m) => CoversThen(t, m)
            /\ expires[t] = None => expires'[t] = None
            /\ \/ req'[r].sets = t /\ expires'[t] = now + TTL
               \/ req'[r].sets = None /\ expires'[t] = None
        BY <3>1 DEF Prolonged
      <3>3. lastOk[d] \in 0..MaxTime /\ lastOk[d] <= now
        BY DEF IInv, TypeOK, Times
      <3>4. /\ CoversThen(t, lastOk[d]) /\ (expires'[t] # None => jar[d] = t)
            /\ lastOk[d] + TTL <= jarUntil[d]
        BY <3>2, <3>3 DEF IInv, Kept
      <3>5. ASSUME NEW q \in Requests, q # r, req[q].at # "idle", req[q].by = d
            PROVE  /\ req[q].kind = "page" /\ req[q].cookie = t
                   /\ req[q].at = "answered" =>
                        \/ req[q].sets = t /\ CoversThen(t, req[q].sent)
                        \/ req[q].sets = None /\ expires'[t] = None
        <4>1. req[q].sent \in 0..MaxTime /\ req[q].sent <= now
          BY <3>5, Fields DEF IInv, Places
        <4> QED
          BY <3>2, <3>5, <4>1 DEF IInv, Kept
      <3>6. req'[r].sets = t => CoversThen(t, req'[r].sent)
        <4>1. req[r].sent \in 0..MaxTime /\ req[r].sent <= now /\ req'[r].sent = req[r].sent
          BY Fields DEF IInv, Places, Handled
        <4>2. CASE expires'[t] = now + TTL
          BY <4>1, <4>2, NoneAssumption, Times0 DEF CoversThen, IInv
        <4> QED
          BY <3>2, <4>2, NoneAssumption
      <3>7. req'[r].kind = "page" /\ req'[r].cookie = t
        BY <3>1 DEF Handled
      <3>8. \A q \in Requests : q # r => req'[q] = req[q]
        BY DEF Handled
      <3> QED
        BY <3>2, <3>4, <3>5, <3>6, <3>7, <3>8
    <2>2. CASE req[r].by # d
      <3>1. expires'[t] = expires[t]
        BY <2>2, NotMine DEF Prolonged, Handled
      <3> QED
        BY <2>2, <3>1 DEF IInv, Kept, Covers, CoversThen, Handled
    <2> QED
      BY <2>1, <2>2
  <1> QED
    BY <1>1, <1>2

\* Validate prolongs a session; every time it covered it covers after.
LEMMA AcceptKeeps ==
  ASSUME IInv, NEW r \in Requests, Accept(r)
  PROVE  IInv'
  <1> DEFINE u == req[r].cookie
  <1>1. /\ TypeOK /\ req[r].at = "sent" /\ req[r].kind # "login" /\ u # None /\ Alive(u)
        /\ expires' = [expires EXCEPT ![u] = now + TTL]
        /\ req' = [req EXCEPT ![r] = IF @.kind = "page" THEN Answer(r, u) ELSE [@ EXCEPT !.at = "inside"]]
        /\ UNCHANGED <<now, issued, jar, jarUntil, left, owed, lastOk>>
    BY DEF Accept, Validate, IInv, browser, history
  <1>2. /\ u \in Tokens /\ req[r].kind \in {"page", "logout"} /\ req[r].sent \in 0..MaxTime
        /\ req[r].sent <= now /\ req[r] \in Underway
    BY <1>1, Fields DEF IInv, Places, Kinds, TypeOK, Idle, Answered
  <1>3. Handled(r)
    <2>1. CASE req[r].kind = "page"
      <3>1. req' = [req EXCEPT ![r] = Answer(r, u)]
        BY <1>1, <2>1 DEF TypeOK
      <3> QED
        BY <1>1, <1>2, <2>1, <3>1, AnswerIs DEF Handled
    <2>2. CASE req[r].kind = "logout"
      <3>1. req' = [req EXCEPT ![r] = [req[r] EXCEPT !.at = "inside"]]
        BY <1>1, <2>2 DEF TypeOK
      <3>2. [req[r] EXCEPT !.at = "inside"] \in Underway
        BY <1>2 DEF Underway
      <3>3. /\ req'[r].at = "inside" /\ req'[r].by = req[r].by /\ req'[r].kind = req[r].kind
            /\ req'[r].cookie = req[r].cookie /\ req'[r].sent = req[r].sent
        BY <1>1, <1>2, <3>1 DEF TypeOK, Underway
      <3> QED
        BY <1>1, <2>2, <3>1, <3>2, <3>3 DEF Handled, TypeOK
    <2> QED
      BY <1>2, <2>1, <2>2
  <1>4. /\ expires' \in [Tokens -> (0..MaxTime + TTL) \cup {None}]
        /\ expires'[u] = now + TTL /\ \A t \in Tokens : t # u => expires'[t] = expires[t]
    BY <1>1, <1>2, Times0 DEF TypeOK
  <1> HIDE DEF u
  <1>5. TypeOK'
    BY <1>1, <1>3, <1>4 DEF TypeOK, Handled
  <1>6. u \notin left
    BY <1>1, <1>2 DEF IInv, LoggedOutStaysOut, Alive
  <1>7. LoggedOutStaysOut' /\ Times'
    BY <1>1, <1>4, <1>6 DEF IInv, LoggedOutStaysOut, Times, TypeOK
  <1>8. Prolonged(r)
    <2>1. ASSUME NEW m \in 0..MaxTime, m <= now PROVE CoversThen(u, m)
      BY <1>1, <1>4, <2>1, NoneAssumption, Times0 DEF CoversThen
    <2>2. req[r].kind = "page" => req'[r].sets = u
      BY <1>1, <1>2 DEF TypeOK, Answer
    <2> QED
      BY <1>1, <1>4, <2>1, <2>2 DEF Prolonged, Alive, u
  <1> QED
    BY <1>1, <1>3, <1>5, <1>7, <1>8, HandledNames, HandledKept DEF IInv

LEMMA RefuseKeeps ==
  ASSUME IInv, NEW r \in Requests, Refuse(r)
  PROVE  IInv'
  <1> DEFINE u == req[r].cookie
  <1>1. /\ TypeOK /\ req[r].at = "sent" /\ req[r].kind # "login"
        /\ req' = [req EXCEPT ![r] = Answer(r, None)]
        /\ \/ u = None /\ UNCHANGED expires
           \/ u # None /\ ~Alive(u) /\ expires' = [expires EXCEPT ![u] = None]
        /\ UNCHANGED <<now, issued, jar, jarUntil, left, owed, lastOk>>
    BY DEF Refuse, IInv, browser, history
  <1>2. Handled(r) /\ req'[r].sets = None
    BY <1>1, AnswerIs, NoneAssumption DEF Handled
  <1>3. u \in Tokens \cup {None}
    BY <1>1, Fields
  <1>4. /\ expires' \in [Tokens -> (0..MaxTime + TTL) \cup {None}]
        /\ \A t \in Tokens : t # u => expires'[t] = expires[t]
        /\ u \in Tokens => expires'[u] = None /\ ~Alive(u)
    BY <1>1, <1>3, NoneAssumption DEF TypeOK
  <1> HIDE DEF u
  <1>5. TypeOK'
    BY <1>1, <1>2, <1>4 DEF TypeOK, Handled
  <1>6. LoggedOutStaysOut' /\ Times'
    BY <1>1, <1>4 DEF IInv, LoggedOutStaysOut, Times, TypeOK
  <1>7. Prolonged(r)
    <2>1. ASSUME u \in Tokens, NEW m \in 0..MaxTime, m <= now, Covers(u, m) PROVE CoversThen(u, m)
      BY <1>1, <1>4, <2>1, NoneAssumption, Times0 DEF CoversThen, Covers, Alive
    <2> QED
      BY <1>2, <1>4, <2>1 DEF Prolonged, u
  <1> QED
    BY <1>1, <1>2, <1>5, <1>6, <1>7, HandledNames, HandledKept DEF IInv

\* No browser that is owed its session has a logout under way.
LEMMA LogoutKeeps ==
  ASSUME IInv, NEW r \in Requests, Logout(r)
  PROVE  IInv'
  <1> DEFINE u == req[r].cookie
  <1>1. /\ TypeOK /\ req[r].at = "inside" /\ req' = [req EXCEPT ![r] = Answer(r, None)]
        /\ expires' = [expires EXCEPT ![u] = None] /\ left' = left \cup {u}
        /\ UNCHANGED <<now, issued, jar, jarUntil, owed, lastOk>>
    BY DEF Logout, IInv, browser
  <1>2. Handled(r)
    BY <1>1, AnswerIs, NoneAssumption DEF Handled
  <1>3. u \in Tokens /\ u \in issued /\ req[r].kind = "logout"
    <2>1. u \in Tokens /\ req[r].kind = "logout" /\ req[r].by \in Browsers
      BY <1>1, Fields DEF IInv, Places
    <2>2. Touches(req[r].by, u)
      BY <1>1 DEF Touches, Names
    <2> QED
      BY <2>1, <2>2 DEF IInv, Owners
  <1>4. /\ expires' \in [Tokens -> (0..MaxTime + TTL) \cup {None}]
        /\ expires'[u] = None /\ \A t \in Tokens : t # u => expires'[t] = expires[t]
    BY <1>1, <1>3 DEF TypeOK
  <1> HIDE DEF u
  <1>5. TypeOK'
    BY <1>1, <1>2, <1>3, <1>4 DEF TypeOK, Handled
  <1>6. LoggedOutStaysOut' /\ Times'
    BY <1>1, <1>3, <1>4 DEF IInv, LoggedOutStaysOut, Times, TypeOK
  <1>7. Prolonged(r)
    BY <1>3, <1>4 DEF Prolonged, u
  <1> QED
    BY <1>1, <1>2, <1>5, <1>6, <1>7, HandledNames, HandledKept DEF IInv

LEMMA LoginFailsKeeps ==
  ASSUME IInv, NEW r \in Requests, req[r].at = "sent", req[r].kind = "login",
         req' = [req EXCEPT ![r] = Answer(r, "kept")],
         UNCHANGED <<now, issued, expires, jar, jarUntil, left, owed, lastOk>>
  PROVE  IInv'
  <1>1. Handled(r)
    BY AnswerIs, NoneAssumption DEF Handled, IInv
  <1>2. Prolonged(r)
    BY DEF Prolonged
  <1>3. TypeOK'
    BY <1>1 DEF IInv, TypeOK, Handled
  <1>4. LoggedOutStaysOut' /\ Times'
    BY DEF IInv, LoggedOutStaysOut, Times
  <1> QED
    BY <1>1, <1>2, <1>3, <1>4, HandledNames, HandledKept DEF IInv

\* A session that begins is one that nobody has named before.
LEMMA LoginKeeps ==
  ASSUME IInv, NEW r \in Requests, NEW u \in Tokens, req[r].at = "sent", req[r].kind = "login",
         Create(u), req' = [req EXCEPT ![r] = Answer(r, u)],
         UNCHANGED <<now, jar, jarUntil, left, owed, lastOk>>
  PROVE  IInv'
  <1>1. /\ TypeOK /\ u \notin issued /\ issued' = issued \cup {u}
        /\ expires' = [t \in Tokens |-> IF t = u THEN now + TTL ELSE IF Alive(t) THEN expires[t] ELSE None]
    BY DEF Create, IInv
  <1>2. /\ req' \in [Requests -> {Idle} \cup Underway \cup Answered]
        /\ \A q \in Requests : q # r => req'[q] = req[q]
        /\ req'[r].at = "answered" /\ req'[r].sets = u /\ req'[r].by = req[r].by
        /\ req'[r].kind = "login" /\ req'[r].cookie = req[r].cookie /\ req'[r].sent = req[r].sent
    BY <1>1, AnswerIs
  <1>3. /\ expires' \in [Tokens -> (0..MaxTime + TTL) \cup {None}] /\ expires'[u] = now + TTL
        /\ \A t \in Tokens : t # u =>
             \/ expires'[t] = expires[t]
             \/ expires'[t] = None /\ ~Alive(t)
    BY <1>1, Times0 DEF TypeOK
  <1>4. \A t \in Tokens, m \in 0..MaxTime : t # u /\ Covers(t, m) => CoversThen(t, m)
    BY <1>1, <1>3, NoneAssumption, Times0 DEF CoversThen, Covers, Alive
  <1>5. TypeOK'
    BY <1>1, <1>2, <1>3 DEF TypeOK
  <1>6. LoggedOutStaysOut' /\ Times'
    BY <1>1, <1>3 DEF IInv, LoggedOutStaysOut, Times, TypeOK
  <1>7. \A d \in Browsers : ~Touches(d, u)
    BY <1>1 DEF IInv, Owners
  <1>8. \A q \in Requests : ~Names(q, u)
    <2> SUFFICES ASSUME NEW q \in Requests, Names(q, u) PROVE FALSE
      OBVIOUS
    <2>1. req[q].by \in Browsers
      BY <1>1, Fields DEF Names
    <2> QED
      BY <1>7, <2>1 DEF Touches
  <1>9. req[r].by \in Browsers /\ req[r].cookie # u
    BY <1>1, <1>8, Fields DEF Names
  <1>10. \A q \in Requests, t \in Tokens :
           /\ Names(q, t)' => Names(q, t) \/ (q = r /\ t = u)
           /\ req'[q].by = req[q].by
    BY <1>2 DEF Names
  <1>11. \A t \in Tokens, d \in Browsers : Touches(d, t)' => Touches(d, t) \/ (t = u /\ d = req[r].by)
    BY <1>10 DEF Touches
  <1>12. Owners'
    BY <1>1, <1>7, <1>11 DEF IInv, Owners
  <1>13. \A q \in Requests, t \in Tokens : NewSession(q, t)' =>
           (NewSession(q, t) /\ q # r /\ t # u) \/ (q = r /\ t = u)
    BY <1>2, <1>8 DEF NewSession, Names
  <1>14. Places'
    <2>1. \A q \in Requests : /\ req'[q].at # "idle" => req'[q].sent <= now'
                              /\ req'[q].at = "inside" => req'[q].kind = "logout" /\ req'[q].cookie # None
      BY <1>2 DEF IInv, Places
    <2>2. ASSUME NEW q \in Requests, NEW t \in Tokens, NewSession(q, t)'
          PROVE  /\ req'[q].cookie # t
                 /\ \A d \in Browsers : jar'[d] # t /\ owed'[d] # t
                 /\ \A p \in Requests : p # q => ~Names(p, t)'
      <3>1. CASE q = r /\ t = u
        BY <1>2, <1>7, <1>8, <1>9, <1>10, <3>1 DEF Touches
      <3>2. CASE NewSession(q, t) /\ q # r /\ t # u
        BY <1>2, <1>10, <3>2 DEF IInv, Places
      <3> QED
        BY <1>13, <2>2, <3>1, <3>2
    <2> QED
      BY <2>1, <2>2 DEF Places
  <1>15. req[r].sent \in 0..MaxTime /\ req[r].sent <= now
    BY <1>1, Fields DEF IInv, Places
  <1>16. NewCovered'
    <2> SUFFICES ASSUME NEW q \in Requests, NEW t \in Tokens, NewSession(q, t)'
                 PROVE  CoversThen(t, req'[q].sent)
      BY DEF NewCovered, Covers, CoversThen
    <2>1. CASE q = r /\ t = u
      BY <1>1, <1>2, <1>3, <1>15, <2>1, NoneAssumption, Times0 DEF CoversThen
    <2>2. CASE NewSession(q, t) /\ q # r /\ t # u
      <3>1. req'[q] = req[q] /\ Covers(t, req[q].sent) /\ req[q].sent \in 0..MaxTime
        BY <1>1, <1>2, <2>2, Fields DEF IInv, NewCovered, NewSession
      <3> QED
        BY <1>4, <2>2, <3>1
    <2> QED
      BY <1>13, <2>1, <2>2
  <1>17. Kept'
    <2> SUFFICES ASSUME NEW d \in Browsers, NEW t \in Tokens, owed[d] = t
                 PROVE  /\ CoversThen(t, lastOk[d])
                        /\ expires'[t] # None => jar[d] = t
                        /\ lastOk[d] + TTL <= jarUntil[d]
                        /\ \A q \in Requests : req'[q].at # "idle" /\ req'[q].by = d =>
                             /\ req'[q].kind = "page" /\ req'[q].cookie = t
                             /\ req'[q].at = "answered" =>
                                  \/ req'[q].sets = t /\ CoversThen(t, req'[q].sent)
                                  \/ req'[q].sets = None /\ expires'[t] = None
      BY DEF Kept, Covers, CoversThen
    <2>1. t # u /\ req[r].by # d
      BY <1>7 DEF Touches, IInv, Kept
    <2>2. CoversThen(t, lastOk[d]) /\ (expires[t] = None => expires'[t] = None)
      BY <1>1, <1>3, <1>4, <2>1 DEF IInv, Kept, TypeOK
    <2>3. \A q \in Requests : q # r => req'[q] = req[q]
      BY <1>2
    <2>4. ASSUME NEW q \in Requests, q # r, req[q].at = "answered", req[q].by = d, req[q].sets = t
          PROVE  CoversThen(t, req[q].sent) \/ t = None
      BY <1>1, <1>4, <2>1, <2>4, Fields DEF IInv, Kept
    <2> QED
      BY <1>2, <2>1, <2>2, <2>3, <2>4, NoneAssumption DEF IInv, Kept
  <1> QED
    BY <1>5, <1>6, <1>12, <1>14, <1>16, <1>17 DEF IInv

LEMMA RestartKeeps ==
  ASSUME IInv, Restart
  PROVE  IInv'
  <1>1. /\ TypeOK /\ expires' = [t \in Tokens |-> None] /\ req' = [r \in Requests |-> Idle]
        /\ owed' = [b \in Browsers |-> None] /\ UNCHANGED <<now, issued, jar, jarUntil, left, lastOk>>
    BY DEF Restart, IInv, browser
  <1>2. \A r \in Requests : req'[r].at = "idle"
    BY <1>1 DEF Idle
  <1>3. TypeOK'
    BY <1>1 DEF TypeOK
  <1>4. LoggedOutStaysOut' /\ Times'
    BY <1>1 DEF IInv, LoggedOutStaysOut, Times, TypeOK
  <1>5. \A t \in Tokens, d \in Browsers : Touches(d, t)' => Touches(d, t)
    BY <1>1, <1>2, NoneAssumption DEF Touches, Names
  <1>6. Owners'
    BY <1>1, <1>5 DEF IInv, Owners
  <1>7. Places' /\ NewCovered' /\ Kept'
    BY <1>1, <1>2, NoneAssumption DEF Places, NewCovered, NewSession, Kept
  <1> QED
    BY <1>3, <1>4, <1>6, <1>7 DEF IInv

LEMMA TickKeeps ==
  ASSUME IInv, Tick
  PROVE  IInv'
  <1>1. /\ TypeOK /\ now < MaxTime /\ now' = now + 1
        /\ UNCHANGED <<issued, expires, jar, jarUntil, req, left, owed, lastOk>>
    BY DEF Tick, IInv, server, browser, history
  <1>2. TypeOK'
    BY <1>1, NumbersAssumption DEF TypeOK
  <1>3. LoggedOutStaysOut' /\ Times'
    BY <1>1, Times0 DEF IInv, LoggedOutStaysOut, Times
  <1>4. Owners'
    BY <1>1 DEF IInv, Owners, Touches, Names
  <1>5. Places'
    <2>1. \A r \in Requests : req[r].at # "idle" => req[r].sent <= now + 1
      BY <1>1, Fields, Times0 DEF IInv, Places
    <2> QED
      BY <1>1, <2>1 DEF IInv, Places, NewSession, Names
  <1>6. \A t \in Tokens, m \in 0..MaxTime : Covers(t, m) => CoversThen(t, m)
    BY <1>1, Times0 DEF Covers, CoversThen
  <1>7. NewCovered'
    <2> SUFFICES ASSUME NEW r \in Requests, NEW t \in Tokens, NewSession(r, t)
                 PROVE  CoversThen(t, req[r].sent)
      BY <1>1 DEF NewCovered, Covers, CoversThen, NewSession
    <2>1. Covers(t, req[r].sent) /\ req[r].sent \in 0..MaxTime
      BY <1>1, Fields DEF IInv, NewCovered, NewSession
    <2> QED
      BY <1>6, <2>1
  <1>8. Kept'
    <2> SUFFICES ASSUME NEW d \in Browsers, NEW t \in Tokens, owed[d] = t
                 PROVE  /\ CoversThen(t, lastOk[d])
                        /\ expires[t] # None => jar[d] = t
                        /\ lastOk[d] + TTL <= jarUntil[d]
                        /\ \A q \in Requests : req[q].at # "idle" /\ req[q].by = d =>
                             /\ req[q].kind = "page" /\ req[q].cookie = t
                             /\ req[q].at = "answered" =>
                                  \/ req[q].sets = t /\ CoversThen(t, req[q].sent)
                                  \/ req[q].sets = None /\ expires[t] = None
      BY <1>1 DEF Kept, Covers, CoversThen
    <2>1. lastOk[d] \in 0..MaxTime /\ \A q \in Requests : req[q].at # "idle" => req[q].sent \in 0..MaxTime
      BY <1>1, Fields DEF TypeOK
    <2> QED
      BY <1>6, <2>1 DEF IInv, Kept
  <1> QED
    BY <1>2, <1>3, <1>4, <1>5, <1>7, <1>8 DEF IInv

LEMMA StepKeeps == IInv /\ [Next]_vars => IInv'
  <1> SUFFICES ASSUME IInv, [Next]_vars PROVE IInv'
    OBVIOUS
  <1>1. ASSUME NEW r \in Requests, Login(r) PROVE IInv'
    <2>1. CASE \E t \in Tokens : Create(t) /\ req' = [req EXCEPT ![r] = Answer(r, t)]
      BY <1>1, <2>1, LoginKeeps DEF Login, browser, history
    <2>2. CASE req' = [req EXCEPT ![r] = Answer(r, "kept")] /\ UNCHANGED server
      BY <1>1, <2>2, LoginFailsKeeps DEF Login, server, browser, history
    <2> QED
      BY <1>1, <2>1, <2>2 DEF Login
  <1>2. CASE UNCHANGED vars
    BY <1>2 DEF vars, server, browser, history, IInv, TypeOK, LoggedOutStaysOut, Owners, Touches,
       Names, Places, NewSession, NewCovered, Covers, Kept, Times
  <1> QED
    BY <1>1, <1>2, SendKeeps, ReceiveKeeps, LoseKeeps, AcceptKeeps, RefuseKeeps, LogoutKeeps,
       RestartKeeps, TickKeeps DEF Next, Handle

LEMMA Invariance == Spec => []IInv
  BY InitHolds, StepKeeps, PTL DEF Spec

-----------------------------------------------------------------------------

\* Sessions, cookies and requests keep their types.
THEOREM TypeCorrect == Spec => []TypeOK
  <1>1. IInv => TypeOK
    BY DEF IInv
  <1> QED
    BY Invariance, <1>1, PTL

\* Whatever is under way at a logout, the session does not come back.
THEOREM LogoutIsFinal == Spec => []LoggedOutStaysOut
  <1>1. IInv => LoggedOutStaysOut
    BY DEF IInv
  <1> QED
    BY Invariance, <1>1, PTL

\* Who is active stays signed in, for any number of overlapping requests.
THEOREM ActiveStaysSignedIn == Spec => []SignedInWhileActive
  <1>1. IInv => SignedInWhileActive
    <2> SUFFICES ASSUME IInv, NEW b \in Browsers, owed[b] # None, now <= lastOk[b] + TTL
                 PROVE  CookieOf(b) = owed[b] /\ Alive(owed[b])
      BY DEF SignedInWhileActive
    <2>1. owed[b] \in Tokens /\ lastOk[b] \in Int /\ jarUntil[b] \in Int /\ now \in Int /\ TTL \in Int
      BY Times0 DEF IInv, TypeOK
    <2>2. /\ Covers(owed[b], lastOk[b]) /\ (expires[owed[b]] # None => jar[b] = owed[b])
          /\ lastOk[b] + TTL <= jarUntil[b]
      BY <2>1 DEF IInv, Kept
    <2>3. expires[owed[b]] # None => expires[owed[b]] \in Int
      BY <2>1, Times0 DEF IInv
    <2> QED
      BY <2>1, <2>2, <2>3 DEF Covers, CookieOf, Alive
  <1> QED
    BY Invariance, <1>1, PTL
=============================================================================
