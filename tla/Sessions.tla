------------------------------ MODULE Sessions ------------------------------
(***************************************************************************)
(* Signing in (internal/httpserver/session/manager.go and the handlers of  *)
(* server.go that wrap every protected route), with the browsers' cookies. *)
(*                                                                         *)
(* A session lives twice: on the server, until expires[t], and as a cookie *)
(* in the browser, until jarUntil[b].  Both are prolonged by every         *)
(* protected request, the one when the request is handled, the other when  *)
(* its answer arrives.  Requests of a browser overlap, and answers arrive  *)
(* in any order or never.                                                  *)
(***************************************************************************)
EXTENDS Integers

CONSTANTS
  Browsers,
  Requests,   \* bound: requests that can be under way at a time
  Tokens,     \* what newToken draws from; it never draws the same twice
  TTL,        \* admin.session_ttl_sec
  MaxTime,    \* bound: the clock stops here
  None

ASSUME NumbersAssumption == TTL \in Nat /\ MaxTime \in Nat
ASSUME NoneAssumption    == None \notin Tokens \cup Int /\ "kept" \notin Tokens \cup {None}

VARIABLES
  now,
  issued,    \* tokens that newToken has drawn
  expires,   \* Manager.sessions: expiresAt of a token, None for one not there
  jar,       \* the session cookie of a browser
  jarUntil,  \* when the browser drops it, by its Max-Age
  req,       \* requests under way
  left,      \* history: tokens that handleLogout deleted
  owed,      \* history: see SignedInWhileActive
  lastOk     \* history: when the browser sent the last request that it saw accepted

server  == <<issued, expires>>
browser == <<jar, jarUntil>>
history == <<left, owed, lastOk>>
vars    == <<now, server, browser, req, history>>

Kinds == {"login", "logout", "page"}
Idle  == [at |-> "idle"]

\* A request carries the cookie of its browser; an answer says what the cookie
\* becomes: a token (Set-Cookie), None (cleared), or "kept".
Underway == [at : {"sent", "inside"}, by : Browsers, kind : Kinds, cookie : Tokens \cup {None},
             sent : 0..MaxTime]
Answered == [at : {"answered"}, by : Browsers, kind : Kinds, cookie : Tokens \cup {None},
             sent : 0..MaxTime, sets : Tokens \cup {None, "kept"}]

Init ==
  /\ now      = 0
  /\ issued   = {}
  /\ expires  = [t \in Tokens |-> None]
  /\ jar      = [b \in Browsers |-> None]
  /\ jarUntil = [b \in Browsers |-> 0]
  /\ req      = [r \in Requests |-> Idle]
  /\ left     = {}
  /\ owed     = [b \in Browsers |-> None]
  /\ lastOk   = [b \in Browsers |-> 0]

InFlight(b) == {r \in Requests : req[r] # Idle /\ req[r].by = b}

Alive(t) == expires[t] # None /\ now <= expires[t]

\* The cookie the browser sends.
CookieOf(b) == IF now <= jarUntil[b] THEN jar[b] ELSE None

Answer(r, c) ==
  [at |-> "answered", by |-> req[r].by, kind |-> req[r].kind, cookie |-> req[r].cookie,
   sent |-> req[r].sent, sets |-> c]

-----------------------------------------------------------------------------
(* The browser *)

\* owed is given up by whatever may rightly end the session: signing in or out
\* again, or a request sent when the cookie had run out.
Send(r, b, k) ==
  /\ req[r] = Idle
  /\ req'  = [req EXCEPT ![r] =
       [at |-> "sent", by |-> b, kind |-> k, cookie |-> CookieOf(b), sent |-> now]]
  /\ owed' = [owed EXCEPT ![b] = IF k = "page" /\ CookieOf(b) = @ THEN @ ELSE None]
  /\ UNCHANGED <<now, server, browser, left, lastOk>>

\* An answer that says the request was let through.
Accepted(r) == IF req[r].kind = "login" THEN req[r].sets \in Tokens ELSE req[r].sets # None

\* The answer arrives and the browser keeps, stores or drops the cookie.
Receive(r) ==
  /\ req[r].at = "answered"
  /\ req' = [req EXCEPT ![r] = Idle]
  /\ LET b == req[r].by
         c == req[r].sets
     IN  /\ jar'      = [jar EXCEPT ![b] = IF c = "kept" THEN @ ELSE c]
         /\ jarUntil' = [jarUntil EXCEPT ![b] = IF c \in Tokens THEN now + TTL ELSE @]
         /\ lastOk'   = [lastOk EXCEPT ![b] =
              IF Accepted(r) /\ (req[r].kind = "login" \/ @ < req[r].sent) THEN req[r].sent ELSE @]
         /\ owed'     = [owed EXCEPT ![b] =
              IF req[r].kind # "login" \/ ~Accepted(r) THEN @
              ELSE IF InFlight(b) = {r} THEN c ELSE None]
  /\ UNCHANGED <<now, server, left>>

\* The connection breaks, or the page is left: nobody sees the answer.
Lose(r) ==
  /\ req[r].at \in {"sent", "answered"}
  /\ req' = [req EXCEPT ![r] = Idle]
  /\ UNCHANGED <<now, server, browser, history>>

-----------------------------------------------------------------------------
(* The server *)

\* Create: cleanupLocked sweeps, then the new session is stored.
Create(t) ==
  /\ t \notin issued
  /\ issued'  = issued \cup {t}
  /\ expires' = [u \in Tokens |-> IF u = t THEN now + TTL ELSE IF Alive(u) THEN expires[u] ELSE None]

\* handleLogin: wrong credentials leave the cookie as it is.
Login(r) ==
  /\ req[r].at = "sent" /\ req[r].kind = "login"
  /\ \/ \E t \in Tokens : Create(t) /\ req' = [req EXCEPT ![r] = Answer(r, t)]
     \/ req' = [req EXCEPT ![r] = Answer(r, "kept")] /\ UNCHANGED server
  /\ UNCHANGED <<now, browser, history>>

\* Mutant: the session is prolonged from its end, not from now.
ValidateExtends(t) == Alive(t) /\ expires' = [expires EXCEPT ![t] = @ + TTL]

\* Validate of a session that is alive prolongs it.
Validate(t) == Alive(t) /\ expires' = [expires EXCEPT ![t] = now + TTL]

\* Mutant: the answer does not prolong the cookie.
AcceptSilently(r) ==
  /\ req[r].at = "sent" /\ req[r].kind # "login"
  /\ req[r].cookie # None /\ Validate(req[r].cookie)
  /\ req' = [req EXCEPT ![r] = IF @.kind = "page" THEN Answer(r, "kept") ELSE [@ EXCEPT !.at = "inside"]]
  /\ UNCHANGED <<now, issued, browser, history>>

\* requireAuth lets the request through, with the cookie set anew; what the
\* handlers do then does not touch the session, but for handleLogout.
Accept(r) ==
  /\ req[r].at = "sent" /\ req[r].kind # "login"
  /\ req[r].cookie # None /\ Validate(req[r].cookie)
  /\ req' = [req EXCEPT ![r] = IF @.kind = "page" THEN Answer(r, @.cookie) ELSE [@ EXCEPT !.at = "inside"]]
  /\ UNCHANGED <<now, issued, browser, history>>

\* 403 with the cookie cleared; Validate deletes a session found expired.
Refuse(r) ==
  /\ req[r].at = "sent" /\ req[r].kind # "login"
  /\ LET t == req[r].cookie IN
       \/ t = None /\ UNCHANGED expires
       \/ t # None /\ ~Alive(t) /\ expires' = [expires EXCEPT ![t] = None]
  /\ req' = [req EXCEPT ![r] = Answer(r, None)]
  /\ UNCHANGED <<now, issued, browser, history>>

\* Mutant: only the cookie is cleared.
LogoutCookieOnly(r) ==
  /\ req[r].at = "inside"
  /\ left' = left \cup {req[r].cookie}
  /\ req'  = [req EXCEPT ![r] = Answer(r, None)]
  /\ UNCHANGED <<now, server, browser, owed, lastOk>>

\* handleLogout, past requireAuth: Delete, and the cookie is cleared after all.
Logout(r) ==
  /\ req[r].at = "inside"
  /\ expires' = [expires EXCEPT ![req[r].cookie] = None]
  /\ left'    = left \cup {req[r].cookie}
  /\ req'     = [req EXCEPT ![r] = Answer(r, None)]
  /\ UNCHANGED <<now, issued, browser, owed, lastOk>>

\* The process ends and starts anew: no session survives, nor any connection.
Restart ==
  /\ expires' = [t \in Tokens |-> None]
  /\ req'     = [r \in Requests |-> Idle]
  /\ owed'    = [b \in Browsers |-> None]
  /\ UNCHANGED <<now, issued, browser, left, lastOk>>

Tick ==
  /\ now < MaxTime
  /\ now' = now + 1
  /\ UNCHANGED <<server, browser, req, history>>

Handle(r) == Login(r) \/ Accept(r) \/ Refuse(r) \/ Logout(r)

Next ==
  \/ \E r \in Requests :
       \/ Handle(r) \/ Receive(r) \/ Lose(r)
       \/ \E b \in Browsers, k \in Kinds : Send(r, b, k)
  \/ Restart
  \/ Tick

Spec == Init /\ [][Next]_vars

-----------------------------------------------------------------------------
(* Properties *)

TypeOK ==
  /\ now      \in 0..MaxTime
  /\ issued   \subseteq Tokens
  /\ expires  \in [Tokens -> (0..MaxTime + TTL) \cup {None}]
  /\ jar      \in [Browsers -> Tokens \cup {None}]
  /\ jarUntil \in [Browsers -> 0..MaxTime + TTL]
  /\ req      \in [Requests -> {Idle} \cup Underway \cup Answered]
  /\ left     \subseteq issued
  /\ owed     \in [Browsers -> Tokens \cup {None}]
  /\ lastOk   \in [Browsers -> 0..MaxTime]

\* A session that was logged out stays out: no request that was under way at the
\* time, and no answer that comes late, brings it back.
LoggedOutStaysOut == \A t \in left : expires[t] = None

\* Who signed in, with nothing else under way from that browser, and within the
\* TTL sends a request that is accepted, is signed in for another TTL from then
\* on: the cookie is still sent and the server still knows it, however answers
\* overtake each other or are lost.
SignedInWhileActive ==
  \A b \in Browsers :
    owed[b] # None /\ now <= lastOk[b] + TTL => CookieOf(b) = owed[b] /\ Alive(owed[b])
=============================================================================
