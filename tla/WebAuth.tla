------------------------------- MODULE WebAuth -------------------------------
(***************************************************************************)
(* The login handlers of middlewares.Auth and the middleware chain in      *)
(* front of an API (src/httpserver/middlewares), used by one browser: its  *)
(* tabs share a cookie jar, send requests at any time and receive the      *)
(* responses in any order.                                                 *)
(*                                                                         *)
(* A handler is one step between the sending of its request and the        *)
(* arrival of its response, except Callback, which is cut at the issuer's  *)
(* answers and the store's.  The session store appears as what             *)
(* SessionManager promises of it (see SessionManager.tla); the issuer is   *)
(* external: it sends a new code whenever a login's URL is opened, and a   *)
(* code is good for one exchange with the verifier of its login.  The      *)
(* clock counts fractions of a second.                                     *)
(***************************************************************************)
EXTENDS Middlewares

CONSTANTS
  Tabs, Logins, Codes, Sessions, \* browser tabs, login attempts, the issuer's codes, session ids
  Second,        \* clock ticks in a second
  LoginStateTTL, \* in seconds
  Lifetime,      \* of a session since its last renewal, in ticks
  Routes,        \* [roles, extras] of the protected routes
  RoleSets,      \* the roles that claims may carry
  Policies,      \* CORS policies
  Raws,          \* what Login may be asked to return to
  Requests,      \* [route, method, origin, bearer] of the calls to the API
  Base,          \* postLoginRedirectURI is absolute
  MaxTime        \* bound on the clock

ASSUME WebAuthAssumption ==
  /\ Second \in Nat \ {0} /\ LoginStateTTL \in Nat /\ Lifetime \in Nat \ {0}
  /\ Base \in BOOLEAN /\ MaxTime \in Nat

\* The values of an entry come from a map: one for each key.
ASSUME RoutesAssumption ==
  /\ \A api \in Requests : api.route \in Routes
  /\ \A route \in Routes :
       /\ route.extras \in Seq({route.extras[i] : i \in DOMAIN route.extras})
       /\ \A i \in DOMAIN route.extras : \A a, b \in route.extras[i].values :
            a = <<a[1], a[2]>> /\ (a[1] = b[1] => a = b)

\* What Login signs, with its time and what was asked for.
LoginState == [exp : Nat, at : Nat, asked : Raws, returnTo : {"path", "badPath", "root"}]

ASSUME NoneAssumption ==
  /\ None \notin Sessions \union Codes \union Logins /\ None # "token" /\ None \notin LoginState
  /\ \A route \in Routes :
       \A staged \in SUBSET UNION {route.extras[i].values : i \in DOMAIN route.extras} :
         None # staged

VARIABLES
  clock,
  login,  \* login -> its signed state
  code,   \* the issuer's: code -> the login it was issued for, and whether it is spent
  store,  \* session -> its row
  jar,    \* the browser's two cookies
  req, resp, \* tab -> its request, and the response on its way
  call,   \* tab -> how far the Callback that serves it is
  dead    \* history: the sessions a logout has ended

vars == <<clock, login, code, store, jar, req, resp, call, dead>>

-----------------------------------------------------------------------------
Never == MaxTime + 2 * Lifetime + 1  \* no Max-Age: the cookie stays
Unix(time) == time \div Second
NoCookie == [value |-> None, until |-> Never]
Row(state, ends, k, roles) == [state |-> state, ends |-> ends, code |-> k, roles |-> roles]

\* A Callback at its start; later, when it checked the state and what it will store.
NoCall == [step |-> "start", checked |-> 0, ends |-> 0, roles |-> {}]

\* What the browser sends of a cookie.
Value(cookie) == IF clock < cookie.until THEN cookie.value ELSE None

Init ==
  /\ clock = 0
  /\ login = [l \in Logins |-> None]
  /\ code = [k \in Codes |-> [login |-> None, spent |-> FALSE]]
  /\ store = [s \in Sessions |-> Row("unused", 0, None, {})]
  /\ jar = [session |-> NoCookie, csrf |-> NoCookie]
  /\ req = [t \in Tabs |-> None]
  /\ resp = [t \in Tabs |-> None]
  /\ call = [t \in Tabs |-> NoCall]
  /\ dead = {}

\* Login puts the verifier, the path and the expiry into the signed state.
Login(l, raw) ==
  /\ login[l] = None
  /\ login' = [login EXCEPT ![l] = [exp |-> Unix(clock + LoginStateTTL * Second),
                                    at |-> clock, asked |-> raw,
                                    returnTo |-> SanitizeReturnTo(raw)]]
  /\ UNCHANGED <<clock, code, store, jar, req, resp, call, dead>>

\* The user signs in at the issuer: each time a login's URL is opened.
IssueCode(l, k) ==
  /\ login[l] # None /\ code[k].login = None
  /\ code' = [code EXCEPT ![k].login = l]
  /\ UNCHANGED <<clock, login, store, jar, req, resp, call, dead>>

-----------------------------------------------------------------------------
(* The browser. *)

\* A request carries the cookies of the moment, and the CSRF token if the
\* script has read it.
Send(t, op, l, k, route, header, api) ==
  /\ req[t] = None
  /\ req' = [req EXCEPT ![t] =
       [op |-> op, method |-> api.method, login |-> l, code |-> k, route |-> route,
        origin |-> api.origin,
        session |-> Value(jar.session), csrf |-> Value(jar.csrf), header |-> header,
        bearer |-> api.bearer, late |-> op = "api" /\ Value(jar.session) \in dead]]
  /\ UNCHANGED <<clock, login, code, store, jar, resp, call, dead>>

Plain(method) == [method |-> method, origin |-> None, bearer |-> None]

\* The redirect back from the issuer, which the user may repeat, with a state
\* and a code, or without a code (an error).
SendCallback(t) ==
  \E l \in Logins, k \in Codes \union {None} :
    /\ login[l] # None
    /\ k # None => code[k].login # None
    /\ Send(t, "callback", l, k, None, None, Plain("GET"))

SendAuth(t) ==
  \E op \in {"refresh", "logout"}, header \in {None, Value(jar.csrf)} :
    Send(t, op, None, None, None, header, Plain("POST"))

SendAPI(t) ==
  \E api \in Requests : Send(t, "api", None, None, api.route, None, api)

\* A response without cookies, and one that sets or clears them.
Reply(t, status) ==
  [status |-> status, set |-> "none", session |-> None, csrf |-> None, maxAge |-> 0,
   at |-> 0, ends |-> 0, to |-> None, checked |-> 0, values |-> {}, cors |-> FALSE]

\* Mutant: the session cookie is renewed alone.
ApplySession_NoCSRF(r, s, ends) ==
  [r EXCEPT !.set = "session", !.session = s, !.at = clock, !.ends = ends,
            !.maxAge = (IF ends > clock THEN ends - clock ELSE 0) \div Second]
\* Mutant: the lifetime of the cookie is rounded up.
ApplySession_Up(r, s, ends) ==
  [r EXCEPT !.set = "both", !.session = s, !.at = clock, !.ends = ends,
            !.csrf = "token",
            !.maxAge = ((IF ends > clock THEN ends - clock ELSE 0) + Second - 1) \div Second]

\* applySession: both cookies, with the whole seconds left and a fresh token (a
\* header that carries an older one is refused like a missing header).
ApplySession(r, s, ends) ==
  [r EXCEPT !.set = "both", !.session = s, !.at = clock, !.ends = ends,
            !.csrf = "token",
            !.maxAge = (IF ends > clock THEN ends - clock ELSE 0) \div Second]

\* setCookie: a Max-Age of zero is not written at all.
CookieOf(value, maxAge) ==
  [value |-> value, until |-> IF maxAge = 0 THEN Never ELSE clock + maxAge * Second]

\* The response arrives and the jar takes its cookies.
Deliver(t) ==
  /\ resp[t] # None
  /\ jar' = CASE resp[t].set = "none" -> jar
              [] resp[t].set = "clear" -> [jar EXCEPT !.session = NoCookie, !.csrf = NoCookie]
              [] OTHER -> [session |-> CookieOf(resp[t].session, resp[t].maxAge),
                           csrf |-> IF resp[t].set = "both"
                                    THEN CookieOf(resp[t].csrf, resp[t].maxAge) ELSE jar.csrf]
  /\ req' = [req EXCEPT ![t] = None]
  /\ resp' = [resp EXCEPT ![t] = None]
  /\ UNCHANGED <<clock, login, code, store, call, dead>>

-----------------------------------------------------------------------------
(* The server. *)

\* The CORS middleware reads the policy of the moment once for each request.
Respond(t, r) ==
  \E policy \in Policies :
    resp' = [resp EXCEPT ![t] = [r EXCEPT !.cors = CORSHeaders(policy, req[t].origin)]]

\* The request of tab t is at the server, and no handler has begun with it.
Arrived(t) == req[t] # None /\ resp[t] = None /\ call[t].step = "start"

\* The chain in front of the handlers has let the request through.
Passes(t, op) ==
  /\ Arrived(t) /\ req[t].op = op
  /\ req[t].method # "OPTIONS"
  /\ CSRFPasses(req[t].method, req[t].csrf, req[t].header)

\* CORS answers a preflight, CSRF refuses a request without a matching pair.
Stopped(t) ==
  /\ Arrived(t)
  /\ \/ req[t].method = "OPTIONS" /\ Respond(t, Reply(t, 204))
     \/ /\ req[t].method # "OPTIONS"
        /\ ~CSRFPasses(req[t].method, req[t].csrf, req[t].header)
        /\ Respond(t, Reply(t, 403))
  /\ UNCHANGED <<clock, login, code, store, jar, req, call, dead>>

\* Mutant: a state does not age.
DecodeState_Ageless(l) == login[l] # None
\* decodeState, of a state that Login signed.
DecodeState(l) == login[l] # None /\ Unix(clock) <= login[l].exp

\* Callback, up to the exchange: an error or a missing code, or a state that
\* does not decode, is refused.
CheckState(t) ==
  /\ Passes(t, "callback")
  /\ \/ /\ req[t].code = None \/ ~DecodeState(req[t].login)
        /\ Respond(t, Reply(t, 400))
        /\ UNCHANGED call
     \/ /\ req[t].code # None /\ DecodeState(req[t].login)
        /\ call' = [call EXCEPT ![t].step = "exchange", ![t].checked = clock]
        /\ UNCHANGED resp
  /\ UNCHANGED <<clock, login, code, store, jar, req, dead>>

\* The Callback of tab t waits for an answer, or has returned.
Waits(t, step) == req[t] # None /\ resp[t] = None /\ call[t].step = step
Returns(t) == call' = [call EXCEPT ![t] = NoCall]

Spend(k) == code' = [code EXCEPT ![k].spent = TRUE]

\* Mutant: the error of the exchange is not looked at.
Exchange_ErrorIgnored(t) ==
  /\ Waits(t, "exchange")
  /\ Spend(req[t].code)
  /\ call' = [call EXCEPT ![t].step = "verify"]
  /\ UNCHANGED <<clock, login, store, jar, req, resp, dead>>

\* The exchange: refused or lost, before or after the issuer saw the code; or
\* the tokens, once for each code and only with its own login's verifier.
Exchange(t) ==
  /\ Waits(t, "exchange")
  /\ \/ /\ Respond(t, Reply(t, 401))
        /\ UNCHANGED code \/ Spend(req[t].code)
        /\ Returns(t)
     \/ /\ code[req[t].code] = [login |-> req[t].login, spent |-> FALSE]
        /\ Spend(req[t].code)
        /\ call' = [call EXCEPT ![t].step = "verify"]
        /\ UNCHANGED resp
  /\ UNCHANGED <<clock, login, store, jar, req, dead>>

\* The claims are not verified; or they are, and SessionManager.Create computes
\* the session's end before it saves the row.
VerifyClaims(t) ==
  /\ Waits(t, "verify")
  /\ \/ Respond(t, Reply(t, 401)) /\ Returns(t)
     \/ /\ \E roles \in RoleSets :
             call' = [call EXCEPT ![t].step = "create", ![t].roles = roles,
                                  ![t].ends = clock + Lifetime]
        /\ UNCHANGED resp
  /\ UNCHANGED <<clock, login, code, store, jar, req, dead>>

\* The store does not save the row, or saves it and its answer is lost; or
\* applySession writes the cookies and the browser is sent back.
Create(t) ==
  /\ Waits(t, "create")
  /\ \/ Respond(t, Reply(t, 500)) /\ UNCHANGED store
     \/ \E s \in Sessions :
          /\ store[s].state = "unused"
          /\ store' = [store EXCEPT ![s] = Row("live", call[t].ends, req[t].code, call[t].roles)]
          /\ \/ Respond(t, Reply(t, 500))
             \/ Respond(t, [ApplySession(Reply(t, 302), s, call[t].ends) EXCEPT
                              !.to = ResolveReturnTo(Base, login[req[t].login].returnTo),
                              !.checked = call[t].checked])
  /\ Returns(t)
  /\ UNCHANGED <<clock, login, code, jar, req, dead>>

Callback(t) == CheckState(t) \/ Exchange(t) \/ VerifyClaims(t) \/ Create(t)

Live(s) == s \in Sessions /\ store[s].state = "live"

\* SessionManager.Resolve: a live session, whose ceiling a refresh may move ...
Resolves(s, ends) ==
  /\ Live(s) /\ clock < store[s].ends
  /\ ends \in {store[s].ends, clock + Lifetime}
  /\ store' = [store EXCEPT ![s].ends = ends]

\* ... or an error: the session is unknown or over, the issuer ended it and its
\* row is deleted, or the store failed.
ResolveFails(s) ==
  \/ UNCHANGED store
  \/ Live(s) /\ store' = [store EXCEPT ![s].state = "deleted"]

\* Refresh: without a cookie nothing is cleared; any error of Resolve clears.
Refresh(t) ==
  LET s == req[t].session IN
  /\ Passes(t, "refresh")
  /\ \/ s = None /\ Respond(t, Reply(t, 401)) /\ UNCHANGED store
     \/ /\ s # None
        /\ \E ends \in 0..MaxTime + Lifetime :
             Resolves(s, ends) /\ Respond(t, ApplySession(Reply(t, 204), s, ends))
     \/ /\ s # None
        /\ ResolveFails(s) /\ Respond(t, [Reply(t, 401) EXCEPT !.set = "clear"])
  /\ UNCHANGED <<clock, login, code, jar, req, call, dead>>

\* Mutant: the cookies are cleared and the session is left to expire.
Logout_CookiesOnly(t) ==
  /\ Passes(t, "logout")
  /\ dead' = IF req[t].session \in Sessions THEN dead \union {req[t].session} ELSE dead
  /\ Respond(t, [Reply(t, 200) EXCEPT !.set = "clear"])
  /\ UNCHANGED <<clock, login, code, store, jar, req, call>>

\* Logout: Peek and Delete, whose error is ignored; the cookies always go.
Logout(t) ==
  LET s == req[t].session IN
  /\ Passes(t, "logout")
  /\ \/ /\ s \in Sessions
        /\ store' = [store EXCEPT ![s].state = "deleted"]
        /\ dead' = dead \union {s}
     \/ UNCHANGED <<store, dead>>
  /\ Respond(t, [Reply(t, 200) EXCEPT !.set = "clear"])
  /\ UNCHANGED <<clock, login, code, jar, req, call>>

\* Authorization, then RequireRole or RequireAnyRole, then a handler such as Me.
API(t) ==
  LET found == ExtractToken(req[t].session, req[t].bearer) IN
  /\ Passes(t, "api")
  /\ \/ found.status # 0 /\ Respond(t, Reply(t, found.status)) /\ UNCHANGED store
     \/ /\ found.status = 0
        /\ ResolveFails(found.token) /\ Respond(t, Reply(t, 401))
     \/ /\ found.status = 0
        /\ \E ends \in 0..MaxTime + Lifetime : Resolves(found.token, ends)
        /\ LET access == RequireAnyRole(store[found.token].roles, req[t].route) IN
           Respond(t, [Reply(t, access.status) EXCEPT !.values = access.values])
  /\ UNCHANGED <<clock, login, code, jar, req, call, dead>>

Tick ==
  /\ clock < MaxTime
  /\ clock' = clock + 1
  /\ UNCHANGED <<login, code, store, jar, req, resp, call, dead>>

Next ==
  \/ \E l \in Logins : (\E raw \in Raws : Login(l, raw)) \/ \E k \in Codes : IssueCode(l, k)
  \/ \E t \in Tabs :
       \/ SendAuth(t) \/ SendAPI(t) \/ SendCallback(t) \/ Deliver(t)
       \/ Stopped(t) \/ Callback(t) \/ Refresh(t) \/ Logout(t) \/ API(t)
  \/ Tick

Spec == Init /\ [][Next]_vars

-----------------------------------------------------------------------------
(* Properties. *)

\* Every variable has its type.
TypeOK ==
  /\ clock \in 0..MaxTime
  /\ login \in [Logins -> LoginState \union {None}]
  /\ code \in [Codes -> [login : Logins \union {None}, spent : BOOLEAN]]
  /\ \A s \in Sessions :
       /\ store[s].state \in {"unused", "live", "deleted"}
       /\ store[s].state # "unused" => store[s].code \in Codes /\ store[s].roles \in RoleSets
  /\ jar.session.value \in Sessions \union {None} /\ jar.csrf.value \in {"token", None}
  /\ \A t \in Tabs : resp[t] # None =>
       req[t] # None /\ resp[t].status \in {200, 204, 302, 400, 401, 403, 500}
  /\ \A t \in Tabs : call[t].step \in {"start", "exchange", "verify", "create"}
  /\ dead \subseteq Sessions

\* However often a callback is repeated, and however late its answers come, a
\* code yields at most one session; a browser is given only the session of the
\* code it came back with, for a state that was checked within its time to live
\* and the second that Unix() drops (oidcauth.go:175-233, 413, 445).
OneTimelySession ==
  /\ \A s, other \in Sessions :
       s # other /\ store[s].state # "unused" /\ store[other].state # "unused" =>
         store[s].code # store[other].code
  /\ \A t \in Tabs : resp[t] # None /\ resp[t].to # None =>
       /\ store[resp[t].session].code = req[t].code
       /\ code[req[t].code] = [login |-> req[t].login, spent |-> TRUE]
       /\ resp[t].checked < login[req[t].login].at + (LoginStateTTL + 1) * Second

\* A request sent after a logout of its session was handled is not served,
\* although a response that was still on its way may have put the cookie back
\* (oidcauth.go:266-294, 318-330; authorization.go:78-106).
LogoutEndsAccess ==
  \A t \in Tabs : resp[t] # None /\ req[t].op = "api" /\ req[t].late
    => resp[t].status # 200

\* The session cookie expires "with the session" (oidcauth.go:318): it is kept
\* past the end of the session by at most the time its response travelled.  Only
\* one written in the last second has no expiry, as Max-Age would be zero.
CookieExpiresWithSession ==
  [][\A t \in Tabs : resp[t] # None /\ resp'[t] = None /\ resp[t].session # None =>
       IF jar'.session.until = Never THEN resp[t].ends < resp[t].at + Second
       ELSE jar'.session.until - clock <= resp[t].ends - resp[t].at]_vars

\* The browser holds the session cookie and the CSRF cookie together or not at
\* all, whatever the order in which responses arrive: otherwise every request of
\* the session that changes something would be refused (csrf.go:74-91).
CookiesTogether ==
  /\ Value(jar.session) = None <=> Value(jar.csrf) = None
  /\ jar.session.until = jar.csrf.until

\* A route is served only to a session with one of its roles, with the values of
\* every entry whose role it holds; two that disagree are an error in whatever
\* order they are listed (authorization.go:139-203).
RolesDecide ==
  \A t \in Tabs :
    resp[t] # None /\ req[t].op = "api" /\ resp[t].status \in {200, 500} =>
      \E roles \in RoleSets :
        LET held == {i \in DOMAIN req[t].route.extras : req[t].route.extras[i].role \in roles}
            all == UNION {req[t].route.extras[i].values : i \in held}
            agree == \A a, b \in all : a[1] = b[1] => a = b
        IN /\ roles \intersect req[t].route.roles # {}
           /\ req[t].session # None => store[req[t].session].roles = roles
           /\ resp[t].status = IF agree THEN 200 ELSE 500
           /\ agree => resp[t].values = all

\* CORS headers go only to origins that some policy lists, preflights and error
\* responses included: Access-Control-Allow-Origin "can never reflect an
\* arbitrary origin" (cors.go:76-80), and a nil policy names none.
ListedOriginsOnly ==
  \A t \in Tabs : resp[t] # None /\ resp[t].cors =>
    \E policy \in Policies \ {None} : req[t].origin \in policy

\* After a login the browser is sent to the path it asked for, on the
\* frontend's own origin, or to the root; a path that does not parse counts as
\* the configured page (oidcauth.go:381-405).
ReturnsToOwnPath ==
  \A t \in Tabs : resp[t] # None /\ resp[t].to # None =>
    /\ resp[t].to.origin = "configured"
    /\ Base => resp[t].to.path = CASE login[req[t].login].asked = "path" -> "path"
                                   [] login[req[t].login].asked = "badPath" -> "configured"
                                   [] OTHER -> "root"

\* A callback ends in the one session of its code, checked in time, and where its
\* login asked to return to (oidcauth.go:159-233, 381-449).
LoginsComplete == TypeOK /\ OneTimelySession /\ ReturnsToOwnPath

\* The middlewares' decisions on a request: what it gets is what its session's
\* roles and its origin allow (authorization.go:75-203, cors.go:76-120).
RequestsDecided == RolesDecide /\ ListedOriginsOnly
=============================================================================
