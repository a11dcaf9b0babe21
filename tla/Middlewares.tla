----------------------------- MODULE Middlewares -----------------------------
(***************************************************************************)
(* What the CORS, CSRF and authorization middlewares                       *)
(* (src/httpserver/middlewares) decide about one request.                  *)
(***************************************************************************)
EXTENDS Naturals, SequencesExt

CONSTANTS
  None  \* an absent header, cookie or policy

\* Mutant: any origin is reflected.
CORSHeaders_Reflect(policy, origin) == policy # None /\ origin # None
\* CORSWithProvider: whether the response carries CORS headers; a policy is
\* the set of its origins.
CORSHeaders(policy, origin) == policy # None /\ origin # None /\ origin \in policy

\* CSRFWithOptions lets a request pass.
CSRFPasses(method, cookie, header) ==
  \/ method \in {"GET", "HEAD", "OPTIONS"}
  \/ cookie # None /\ header = cookie

\* extractToken: the cookie or the bearer token, never both.
ExtractToken(cookie, bearer) ==
  CASE cookie # None /\ bearer # None -> [status |-> 403, token |-> None]
    [] cookie = None /\ bearer = None -> [status |-> 401, token |-> None]
    [] OTHER -> [status |-> 0, token |-> IF cookie # None THEN cookie ELSE bearer]

\* HasRole, for the roles that the claims grant the client.
HasRole(roles, role) == role \in roles

\* Mutant: the value of a later entry replaces an earlier one.
ApplyRoleContexts_LastWins(roles, extras) ==
  FoldLeft(LAMBDA staged, e :
             IF ~HasRole(roles, e.role) THEN staged
             ELSE {kv \in staged : \A n \in e.values : n[1] # kv[1]} \union e.values,
           {}, extras)

\* applyRoleContexts: the key-value pairs of the entries whose role is held,
\* or None if two of them disagree.
ApplyRoleContexts(roles, extras) ==
  LET staged[i \in 0..Len(extras)] ==
        IF i = 0 THEN {}
        ELSE IF staged[i - 1] = None \/ ~HasRole(roles, extras[i].role) THEN staged[i - 1]
        ELSE IF \E kv \in staged[i - 1], n \in extras[i].values : kv[1] = n[1] /\ kv[2] # n[2]
        THEN None
        ELSE staged[i - 1] \union extras[i].values
  IN staged[Len(extras)]

\* RequireAnyRole, and RequireRole for a route with one role.
RequireAnyRole(roles, route) ==
  LET staged == ApplyRoleContexts(roles, route.extras) IN
  IF ~\E r \in route.roles : HasRole(roles, r) THEN [status |-> 403, values |-> {}]
  ELSE IF staged = None THEN [status |-> 500, values |-> {}]
  ELSE [status |-> 200, values |-> staged]

\* Mutant: whatever starts with a slash is taken for a path.
SanitizeReturnTo_Slash(raw) == IF raw \in {"path", "badPath", "hostPath"} THEN raw ELSE "root"
\* sanitizeReturnTo: a path survives, also one with a malformed escape
\* ("badPath"); "hostPath" starts with two slashes, "url" has a scheme, "word"
\* does not start with a slash.
SanitizeReturnTo(raw) == IF raw \in {"path", "badPath"} THEN raw ELSE "root"

\* Mutant: the bare path, which the browser resolves against the API's origin.
ResolveReturnTo_Relative(absolute, returnTo) == [origin |-> "api", path |-> returnTo]
\* resolveReturnTo: the origin and the path of the redirect after a login,
\* against a postLoginRedirectURI that is absolute or not.
ResolveReturnTo(absolute, returnTo) ==
  IF ~absolute \/ returnTo = "badPath" THEN [origin |-> "configured", path |-> "configured"]
  ELSE [origin |-> IF returnTo = "hostPath" THEN "other" ELSE "configured", path |-> returnTo]
=============================================================================
