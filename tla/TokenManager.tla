---------------------------- MODULE TokenManager ----------------------------
(***************************************************************************)
(* oauth2.TokenManager (src/oauth2/token_manager.go): one cached token per *)
(* scope, and the authentication that replaces it.  "Not safe for          *)
(* concurrent use": the module that composes it holds a mutex around every *)
(* call, so at most one authentication is under way.                       *)
(*                                                                         *)
(* Times are what is left: of a token by the manager's reckoning (left)    *)
(* and by the issuer's (real).  The answer of the issuer may be as old as  *)
(* the timeout of the HTTP client.                                         *)
(***************************************************************************)
EXTENDS Integers

CONSTANTS
  Scopes,
  EmptyScope,  \* ""
  NoToken,
  NoAuth,
  Skew,        \* the five seconds by which LastAuthentication is backdated
  AuthTimeout, \* http.Client.Timeout
  Lifetimes    \* values of expires_in

ASSUME TokenManagerAssumption ==
  /\ EmptyScope \notin Scopes
  /\ Skew \in Nat /\ AuthTimeout \in Nat /\ Lifetimes \subseteq Nat

VARIABLES
  cache, \* scope -> token
  auth   \* the authentication under way: its age and what the issuer granted

tokenVars == <<cache, auth>>

\* A token, and (history) how long its answer took.
TokenAccess ==
  [life : Lifetimes, left : Int, real : Int, latency : 0..AuthTimeout]

TokenInit ==
  /\ cache = [s \in Scopes |-> NoToken]
  /\ auth = NoAuth

\* getAccessToken's test of the cached token.
Valid(s) == cache[s] # NoToken /\ cache[s].left > 0

\* authenticate sends its request.
Authenticate ==
  /\ auth = NoAuth
  /\ auth' = [age |-> 0, granted |-> NoToken]
  /\ UNCHANGED cache

\* The issuer creates a token.
IssuerGrants(life) ==
  /\ auth # NoAuth /\ auth.granted = NoToken
  /\ auth' = [auth EXCEPT !.granted =
                [life |-> life, left |-> life, real |-> life, latency |-> 0]]
  /\ UNCHANGED cache

\* DecompressResponse: what the encoding of a response and its first bytes
\* allow.  A deflate stream is tried as zlib and then taken as raw.
DecompressResponse(encoding, magic) ==
  CASE encoding = "gzip" -> magic
    [] encoding \in {"deflate", "br", "zstd", "identity"} -> TRUE
    [] OTHER -> FALSE

\* Mutant: the token counts from the moment it was received.
Stored_NotBackdated(granted) == [granted EXCEPT !.left = granted.life]
\* authenticate backdates LastAuthentication; expires_in counts from there.
Stored(granted) == [granted EXCEPT !.left = granted.life - Skew]

\* The answer is 200, can be decompressed, read and decoded.
AuthArrives(s, encoding, magic) ==
  /\ auth # NoAuth /\ auth.granted # NoToken
  /\ DecompressResponse(encoding, magic)
  /\ cache' = [cache EXCEPT ![s] = Stored(auth.granted)]
  /\ auth' = NoAuth

\* Anything else, the timeout included, leaves the cache alone.
AuthFails ==
  /\ auth # NoAuth
  /\ auth' = NoAuth
  /\ UNCHANGED cache

\* A unit of time passes; the request does not outlast its timeout.
TickTokens ==
  LET floorOf(r) == IF r > -AuthTimeout THEN r - 1 ELSE r IN
  /\ auth # NoAuth => auth.age < AuthTimeout
  /\ cache' = [s \in Scopes |-> IF cache[s] = NoToken THEN NoToken
                                ELSE [cache[s] EXCEPT !.left = IF @ > 0 THEN @ - 1 ELSE 0,
                                                      !.real = floorOf(@)]]
  /\ auth' = CASE auth = NoAuth -> NoAuth
               [] auth # NoAuth /\ auth.granted = NoToken -> [auth EXCEPT !.age = @ + 1]
               [] OTHER -> [auth EXCEPT !.age = @ + 1,
                                        !.granted.real = floorOf(@),
                                        !.granted.latency = @ + 1]
=============================================================================
