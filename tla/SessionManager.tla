---------------------------- MODULE SessionManager ----------------------------
(***************************************************************************)
(* oidcauth.SessionManager: server-side sessions resolved by concurrent    *)
(* requests, each of which may refresh the access token under a per-row    *)
(* lock (src/oidcauth/session_manager.go), with the periodic cleanup of    *)
(* src/oidcauth/cleanup.go and the logout handler of the auth middleware.  *)
(*                                                                         *)
(* The SessionStore is implemented by the application; it is modelled from *)
(* its contract in src/oidcauth/session.go: a plain read never waits,      *)
(* every write of a row waits for the holder of its lock, a failed or      *)
(* abandoned unit of work persists nothing.  The issuer is modelled from   *)
(* how Flow.Refresh and the verifier use it: it may rotate the refresh     *)
(* token on each grant, it refuses a spent or revoked one, its answer may  *)
(* be lost.  Every call to either may fail.                                *)
(*                                                                         *)
(* Time is a counter; 0 is Go's zero time.  One Resolve call is one member *)
(* of Requests.  A token is the number of its generation, 0 is "".         *)
(***************************************************************************)
EXTENDS Naturals

CONSTANTS
  Sessions,         \* session IDs (UUIDs, never reused)
  Requests,         \* Resolve calls
  NoRow,            \* the store has no such session
  NoRequest,        \* the row is not locked
  HasVerifier,      \* SessionManagerConfig.Verifier is set
  IdleTimeout,      \* 0 disables it
  AbsoluteTimeout,  \* 0 disables it
  DefaultAccessTTL, \* defaultAccessTokenTTL
  DefaultRefreshTTL,\* defaultRefreshTokenTTL
  AccessTTLs,       \* lifetimes the issuer reports for an access token, 0: none
  RefreshTTLs,      \* the same for refresh tokens
  SendsRefreshToken,\* whether a token response carries a refresh token
  MaxTime           \* bound on the clock

ASSUME TimeoutAssumption == IdleTimeout \in Nat /\ AbsoluteTimeout \in Nat
ASSUME TTLAssumption ==
  /\ DefaultAccessTTL \in Nat \ {0} /\ DefaultRefreshTTL \in Nat \ {0}
  /\ AccessTTLs \subseteq Nat /\ RefreshTTLs \subseteq Nat
ASSUME IssuerAssumption == SendsRefreshToken \subseteq BOOLEAN
ASSUME VerifierAssumption == HasVerifier \in BOOLEAN
ASSUME MaxTimeAssumption == MaxTime \in Nat

VARIABLES
  clock,
  row,      \* store: session ID -> its row
  lock,     \* store: session ID -> the request inside WithLock
  born,     \* session ID -> creation time, 0 before it is created
  current,  \* issuer: session -> the refresh token it will honour
  revoked,  \* issuer: session -> user disabled, token revoked or SSO ended
  pc, target, now,  \* a Resolve call: where it is, its id and its m.now()
  snap,     \* a Resolve call: the copy of the row it read or returns
  answer,   \* a Resolve call: the token response on its way back
  began,    \* history: what held when the call began
  lost,     \* history: sessions whose rotated refresh token was never stored
  replayed  \* history: sessions whose spent refresh token was presented

storeVars == <<row, lock, born>>
issuerVars == <<current, revoked>>
callVars == <<pc, target, now, snap, answer, began>>
historyVars == <<lost, replayed>>
vars == <<clock, storeVars, issuerVars, callVars, historyVars>>

-----------------------------------------------------------------------------
(* Data. *)

TokenSet == [atExp : Nat, rt : Nat, rtExp : Nat]
Session == [tokens : TokenSet, createdAt : Nat, expiresAt : Nat, lastSeen : Nat]
\* What a token response carries.
Response == [atTTL : AccessTTLs, rt : SendsRefreshToken, rtTTL : RefreshTTLs]

ASSUME NoRowAssumption == NoRow \notin Session
ASSUME NoRequestAssumption == NoRequest \notin Requests

Working == {"get", "verify", "touch", "lock", "grant", "answer", "persist", "drop"}
Ended == {"ok", "notFound", "crashed"}
\* The places where a call holds the lock of its row.
Locking == {"grant", "answer", "persist"}
\* The places where a token response of the issuer is not stored yet.
Granted == {"answer", "persist"}

EmptyTokens == [atExp |-> 0, rt |-> 0, rtExp |-> 0]
EmptySession ==
  [tokens |-> EmptyTokens, createdAt |-> 0, expiresAt |-> 0, lastSeen |-> 0]
NoAnswer == [atTTL |-> 0, rt |-> FALSE, rtTTL |-> 0]

Earlier(a, b) == IF a < b THEN a ELSE b


\* Mutant: a missing access token lifetime is stored as the zero time.
TokenSetFrom_NoDefault(resp, rt, previous, t) ==
  [atExp |-> IF resp.atTTL = 0 THEN 0 ELSE t + resp.atTTL,
   rt    |-> IF resp.rt THEN rt ELSE previous.rt,
   rtExp |-> IF resp.rtTTL = 0 THEN previous.rtExp ELSE t + resp.rtTTL]

\* tokenSetFrom: anything the response omits keeps its previous value, an
\* access token without a lifetime gets the default one.  rt is the refresh
\* token of the response if it carries one, and t is time.Now().
TokenSetFrom(resp, rt, previous, t) ==
  [atExp |-> t + (IF resp.atTTL = 0 THEN DefaultAccessTTL ELSE resp.atTTL),
   rt    |-> IF resp.rt THEN rt ELSE previous.rt,
   rtExp |-> IF resp.rtTTL = 0 THEN previous.rtExp ELSE t + resp.rtTTL]

\* The issuer's share of a session's ceiling.
IssuerCeiling(tokens, createdAt) ==
  CASE tokens.rt = 0 -> tokens.atExp
    [] tokens.rt # 0 /\ tokens.rtExp # 0 -> tokens.rtExp
    [] OTHER -> createdAt + DefaultRefreshTTL


\* Mutant: a lifetime reported by the issuer wins over the absolute timeout.
ComputeExpiresAt_NoCap(tokens, createdAt) ==
  IF AbsoluteTimeout > 0 /\ tokens.rtExp = 0
  THEN Earlier(IssuerCeiling(tokens, createdAt), createdAt + AbsoluteTimeout)
  ELSE IssuerCeiling(tokens, createdAt)

ComputeExpiresAt(tokens, createdAt) ==
  IF AbsoluteTimeout > 0
  THEN Earlier(IssuerCeiling(tokens, createdAt), createdAt + AbsoluteTimeout)
  ELSE IssuerCeiling(tokens, createdAt)

IsExpired(s, t) ==
  \/ t >= s.expiresAt
  \/ IdleTimeout > 0 /\ s.lastSeen # 0 /\ t > s.lastSeen + IdleTimeout

\* The session as authenticated at time t.
Seen(s, t) == [s EXCEPT !.lastSeen = t]

-----------------------------------------------------------------------------
Init ==
  /\ clock = 1
  /\ row = [s \in Sessions |-> NoRow]
  /\ lock = [s \in Sessions |-> NoRequest]
  /\ born = [s \in Sessions |-> 0]
  /\ current = [s \in Sessions |-> 0]
  /\ revoked = [s \in Sessions |-> FALSE]
  /\ pc = [r \in Requests |-> "idle"]
  /\ target \in [Requests -> Sessions]
  /\ now = [r \in Requests |-> 0]
  /\ snap = [r \in Requests |-> EmptySession]
  /\ answer = [r \in Requests |-> NoAnswer]
  /\ began = [r \in Requests |-> [gone |-> FALSE, revoked |-> FALSE, granted |-> FALSE]]
  /\ lost = {}
  /\ replayed = {}

Goto(r, place) == pc' = [pc EXCEPT ![r] = place]
Unlock(r) == lock' = [lock EXCEPT ![target[r]] = NoRequest]
Unlocked(s) == lock[s] = NoRequest
Exists(s) == row[s] # NoRow

\* A grant the issuer made for s whose answer has not been stored yet.
GrantPending(s) == \E r \in Requests : pc[r] \in Granted /\ target[r] = s

-----------------------------------------------------------------------------
(* Creation, logout, cleanup. *)

\* SessionManager.Create, from the tokens the callback exchanged.
Create(s, resp) ==
  /\ born[s] = 0
  /\ LET tokens == TokenSetFrom(resp, 1, EmptyTokens, clock) IN
       row' = [row EXCEPT ![s] =
                 [tokens |-> tokens, createdAt |-> clock, lastSeen |-> 0,
                  expiresAt |-> ComputeExpiresAt(tokens, clock)]]
  /\ born' = [born EXCEPT ![s] = clock]
  /\ current' = [current EXCEPT ![s] = IF resp.rt THEN 1 ELSE 0]
  /\ UNCHANGED <<clock, lock, revoked, callVars, historyVars>>

\* SessionManager.Delete, called by the logout handler after Peek.
Logout(s) ==
  /\ Exists(s) /\ Unlocked(s)
  /\ row' = [row EXCEPT ![s] = NoRow]
  /\ UNCHANGED <<clock, lock, born, issuerVars, callVars, historyVars>>


\* Mutant: the boundary instant is left out.
CleanupExpired_Strict(s) ==
  /\ Exists(s) /\ Unlocked(s)
  /\ row[s].expiresAt < clock
  /\ row' = [row EXCEPT ![s] = NoRow]
  /\ UNCHANGED <<clock, lock, born, issuerVars, callVars, historyVars>>

\* One row removed by CleanupExpired on a tick of RunSessionCleanup.
CleanupExpired(s) ==
  /\ Exists(s) /\ Unlocked(s)
  /\ row[s].expiresAt <= clock
  /\ row' = [row EXCEPT ![s] = NoRow]
  /\ UNCHANGED <<clock, lock, born, issuerVars, callVars, historyVars>>

-----------------------------------------------------------------------------
(* Resolve: the read, and the path on which no refresh is needed. *)

Resolve(r) ==
  /\ pc[r] = "idle"
  /\ born[target[r]] # 0
  /\ now' = [now EXCEPT ![r] = clock]
  /\ began' = [began EXCEPT ![r] =
                 [gone |-> ~Exists(target[r]), revoked |-> revoked[target[r]],
                  granted |-> GrantPending(target[r])]]
  /\ Goto(r, "get")
  /\ UNCHANGED <<clock, storeVars, issuerVars, target, snap, answer, historyVars>>

\* An ID that is malformed or names no session.
ResolveUnknown(r) ==
  /\ pc[r] = "idle"
  /\ Goto(r, "notFound")
  /\ UNCHANGED <<clock, storeVars, issuerVars, target, now, snap, answer, began, historyVars>>


\* Mutant: a session is revalidated on its first use only.
Load_VerifyOnce(r) ==
  /\ pc[r] = "get"
  /\ Exists(target[r])
  /\ LET s == row[target[r]] IN
       /\ snap' = [snap EXCEPT ![r] = s]
       /\ Goto(r, CASE IsExpired(s, now[r]) -> "drop"
                    [] ~IsExpired(s, now[r]) /\ now[r] < s.tokens.atExp ->
                         IF HasVerifier /\ s.lastSeen = 0 THEN "verify" ELSE "touch"
                    [] OTHER -> "lock")
  /\ UNCHANGED <<clock, storeVars, issuerVars, target, now, answer, began, historyVars>>

\* store.Get, and what the copy it returns decides.
Load(r) ==
  /\ pc[r] = "get"
  /\ Exists(target[r])
  /\ LET s == row[target[r]] IN
       /\ snap' = [snap EXCEPT ![r] = s]
       /\ Goto(r, CASE IsExpired(s, now[r]) -> "drop"
                    [] ~IsExpired(s, now[r]) /\ now[r] < s.tokens.atExp ->
                         IF HasVerifier THEN "verify" ELSE "touch"
                    [] OTHER -> "lock")
  /\ UNCHANGED <<clock, storeVars, issuerVars, target, now, answer, began, historyVars>>

\* store.Get fails, or finds nothing.
LoadFails(r) ==
  /\ pc[r] = "get"
  /\ Goto(r, "notFound")
  /\ UNCHANGED <<clock, storeVars, issuerVars, target, now, snap, answer, began, historyVars>>

\* The verifier only accepts a token that the issuer calls active.
VerifyAccepts(r) ==
  /\ pc[r] = "verify"
  /\ ~revoked[target[r]]
  /\ clock < snap[r].tokens.atExp
  /\ Goto(r, "touch")
  /\ UNCHANGED <<clock, storeVars, issuerVars, target, now, snap, answer, began, historyVars>>

\* The token is inactive, has expired since, or the call failed.
VerifyRejects(r) ==
  /\ pc[r] = "verify"
  /\ Goto(r, "drop")
  /\ UNCHANGED <<clock, storeVars, issuerVars, target, now, snap, answer, began, historyVars>>

\* store.Touch with the time Resolve began; it writes only LastSeenAt.
Touch(r) ==
  /\ pc[r] = "touch"
  /\ Unlocked(target[r])
  /\ row' = IF Exists(target[r])
            THEN [row EXCEPT ![target[r]] = Seen(@, now[r])] ELSE row
  /\ snap' = [snap EXCEPT ![r] = Seen(@, now[r])]
  /\ Goto(r, "ok")
  /\ UNCHANGED <<clock, lock, born, issuerVars, target, now, answer, began, historyVars>>

TouchFails(r) ==
  /\ pc[r] = "touch"
  /\ snap' = [snap EXCEPT ![r] = Seen(@, now[r])]
  /\ Goto(r, "ok")
  /\ UNCHANGED <<clock, storeVars, issuerVars, target, now, answer, began, historyVars>>

-----------------------------------------------------------------------------
(* refresh: inside store.WithLock. *)


\* Mutant: any change of the row is taken for a refresh.
AdoptRefresh_AnyChange(r) ==
  /\ pc[r] = "lock"
  /\ Unlocked(target[r]) /\ Exists(target[r])
  /\ row[target[r]] # snap[r]
  /\ snap' = [snap EXCEPT ![r] = row[target[r]]]
  /\ Goto(r, "ok")
  /\ UNCHANGED <<clock, storeVars, issuerVars, target, now, answer, began, historyVars>>

\* Another call refreshed the row while this one waited: return that row.
AdoptRefresh(r) ==
  /\ pc[r] = "lock"
  /\ Unlocked(target[r]) /\ Exists(target[r])
  /\ now[r] < row[target[r]].tokens.atExp
  /\ snap' = [snap EXCEPT ![r] = row[target[r]]]
  /\ Goto(r, "ok")
  /\ UNCHANGED <<clock, storeVars, issuerVars, target, now, answer, began, historyVars>>


\* Mutant: the row is locked but the copy read before that is used.
BeginGrant_StaleCopy(r) ==
  /\ pc[r] = "lock"
  /\ Unlocked(target[r]) /\ Exists(target[r])
  /\ snap[r].tokens.rt # 0
  /\ lock' = [lock EXCEPT ![target[r]] = r]
  /\ Goto(r, "grant")
  /\ UNCHANGED <<clock, row, born, issuerVars, target, now, snap, answer, began, historyVars>>

\* The locked row still needs a refresh: keep the lock and send the grant.
BeginGrant(r) ==
  /\ pc[r] = "lock"
  /\ Unlocked(target[r]) /\ Exists(target[r])
  /\ LET s == row[target[r]] IN
       /\ now[r] >= s.tokens.atExp
       /\ ~IsExpired(s, now[r])
       /\ s.tokens.rt # 0
       /\ snap' = [snap EXCEPT ![r] = s]
  /\ lock' = [lock EXCEPT ![target[r]] = r]
  /\ Goto(r, "grant")
  /\ UNCHANGED <<clock, row, born, issuerVars, target, now, answer, began, historyVars>>

\* The locked row is gone, expired, or cannot be refreshed.
LockedUnusable(r) ==
  /\ pc[r] = "lock"
  /\ Unlocked(target[r])
  /\ Exists(target[r]) =>
       LET s == row[target[r]] IN
         now[r] >= s.tokens.atExp /\ (IsExpired(s, now[r]) \/ s.tokens.rt = 0)
  /\ Goto(r, "drop")
  /\ UNCHANGED <<clock, storeVars, issuerVars, target, now, snap, answer, began, historyVars>>

\* The unit of work could not be started: reported as not found, no delete.
LockFails(r) ==
  /\ pc[r] = "lock"
  /\ Goto(r, "notFound")
  /\ UNCHANGED <<clock, storeVars, issuerVars, target, now, snap, answer, began, historyVars>>

\* The refresh token that flow.Refresh presents: the locked row's.
Presented(r) == snap[r].tokens.rt


\* Mutant: the row lock is not held while the answer is awaited.
IssuerGrants_Unlocked(r, resp) ==
  /\ pc[r] = "grant"
  /\ ~revoked[target[r]]
  /\ Presented(r) = current[target[r]]
  /\ current' = [current EXCEPT ![target[r]] = IF resp.rt THEN @ + 1 ELSE @]
  /\ answer' = [answer EXCEPT ![r] = resp]
  /\ Unlock(r)
  /\ Goto(r, "answer")
  /\ UNCHANGED <<clock, row, born, revoked, target, now, snap, began, historyVars>>

\* The issuer honours the grant, rotating the refresh token if it sends one.
IssuerGrants(r, resp) ==
  /\ pc[r] = "grant"
  /\ ~revoked[target[r]]
  /\ Presented(r) = current[target[r]]
  /\ current' = [current EXCEPT ![target[r]] = IF resp.rt THEN @ + 1 ELSE @]
  /\ answer' = [answer EXCEPT ![r] = resp]
  /\ Goto(r, "answer")
  /\ UNCHANGED <<clock, storeVars, revoked, target, now, snap, began, historyVars>>


\* Mutant: a rejected refresh leaves the unit of work open.
RefreshRejected_KeepsLock(r) ==
  /\ pc[r] = "grant"
  /\ Goto(r, "drop")
  /\ UNCHANGED <<clock, storeVars, issuerVars, target, now, snap, answer, began, historyVars>>

\* The issuer refuses, or the call fails before it reaches the issuer.  An
\* issuer that sees a spent token may end the whole session.
RefreshRejected(r) ==
  /\ pc[r] = "grant"
  /\ LET spent == Presented(r) # current[target[r]] IN
       /\ replayed' = IF spent THEN replayed \union {target[r]} ELSE replayed
       /\ \/ revoked' = revoked
          \/ spent /\ revoked' = [revoked EXCEPT ![target[r]] = TRUE]
  /\ Unlock(r)
  /\ Goto(r, "drop")
  /\ UNCHANGED <<clock, row, born, current, target, now, snap, answer, began, lost>>

\* A rotated token that will never be stored is lost to the session.
LoseAnswer(r) ==
  lost' = IF answer[r].rt THEN lost \union {target[r]} ELSE lost

\* The grant was made but flow.Refresh returns an error.
AnswerLost(r) ==
  /\ pc[r] = "answer"
  /\ LoseAnswer(r)
  /\ Unlock(r)
  /\ Goto(r, "drop")
  /\ UNCHANGED <<clock, row, born, issuerVars, target, now, snap, answer, began, replayed>>

\* The answer arrives: the locked row is renewed, with expiries from time.Now().
Renew(r) ==
  /\ pc[r] = "answer"
  /\ LET s == snap[r]
         tokens == TokenSetFrom(answer[r], current[target[r]], s.tokens, clock) IN
       snap' = [snap EXCEPT ![r] =
                  [tokens |-> tokens, createdAt |-> s.createdAt, lastSeen |-> now[r],
                   expiresAt |-> ComputeExpiresAt(tokens, s.createdAt)]]
  /\ Goto(r, "persist")
  /\ UNCHANGED <<clock, storeVars, issuerVars, target, now, answer, began, historyVars>>

\* WithLock persists the renewed row and releases the lock.
Persist(r) ==
  /\ pc[r] = "persist"
  /\ row' = [row EXCEPT ![target[r]] = snap[r]]
  /\ Unlock(r)
  /\ Goto(r, "ok")
  /\ UNCHANGED <<clock, born, issuerVars, target, now, snap, answer, began, historyVars>>

\* WithLock fails to persist: reported as not found, no delete.
PersistFails(r) ==
  /\ pc[r] = "persist"
  /\ LoseAnswer(r)
  /\ Unlock(r)
  /\ Goto(r, "notFound")
  /\ UNCHANGED <<clock, row, born, issuerVars, target, now, snap, answer, began, replayed>>

-----------------------------------------------------------------------------
(* The best-effort store.Delete of a failed call, outside the lock. *)

Drop(r) ==
  /\ pc[r] = "drop"
  /\ Unlocked(target[r])
  /\ row' = [row EXCEPT ![target[r]] = NoRow]
  /\ Goto(r, "notFound")
  /\ UNCHANGED <<clock, lock, born, issuerVars, target, now, snap, answer, began, historyVars>>

DropFails(r) ==
  /\ pc[r] = "drop"
  /\ Goto(r, "notFound")
  /\ UNCHANGED <<clock, storeVars, issuerVars, target, now, snap, answer, began, historyVars>>

\* The process dies: the store abandons the unit of work it held.
Crash(r) ==
  /\ pc[r] \in Working
  /\ IF pc[r] \in Locking THEN Unlock(r) ELSE lock' = lock
  /\ IF pc[r] \in Granted THEN LoseAnswer(r) ELSE lost' = lost
  /\ Goto(r, "crashed")
  /\ UNCHANGED <<clock, row, born, issuerVars, target, now, snap, answer, began, replayed>>

-----------------------------------------------------------------------------
(* The surroundings. *)

Revoke(s) ==
  /\ born[s] # 0 /\ ~revoked[s]
  /\ revoked' = [revoked EXCEPT ![s] = TRUE]
  /\ UNCHANGED <<clock, storeVars, current, callVars, historyVars>>

Tick ==
  /\ clock < MaxTime
  /\ clock' = clock + 1
  /\ UNCHANGED <<storeVars, issuerVars, callVars, historyVars>>

\* Every step of a call that its goroutine, the store or the issuer takes
\* on its behalf, crashes excepted.
CallStep(r) ==
  \/ Load(r) \/ LoadFails(r)
  \/ VerifyAccepts(r) \/ VerifyRejects(r)
  \/ Touch(r) \/ TouchFails(r)
  \/ AdoptRefresh(r) \/ BeginGrant(r) \/ LockedUnusable(r) \/ LockFails(r)
  \/ (\E resp \in Response : IssuerGrants(r, resp))
  \/ RefreshRejected(r) \/ AnswerLost(r)
  \/ Renew(r) \/ Persist(r) \/ PersistFails(r)
  \/ Drop(r) \/ DropFails(r)

Next ==
  \/ \E s \in Sessions, resp \in Response : Create(s, resp)
  \/ \E s \in Sessions : Logout(s) \/ CleanupExpired(s) \/ Revoke(s)
  \/ \E r \in Requests : Resolve(r) \/ ResolveUnknown(r) \/ CallStep(r) \/ Crash(r)
  \/ Tick

Spec == Init /\ [][Next]_vars

(* The steps a call takes without any of its best-effort operations failing *)
(* and without its wait for the lock being cut short.                       *)
ServedStep(r) ==
  \/ Load(r) \/ LoadFails(r)
  \/ VerifyAccepts(r) \/ VerifyRejects(r)
  \/ Touch(r)
  \/ AdoptRefresh(r) \/ BeginGrant(r) \/ LockedUnusable(r)
  \/ (\E resp \in Response : IssuerGrants(r, resp))
  \/ RefreshRejected(r) \/ AnswerLost(r)
  \/ Renew(r) \/ Persist(r) \/ PersistFails(r)
  \/ Drop(r)

\* Goroutines are scheduled, HTTP calls and statements return, the clock
\* moves, and the cleanup job keeps running.
Fairness ==
  /\ WF_vars(Tick)
  /\ \A r \in Requests : WF_vars(ServedStep(r))
  /\ \A s \in Sessions : WF_vars(CleanupExpired(s))

FairSpec == Spec /\ Fairness

-----------------------------------------------------------------------------
(* Properties. *)

\* Every variable has its type, and a stored session never carries a zero
\* (hence "unset") creation time, access token expiry or ceiling.
TypeOK ==
  /\ clock \in Nat \ {0}
  /\ row \in [Sessions -> Session \union {NoRow}]
  /\ lock \in [Sessions -> Requests \union {NoRequest}]
  /\ born \in [Sessions -> Nat]
  /\ current \in [Sessions -> Nat]
  /\ revoked \in [Sessions -> BOOLEAN]
  /\ pc \in [Requests -> {"idle"} \union Working \union Ended]
  /\ target \in [Requests -> Sessions]
  /\ now \in [Requests -> Nat]
  /\ snap \in [Requests -> Session]
  /\ answer \in [Requests -> [atTTL : Nat, rt : BOOLEAN, rtTTL : Nat]]
  /\ began \in [Requests -> [gone : BOOLEAN, revoked : BOOLEAN, granted : BOOLEAN]]
  /\ lost \subseteq Sessions /\ replayed \subseteq Sessions
  /\ \A s \in Sessions : Exists(s) =>
       row[s].createdAt # 0 /\ row[s].tokens.atExp # 0 /\ row[s].expiresAt # 0

\* A session that was deleted (by logout, cleanup or a failed call) never
\* comes back, whatever refresh of it was under way (session_manager.go:208-245).
NoResurrection ==
  [][\A s \in Sessions : born[s] # 0 /\ ~Exists(s) => ~Exists(s)']_vars

\* A Resolve call that begins once the session is deleted does not succeed.
LogoutIsFinal ==
  \A r \in Requests : began[r].gone => pc[r] # "ok"

\* A spent refresh token is presented to the issuer again only for a session
\* whose rotated token was lost on the way to the store: concurrent calls do
\* not race the issuer with the same token (session_manager.go:198-204).
SpentTokenOnlyAfterLoss == replayed \subseteq lost

\* The session a Resolve call returns was usable, and its access token
\* unexpired, when the call began: also when the call waited for the lock and
\* adopted another call's refresh without checking the ceiling again
\* (session_manager.go:209-214).  The ceiling is excepted for a call that began
\* while a grant was on its way to the store: the renewed ceiling may have been
\* computed before the call began, and have passed.
ReturnedSessionUsable ==
  \A r \in Requests : pc[r] = "ok" =>
    /\ now[r] < snap[r].tokens.atExp
    /\ began[r].granted \/ now[r] < snap[r].expiresAt

\* No refresh, however often and with whatever lifetimes the issuer reports,
\* lets a call begun at or after CreatedAt + AbsoluteTimeout succeed.
AbsoluteTimeoutEnforced ==
  AbsoluteTimeout > 0 =>
    \A r \in Requests : pc[r] = "ok" => now[r] < born[target[r]] + AbsoluteTimeout

\* With a verifier, a call that begins after the issuer revoked the session,
\* and while no grant made before that is on its way to the store, fails.
RevocationBites ==
  HasVerifier =>
    \A r \in Requests : began[r].revoked /\ ~began[r].granted => pc[r] # "ok"

\* Every Resolve call returns (or its process dies): no path leaves the row
\* locked and nobody waits for ever.
ResolveReturns ==
  \A r \in Requests : pc[r] \in Working ~> pc[r] \in Ended

\* A row at or past its ceiling does not stay: it is removed, or a refresh
\* that was already under way moves the ceiling.
ExpiredRowsGo ==
  \A s \in Sessions :
    (Exists(s) /\ row[s].expiresAt <= clock) ~> (~Exists(s) \/ clock < row[s].expiresAt)
=============================================================================
