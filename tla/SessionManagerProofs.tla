------------------------- MODULE SessionManagerProofs -------------------------
(***************************************************************************)
(* Machine-checked proofs about SessionManager, for any number of sessions *)
(* and concurrent calls and any timeouts and token lifetimes.              *)
(***************************************************************************)
EXTENDS SessionManager, TLAPS

\* What TokenSetFrom and ComputeExpiresAt return.
LEMMA TokenSetFromType ==
  ASSUME NEW resp \in [atTTL : Nat, rt : BOOLEAN, rtTTL : Nat], NEW rt \in Nat,
         NEW previous \in TokenSet, NEW t \in Nat
  PROVE  /\ TokenSetFrom(resp, rt, previous, t) \in TokenSet
         /\ TokenSetFrom(resp, rt, previous, t).atExp > t
BY TTLAssumption DEF TokenSetFrom, TokenSet

\* What the issuer may send is well formed.
LEMMA ResponseType == Response \subseteq [atTTL : Nat, rt : BOOLEAN, rtTTL : Nat]
BY TTLAssumption, IssuerAssumption DEF Response

\* computeExpiresAt returns a time, and never one past the absolute timeout.
LEMMA ComputeExpiresAtType ==
  ASSUME NEW tokens \in TokenSet, NEW c \in Nat, tokens.atExp # 0, c # 0
  PROVE  /\ ComputeExpiresAt(tokens, c) \in Nat \ {0}
         /\ AbsoluteTimeout > 0 => ComputeExpiresAt(tokens, c) <= c + AbsoluteTimeout
BY TTLAssumption, TimeoutAssumption
   DEF ComputeExpiresAt, IssuerCeiling, Earlier, TokenSet

\* store.Touch changes LastSeenAt and nothing else.
LEMMA SeenType ==
  ASSUME NEW s \in Session, NEW t \in Nat
  PROVE  /\ Seen(s, t) \in Session
         /\ Seen(s, t).tokens = s.tokens
         /\ Seen(s, t).createdAt = s.createdAt
         /\ Seen(s, t).expiresAt = s.expiresAt
         /\ Seen(s, t).lastSeen = t
BY DEF Seen, Session

\* A renewed copy of row s, ready to be stored.
Renewed(copy, s) ==
  /\ copy.createdAt = row[s].createdAt
  /\ copy.tokens.atExp # 0 /\ copy.expiresAt # 0
  /\ copy.expiresAt = ComputeExpiresAt(copy.tokens, copy.createdAt)

\* The holder of a row's lock works on an exact copy of that row, until it
\* has renewed that copy.
LockInv ==
  \A r \in Requests : pc[r] \in Locking =>
    /\ lock[target[r]] = r
    /\ Exists(target[r])
    /\ pc[r] # "persist" => snap[r] = row[target[r]]
    /\ pc[r] = "persist" => Renewed(snap[r], target[r])

\* A row's ceiling is the one formula applied to what the row holds.
RowInv ==
  \A s \in Sessions : Exists(s) =>
    /\ row[s].createdAt = born[s]
    /\ row[s].expiresAt = ComputeExpiresAt(row[s].tokens, row[s].createdAt)

\* The type invariant is inductive.
LEMMA TypeInit == Init => TypeOK
BY DEF Init, TypeOK, Exists, EmptySession, EmptyTokens, NoAnswer, Session, TokenSet,
       Working, Ended

\* What the holder of a lock makes of its copy when the answer arrives.
LEMMA RenewedCopy ==
  ASSUME TypeOK, LockInv, NEW r \in Requests, Renew(r)
  PROVE  /\ snap'[r] \in Session /\ Renewed(snap'[r], target[r])
         /\ snap'[r].tokens = TokenSetFrom(answer[r], current[target[r]], snap[r].tokens, clock)
         /\ snap'[r].createdAt = snap[r].createdAt /\ clock < snap'[r].tokens.atExp
<1> DEFINE tokens == TokenSetFrom(answer[r], current[target[r]], snap[r].tokens, clock)
           ends == ComputeExpiresAt(tokens, snap[r].createdAt)
<1>1. /\ target[r] \in Sessions /\ current[target[r]] \in Nat /\ clock \in Nat
      /\ snap[r].tokens \in TokenSet /\ snap[r].createdAt \in Nat /\ now[r] \in Nat
      /\ answer[r] \in [atTTL : Nat, rt : BOOLEAN, rtTTL : Nat]
  BY DEF TypeOK, Session
<1>2. snap[r].createdAt # 0 /\ snap[r].createdAt = row[target[r]].createdAt
  <2>1. Exists(target[r]) /\ snap[r] = row[target[r]]
    BY DEF LockInv, Renew, Locking
  <2> QED BY <1>1, <2>1 DEF TypeOK
<1>3. tokens \in TokenSet /\ tokens.atExp > clock
  BY <1>1, TokenSetFromType
<1>4. tokens.atExp # 0
  BY <1>1, <1>3 DEF TokenSet
<1>5. ends \in Nat \ {0}
  BY <1>1, <1>2, <1>3, <1>4, ComputeExpiresAtType
<1>6. snap'[r] = [tokens |-> tokens, createdAt |-> snap[r].createdAt, lastSeen |-> now[r],
                  expiresAt |-> ends]
  BY DEF Renew, TypeOK
<1> HIDE DEF tokens, ends
<1>7. /\ snap'[r] \in Session /\ snap'[r].tokens = tokens /\ snap'[r].expiresAt = ends
      /\ snap'[r].createdAt = snap[r].createdAt
  BY <1>1, <1>3, <1>5, <1>6 DEF Session
<1>8. ends = ComputeExpiresAt(snap'[r].tokens, snap'[r].createdAt)
  BY <1>7 DEF ends
<1> QED BY <1>1, <1>2, <1>3, <1>4, <1>5, <1>7, <1>8 DEF Renewed, TokenSet, tokens

\* Every step preserves the type invariant.
LEMMA TypeStep ==
  ASSUME TypeOK, LockInv, [Next]_vars
  PROVE  TypeOK'
<1> USE DEF TypeOK
<1> USE DEF Exists, Goto, Unlock, storeVars, issuerVars, callVars, historyVars
<1>1. ASSUME NEW s \in Sessions, NEW resp \in Response, Create(s, resp)
      PROVE  TypeOK'
  <2> DEFINE tokens == TokenSetFrom(resp, 1, EmptyTokens, clock)
  <2>1. tokens \in TokenSet /\ tokens.atExp > clock
    BY ResponseType, TokenSetFromType DEF EmptyTokens, TokenSet
  <2>2. tokens.atExp # 0
    BY <2>1 DEF TokenSet
  <2>3. ComputeExpiresAt(tokens, clock) \in Nat \ {0}
    BY <2>1, <2>2, ComputeExpiresAtType
  <2> DEFINE new == [tokens |-> tokens, createdAt |-> clock, lastSeen |-> 0,
                     expiresAt |-> ComputeExpiresAt(tokens, clock)]
  <2>4. new \in Session /\ new.createdAt # 0 /\ new.tokens.atExp # 0 /\ new.expiresAt # 0
    BY <2>1, <2>2, <2>3 DEF Session
  <2>5. row' = [row EXCEPT ![s] = new]
    BY <1>1 DEF Create
  <2> HIDE DEF new
  <2> QED BY <1>1, <2>4, <2>5 DEF Create
<1>2. ASSUME NEW s \in Sessions, Logout(s) \/ CleanupExpired(s) \/ Revoke(s)
      PROVE  TypeOK'
  BY <1>2 DEF Logout, CleanupExpired, Revoke
<1>3. ASSUME NEW r \in Requests, Resolve(r) \/ ResolveUnknown(r)
      PROVE  TypeOK'
  <2> DEFINE b == [gone |-> ~Exists(target[r]), revoked |-> revoked[target[r]],
                   granted |-> GrantPending(target[r])]
  <2>1. b \in [gone : BOOLEAN, revoked : BOOLEAN, granted : BOOLEAN]
    BY Zenon DEF GrantPending
  <2>2. began' = began \/ began' = [began EXCEPT ![r] = b]
    BY <1>3 DEF Resolve, ResolveUnknown
  <2> HIDE DEF b
  <2>3. began' \in [Requests -> [gone : BOOLEAN, revoked : BOOLEAN, granted : BOOLEAN]]
    BY <2>1, <2>2
  <2>4. /\ pc' = [pc EXCEPT ![r] = "get"] \/ pc' = [pc EXCEPT ![r] = "notFound"]
        /\ now' = [now EXCEPT ![r] = clock] \/ now' = now
        /\ UNCHANGED <<clock, storeVars, issuerVars, target, snap, answer, historyVars>>
    BY <1>3, Zenon DEF Resolve, ResolveUnknown
  <2>5. pc' \in [Requests -> {"idle"} \union Working \union Ended]
    BY <2>4 DEF Working, Ended
  <2>6. now' \in [Requests -> Nat]
    BY <2>4
  <2>7. \A s \in Sessions : Exists(s)' =>
          row'[s].createdAt # 0 /\ row'[s].tokens.atExp # 0 /\ row'[s].expiresAt # 0
    BY <2>4
  <2> QED BY <2>3, <2>4, <2>5, <2>6, <2>7
<1>4. ASSUME NEW r \in Requests, Load(r) \/ LoadFails(r)
      PROVE  TypeOK'
  BY <1>4 DEF Load, LoadFails, Working, Ended
<1>5. ASSUME NEW r \in Requests, VerifyAccepts(r) \/ VerifyRejects(r)
      PROVE  TypeOK'
  BY <1>5 DEF VerifyAccepts, VerifyRejects, Working, Ended
<1>6. ASSUME NEW r \in Requests, Touch(r) \/ TouchFails(r)
      PROVE  TypeOK'
  <2>1. target[r] \in Sessions /\ now[r] \in Nat /\ snap[r] \in Session
    OBVIOUS
  <2>2. Seen(snap[r], now[r]) \in Session
    BY <2>1, SeenType
  <2>3. snap' \in [Requests -> Session]
    BY <1>6, <2>2 DEF Touch, TouchFails
  <2>4. /\ row' \in [Sessions -> Session \union {NoRow}]
        /\ \A s \in Sessions : Exists(s)' =>
          row'[s].createdAt # 0 /\ row'[s].tokens.atExp # 0 /\ row'[s].expiresAt # 0
    <3>1. CASE row' = row
      BY <3>1
    <3>2. CASE /\ Exists(target[r])
               /\ row' = [row EXCEPT ![target[r]] = Seen(@, now[r])]
      <4>1. row[target[r]] \in Session
        BY <2>1, <3>2
      <4> DEFINE seen == Seen(row[target[r]], now[r])
      <4>2. row' = [row EXCEPT ![target[r]] = seen]
        BY <2>1, <3>2
      <4>3. /\ seen \in Session /\ seen.tokens = row[target[r]].tokens
            /\ seen.createdAt = row[target[r]].createdAt
            /\ seen.expiresAt = row[target[r]].expiresAt
        BY <2>1, <4>1, SeenType
      <4> HIDE DEF seen
      <4>4. seen.createdAt # 0 /\ seen.tokens.atExp # 0 /\ seen.expiresAt # 0
        BY <2>1, <3>2, <4>3
      <4> QED BY <2>1, <4>2, <4>3, <4>4
    <3> QED BY <1>6, <3>1, <3>2 DEF Touch, TouchFails
  <2> QED BY <1>6, <2>3, <2>4 DEF Touch, TouchFails, Working, Ended
<1>7. ASSUME NEW r \in Requests, AdoptRefresh(r) \/ LockedUnusable(r) \/ LockFails(r)
      PROVE  TypeOK'
  BY <1>7 DEF AdoptRefresh, LockedUnusable, LockFails, Working, Ended
<1>8. ASSUME NEW r \in Requests, BeginGrant(r)
      PROVE  TypeOK'
  BY <1>8 DEF BeginGrant, Working, Ended
<1>9. ASSUME NEW r \in Requests, NEW resp \in Response, IssuerGrants(r, resp)
      PROVE  TypeOK'
  <2>1. resp \in [atTTL : Nat, rt : BOOLEAN, rtTTL : Nat]
    BY ResponseType
  <2>2. current' \in [Sessions -> Nat]
    BY <1>9 DEF IssuerGrants
  <2> QED BY <1>9, <2>1, <2>2 DEF IssuerGrants, Working, Ended
<1>10. ASSUME NEW r \in Requests, RefreshRejected(r)
       PROVE  TypeOK'
  <2>1. target[r] \in Sessions
    OBVIOUS
  <2>2. replayed' \subseteq Sessions
    BY <1>10, <2>1 DEF RefreshRejected
  <2>3. revoked' \in [Sessions -> BOOLEAN]
    BY <1>10, <2>1 DEF RefreshRejected
  <2> QED BY <1>10, <2>2, <2>3 DEF RefreshRejected, Working, Ended
<1>11. ASSUME NEW r \in Requests, AnswerLost(r) \/ PersistFails(r) \/ Crash(r)
       PROVE  TypeOK'
  <2>1. target[r] \in Sessions
    OBVIOUS
  <2>2. lost' \subseteq Sessions
    BY <1>11, <2>1 DEF AnswerLost, PersistFails, Crash, LoseAnswer
  <2>3. lock' \in [Sessions -> Requests \union {NoRequest}]
    BY <1>11, <2>1 DEF AnswerLost, PersistFails, Crash
  <2> QED BY <1>11, <2>2, <2>3 DEF AnswerLost, PersistFails, Crash, Working, Ended
<1>12. ASSUME NEW r \in Requests, Renew(r)
       PROVE  TypeOK'
  <2> DEFINE copy == snap'[r]
  <2>1. copy \in Session
    BY <1>12, RenewedCopy
  <2>2. snap' = [snap EXCEPT ![r] = copy]
    BY <1>12 DEF Renew
  <2> HIDE DEF copy
  <2> QED BY <1>12, <2>1, <2>2 DEF Renew, Working, Ended
<1>13. ASSUME NEW r \in Requests, Persist(r)
       PROVE  TypeOK'
  <2>1. target[r] \in Sessions /\ snap[r] \in Session
    OBVIOUS
  <2>2. snap[r].createdAt # 0 /\ snap[r].tokens.atExp # 0 /\ snap[r].expiresAt # 0
    BY <1>13, <2>1 DEF Persist, LockInv, Renewed, Locking
  <2> QED BY <1>13, <2>1, <2>2 DEF Persist, Working, Ended
<1>14. ASSUME NEW r \in Requests, Drop(r) \/ DropFails(r)
       PROVE  TypeOK'
  BY <1>14 DEF Drop, DropFails, Working, Ended
<1>15. ASSUME Tick PROVE TypeOK'
  BY <1>15 DEF Tick
<1>16. ASSUME UNCHANGED vars PROVE TypeOK'
  BY <1>16 DEF vars
<1> QED
  BY <1>1, <1>2, <1>3, <1>4, <1>5, <1>6, <1>7, <1>8, <1>9, <1>10, <1>11, <1>12,
     <1>13, <1>14, <1>15, <1>16 DEF Next, CallStep

\* A lock is only released by its holder, and a locked row only changes when
\* its holder persists it.
LEMMA LockStep ==
  ASSUME TypeOK, LockInv, RowInv, [Next]_vars
  PROVE  LockInv'
<1> USE NoRequestAssumption DEF LockInv, Locking, Renewed
<1> USE DEF TypeOK, Exists, Unlocked, Goto, Unlock, storeVars, issuerVars, callVars, historyVars
<1>1. ASSUME NEW s \in Sessions, NEW resp \in Response, Create(s, resp)
      PROVE  LockInv'
  <2>1. \A q \in Requests : pc[q] \in Locking => target[q] # s
    BY <1>1 DEF Create, RowInv
  <2>2. \A q \in Requests : target[q] # s => row'[target[q]] = row[target[q]]
    BY <1>1 DEF Create
  <2> QED BY <1>1, <2>1, <2>2 DEF Create
<1>2. ASSUME NEW s \in Sessions, Logout(s) \/ CleanupExpired(s) \/ Revoke(s)
      PROVE  LockInv'
  BY <1>2 DEF Logout, CleanupExpired, Revoke
<1>3. ASSUME NEW r \in Requests, Resolve(r) \/ ResolveUnknown(r)
      PROVE  LockInv'
  BY <1>3 DEF Resolve, ResolveUnknown
<1>4. ASSUME NEW r \in Requests, Load(r) \/ LoadFails(r)
      PROVE  LockInv'
  BY <1>4 DEF Load, LoadFails
<1>5. ASSUME NEW r \in Requests, VerifyAccepts(r) \/ VerifyRejects(r)
      PROVE  LockInv'
  BY <1>5 DEF VerifyAccepts, VerifyRejects
<1>6. ASSUME NEW r \in Requests, Touch(r) \/ TouchFails(r)
      PROVE  LockInv'
  <2>1. /\ \A s \in Sessions : lock[s] # NoRequest => row'[s] = row[s]
        /\ pc[r] = "touch" /\ pc' = [pc EXCEPT ![r] = "ok"]
        /\ \A q \in Requests : q # r => snap'[q] = snap[q]
        /\ UNCHANGED <<lock, target>>
    BY <1>6 DEF Touch, TouchFails
  <2> QED BY <2>1
<1>7. ASSUME NEW r \in Requests, AdoptRefresh(r) \/ LockedUnusable(r) \/ LockFails(r)
      PROVE  LockInv'
  <2>1. /\ pc[r] = "lock"
        /\ \/ pc' = [pc EXCEPT ![r] = "ok"]
           \/ pc' = [pc EXCEPT ![r] = "drop"]
           \/ pc' = [pc EXCEPT ![r] = "notFound"]
        /\ \A q \in Requests : q # r => snap'[q] = snap[q]
        /\ UNCHANGED <<row, lock, target>>
    BY <1>7 DEF AdoptRefresh, LockedUnusable, LockFails
  <2> QED BY <2>1
<1>8. ASSUME NEW r \in Requests, BeginGrant(r)
      PROVE  LockInv'
  BY <1>8 DEF BeginGrant
<1>9. ASSUME NEW r \in Requests, NEW resp \in Response, IssuerGrants(r, resp)
      PROVE  LockInv'
  BY <1>9 DEF IssuerGrants
<1>10. ASSUME NEW r \in Requests, RefreshRejected(r)
       PROVE  LockInv'
  BY <1>10 DEF RefreshRejected
<1>11. ASSUME NEW r \in Requests, AnswerLost(r) \/ PersistFails(r) \/ Crash(r)
       PROVE  LockInv'
  BY <1>11 DEF AnswerLost, PersistFails, Crash
<1>12. ASSUME NEW r \in Requests, Renew(r)
       PROVE  LockInv'
  <2>1. Renewed(snap'[r], target[r])
    BY <1>12, RenewedCopy
  <2>2. /\ pc[r] = "answer" /\ pc' = [pc EXCEPT ![r] = "persist"]
        /\ \A q \in Requests : q # r => snap'[q] = snap[q]
        /\ UNCHANGED <<row, lock, target>>
    BY <1>12 DEF Renew
  <2> QED BY <2>1, <2>2 DEF Renewed
<1>13. ASSUME NEW r \in Requests, Persist(r)
       PROVE  LockInv'
  BY <1>13 DEF Persist
<1>14. ASSUME NEW r \in Requests, Drop(r) \/ DropFails(r)
       PROVE  LockInv'
  BY <1>14 DEF Drop, DropFails
<1>15. ASSUME Tick PROVE LockInv'
  BY <1>15 DEF Tick
<1>16. ASSUME UNCHANGED vars PROVE LockInv'
  BY <1>16 DEF vars
<1> QED
  BY <1>1, <1>2, <1>3, <1>4, <1>5, <1>6, <1>7, <1>8, <1>9, <1>10, <1>11, <1>12,
     <1>13, <1>14, <1>15, <1>16 DEF Next, CallStep

\* The only steps that write a row of the store.
LEMMA RowFrame ==
  ASSUME [Next]_vars,
         ~ \E s \in Sessions : (\E resp \in Response : Create(s, resp))
                               \/ Logout(s) \/ CleanupExpired(s),
         ~ \E r \in Requests : Touch(r) \/ Persist(r) \/ Drop(r)
  PROVE  UNCHANGED <<row, born>>
BY DEF Next, Tick, vars, Revoke, Resolve, ResolveUnknown, CallStep, Load, LoadFails,
   VerifyAccepts, VerifyRejects, TouchFails, AdoptRefresh, BeginGrant, LockedUnusable,
   LockFails, IssuerGrants, RefreshRejected, AnswerLost, Renew, PersistFails, DropFails, Crash,
   storeVars, issuerVars, callVars, historyVars

\* Every step keeps the stored times consistent: CreatedAt is the creation
\* time, and ExpiresAt is what computeExpiresAt makes of the stored tokens.
LEMMA RowStep ==
  ASSUME TypeOK, LockInv, RowInv, [Next]_vars
  PROVE  RowInv'
<1> USE DEF TypeOK, RowInv, Exists, Goto, Unlock, storeVars, issuerVars, callVars, historyVars
<1>1. ASSUME NEW s \in Sessions, NEW resp \in Response, Create(s, resp)
      PROVE  RowInv'
  BY <1>1 DEF Create
<1>2. ASSUME NEW s \in Sessions, Logout(s) \/ CleanupExpired(s)
      PROVE  RowInv'
  BY <1>2 DEF Logout, CleanupExpired
<1>3. ASSUME UNCHANGED <<row, born>>
      PROVE  RowInv'
  BY <1>3
<1>4. ASSUME NEW r \in Requests, Touch(r)
      PROVE  RowInv'
  <2>1. target[r] \in Sessions /\ now[r] \in Nat
    OBVIOUS
  <2>2. CASE Exists(target[r])
    <3> DEFINE seen == Seen(row[target[r]], now[r])
    <3>0. row[target[r]] \in Session
      BY <2>1, <2>2
    <3>1. /\ seen.tokens = row[target[r]].tokens
          /\ seen.createdAt = row[target[r]].createdAt
          /\ seen.expiresAt = row[target[r]].expiresAt
      BY <2>1, <3>0, SeenType
    <3>2. row' = [row EXCEPT ![target[r]] = seen] /\ born' = born
      BY <1>4, <2>1, <2>2 DEF Touch
    <3> HIDE DEF seen
    <3> QED BY <2>1, <2>2, <3>1, <3>2
  <2>3. CASE ~Exists(target[r])
    BY <1>4, <2>3 DEF Touch
  <2> QED BY <2>2, <2>3
<1>5. ASSUME NEW r \in Requests, Persist(r)
      PROVE  RowInv'
  BY <1>5 DEF Persist, LockInv, Renewed, Locking
<1>6. ASSUME NEW r \in Requests, Drop(r)
      PROVE  RowInv'
  BY <1>6 DEF Drop
<1> QED
  BY <1>1, <1>2, <1>3, <1>4, <1>5, <1>6, RowFrame

\* A deleted session stays deleted.
LEMMA StaysGone ==
  ASSUME TypeOK, LockInv, [Next]_vars, NEW s \in Sessions, born[s] # 0, ~Exists(s)
  PROVE  ~Exists(s)'
<1> USE DEF TypeOK, Exists, Goto, Unlock, storeVars, issuerVars, callVars, historyVars
<1>1. ASSUME NEW c \in Sessions, NEW resp \in Response, Create(c, resp)
      PROVE  ~Exists(s)'
  BY <1>1 DEF Create
<1>2. ASSUME NEW c \in Sessions, Logout(c) \/ CleanupExpired(c)
      PROVE  ~Exists(s)'
  BY <1>2 DEF Logout, CleanupExpired
<1>3. ASSUME NEW r \in Requests, Touch(r)
      PROVE  ~Exists(s)'
  BY <1>3 DEF Touch
<1>4. ASSUME NEW r \in Requests, Persist(r)
      PROVE  ~Exists(s)'
  BY <1>4 DEF Persist, LockInv, Locking
<1>5. ASSUME NEW r \in Requests, Drop(r)
      PROVE  ~Exists(s)'
  BY <1>5 DEF Drop
<1> QED
  BY <1>1, <1>2, <1>3, <1>4, <1>5, RowFrame

\* The inductive invariant of the store.
StoreInv == TypeOK /\ LockInv /\ RowInv

\* The store is always well typed, its locks held by at most one call working
\* on an exact or a renewed copy of the row, and its rows consistent.
THEOREM StoreCorrect == Spec => []StoreInv
<1>1. Init => StoreInv
  BY TypeInit DEF Init, StoreInv, LockInv, RowInv, Locking, Exists
<1>2. StoreInv /\ [Next]_vars => StoreInv'
  BY TypeStep, LockStep, RowStep DEF StoreInv
<1> QED BY <1>1, <1>2, PTL DEF Spec

\* Every variable keeps its type, and no stored session has an unset time.
THEOREM TypeCorrect == Spec => []TypeOK
<1>1. StoreInv => TypeOK
  BY DEF StoreInv
<1> QED BY <1>1, StoreCorrect, PTL

\* A deleted session never comes back, whatever refresh was under way.
THEOREM DeletedStaysDeleted == Spec => NoResurrection
<1>1. StoreInv /\ [Next]_vars =>
        [\A s \in Sessions : born[s] # 0 /\ ~Exists(s) => ~Exists(s)']_vars
  BY StaysGone DEF StoreInv
<1> QED BY <1>1, StoreCorrect, PTL DEF Spec, NoResurrection

-----------------------------------------------------------------------------
(* What a call knows about its session while it works. *)

\* What Resolve may rely on at each place it can be: a copy to be returned is
\* usable, a row about to be refreshed has not reached its ceiling.  A call
\* that began with a grant on its way may find the ceiling passed at the lock.
CallInv ==
  \A r \in Requests :
    /\ now[r] <= clock
    /\ pc[r] \in Working \union {"ok"} => born[target[r]] # 0
    /\ pc[r] \in {"verify", "touch", "persist", "ok"} => now[r] < snap[r].tokens.atExp
    /\ pc[r] \in {"verify", "touch", "persist"} => now[r] < snap[r].expiresAt
    /\ pc[r] = "ok" /\ ~began[r].granted => now[r] < snap[r].expiresAt
    /\ pc[r] \in (Working \ {"get", "drop"}) \union {"ok"} /\ AbsoluteTimeout > 0 =>
         now[r] < born[target[r]] + AbsoluteTimeout
    /\ pc[r] \in {"grant", "answer"} \/ (pc[r] = "lock" /\ ~began[r].granted) =>
         ~Exists(target[r]) \/ now[r] < row[target[r]].expiresAt
    /\ pc[r] \in {"grant", "answer"} => snap[r].tokens.rt # 0

\* Renewing a row does not shorten it for the calls that began before the
\* grant: they find the ceiling ahead of them in the renewed copy too.
RenewalInv ==
  \A r, q \in Requests :
    pc[r] = "persist" /\ target[q] = target[r] /\ ~began[q].granted
    /\ now[q] < row[target[r]].expiresAt => now[q] < snap[r].expiresAt

\* A refresh leaves the session usable at every instant before it at which
\* the session was usable: its new ceiling lies after that instant too.
LEMMA CeilingStays ==
  ASSUME NEW resp \in [atTTL : Nat, rt : BOOLEAN, rtTTL : Nat], NEW rt \in Nat,
         NEW previous \in TokenSet, NEW t \in Nat, NEW n \in Nat, NEW c \in Nat,
         previous.rt # 0, n <= t, n < ComputeExpiresAt(previous, c)
  PROVE  n < ComputeExpiresAt(TokenSetFrom(resp, rt, previous, t), c)
BY TTLAssumption, TimeoutAssumption
   DEF ComputeExpiresAt, IssuerCeiling, Earlier, TokenSet, TokenSetFrom

\* So does the renewed copy of a locked row, for every call under way.
LEMMA RenewedCeiling ==
  ASSUME StoreInv, CallInv, NEW r \in Requests, Renew(r), NEW q \in Requests,
         now[q] < row[target[r]].expiresAt
  PROVE  now[q] < snap'[r].expiresAt
<1>1. /\ target[r] \in Sessions /\ current[target[r]] \in Nat /\ clock \in Nat
      /\ snap[r].tokens \in TokenSet /\ snap[r].createdAt \in Nat
      /\ now[q] \in Nat /\ now[q] <= clock
      /\ answer[r] \in [atTTL : Nat, rt : BOOLEAN, rtTTL : Nat]
  BY DEF StoreInv, TypeOK, Session, CallInv
<1>2. /\ snap[r].tokens.rt # 0
      /\ row[target[r]].expiresAt = ComputeExpiresAt(snap[r].tokens, snap[r].createdAt)
  BY <1>1 DEF StoreInv, LockInv, RowInv, CallInv, Renew, Locking
<1>3. snap'[r].expiresAt = ComputeExpiresAt(
        TokenSetFrom(answer[r], current[target[r]], snap[r].tokens, clock), snap[r].createdAt)
  BY RenewedCopy DEF StoreInv, Renewed
<1> QED BY <1>1, <1>2, <1>3, CeilingStays

\* No call that begins without a grant on its way is overtaken by a ceiling
\* computed before it began.
LEMMA RenewalStep ==
  ASSUME StoreInv, CallInv, RenewalInv, [Next]_vars
  PROVE  RenewalInv'
<1> USE DEF StoreInv, TypeOK, Exists, Goto, Unlock, Unlocked,
            storeVars, issuerVars, callVars, historyVars
\* Steps after which nobody newly awaits the store, that change no ceiling of
\* a row whose holder does.
<1>1. ASSUME UNCHANGED <<target, now, began>>,
             \A r \in Requests : pc'[r] = "persist" => pc[r] = "persist" /\ snap'[r] = snap[r],
             \A r \in Requests : pc'[r] = "persist" =>
               row'[target[r]].expiresAt = row[target[r]].expiresAt
      PROVE  RenewalInv'
  BY <1>1 DEF RenewalInv
<1>2. \A r \in Requests : pc[r] = "persist" =>
        /\ lock[target[r]] = r /\ lock[target[r]] # NoRequest
        /\ Exists(target[r]) /\ born[target[r]] # 0
  BY NoRequestAssumption DEF LockInv, CallInv, Locking, Working
<1>3. ASSUME NEW s \in Sessions, NEW resp \in Response, Create(s, resp)
      PROVE  RenewalInv'
  BY <1>1, <1>2, <1>3 DEF Create
<1>4. ASSUME NEW s \in Sessions, Logout(s) \/ CleanupExpired(s) \/ Revoke(s)
      PROVE  RenewalInv'
  <2>1. /\ \A q \in Requests : pc[q] = "persist" => row'[target[q]] = row[target[q]]
        /\ UNCHANGED <<pc, target, now, began, snap>>
    BY <1>2, <1>4 DEF Logout, CleanupExpired, Revoke
  <2> QED BY <1>1, <2>1
<1>5. ASSUME NEW r \in Requests, Resolve(r)
      PROVE  RenewalInv'
  <2> DEFINE b == [gone |-> ~Exists(target[r]), revoked |-> revoked[target[r]],
                   granted |-> GrantPending(target[r])]
  <2>1. /\ began' = [began EXCEPT ![r] = b] /\ pc[r] = "idle"
        /\ now' = [now EXCEPT ![r] = clock]
        /\ UNCHANGED <<row, target, snap>> /\ pc' = [pc EXCEPT ![r] = "get"]
    BY <1>5, Zenon DEF Resolve
  <2>2. b.granted <=> GrantPending(target[r])
    OBVIOUS
  <2> HIDE DEF b
  <2>3. \A q \in Requests : pc[q] = "persist" /\ target[q] = target[r] => began'[r].granted
    BY <2>1, <2>2 DEF GrantPending, Granted
  <2> QED BY <2>1, <2>3 DEF RenewalInv
<1>6. ASSUME NEW r \in Requests, ResolveUnknown(r) \/ Load(r) \/ LoadFails(r)
             \/ VerifyAccepts(r) \/ VerifyRejects(r) \/ TouchFails(r)
      PROVE  RenewalInv'
  BY <1>1, <1>6 DEF ResolveUnknown, Load, LoadFails, VerifyAccepts, VerifyRejects, TouchFails
<1>7. ASSUME NEW r \in Requests, AdoptRefresh(r) \/ BeginGrant(r) \/ LockedUnusable(r)
             \/ LockFails(r) \/ (\E resp \in Response : IssuerGrants(r, resp))
             \/ RefreshRejected(r) \/ AnswerLost(r) \/ PersistFails(r) \/ DropFails(r)
      PROVE  RenewalInv'
  BY <1>1, <1>7 DEF AdoptRefresh, BeginGrant, LockedUnusable, LockFails, IssuerGrants,
     RefreshRejected, AnswerLost, PersistFails, DropFails
<1>8. ASSUME NEW r \in Requests, Touch(r) \/ Drop(r)
      PROVE  RenewalInv'
  <2>1. /\ lock[target[r]] = NoRequest
        /\ \A s \in Sessions : s # target[r] => row'[s] = row[s]
        /\ pc' = [pc EXCEPT ![r] = "ok"] \/ pc' = [pc EXCEPT ![r] = "notFound"]
        /\ \A q \in Requests : q # r => snap'[q] = snap[q]
        /\ UNCHANGED <<target, now, began>>
    BY <1>8 DEF Touch, Drop
  <2> QED BY <1>1, <1>2, <2>1
<1>9. ASSUME NEW r \in Requests, Renew(r)
      PROVE  RenewalInv'
  <2>1. \A q \in Requests : now[q] < row[target[r]].expiresAt => now[q] < snap'[r].expiresAt
    BY <1>9, RenewedCeiling
  <2>2. /\ pc' = [pc EXCEPT ![r] = "persist"]
        /\ \A q \in Requests : q # r => snap'[q] = snap[q]
        /\ UNCHANGED <<row, target, now, began>>
    BY <1>9 DEF Renew
  <2> QED BY <2>1, <2>2 DEF RenewalInv
<1>10. ASSUME NEW r \in Requests, Persist(r)
       PROVE  RenewalInv'
  <2>1. \A q \in Requests : pc'[q] = "persist" => pc[q] = "persist" /\ target[q] # target[r]
    BY <1>2, <1>10 DEF Persist
  <2> QED BY <1>1, <1>10, <2>1 DEF Persist
<1>11. ASSUME NEW r \in Requests, Crash(r)
       PROVE  RenewalInv'
  BY <1>1, <1>11 DEF Crash
<1>12. ASSUME Tick \/ UNCHANGED vars
       PROVE  RenewalInv'
  BY <1>1, <1>12 DEF Tick, vars
<1> QED
  BY <1>3, <1>4, <1>5, <1>6, <1>7, <1>8, <1>9, <1>10, <1>11, <1>12 DEF Next, CallStep

\* Every step keeps what each place of a Resolve call promises about the copy
\* of the session it works on.
LEMMA CallStepInv ==
  ASSUME StoreInv, CallInv, RenewalInv, [Next]_vars
  PROVE  CallInv'
<1> USE DEF StoreInv, TypeOK, CallInv, Exists, Goto, Unlock, Locking, Working,
            storeVars, issuerVars, callVars, historyVars
<1>1. ASSUME NEW s \in Sessions, NEW resp \in Response, Create(s, resp)
      PROVE  CallInv'
  <2>1. \A q \in Requests : pc[q] \in Working \union {"ok"} => target[q] # s
    BY <1>1 DEF Create
  <2>2. /\ \A q \in Requests : target[q] # s =>
             row'[target[q]] = row[target[q]] /\ born'[target[q]] = born[target[q]]
        /\ UNCHANGED <<clock, pc, target, now, snap, began>>
    BY <1>1 DEF Create
  <2> QED BY <2>1, <2>2
<1>2. ASSUME NEW s \in Sessions, Logout(s) \/ CleanupExpired(s) \/ Revoke(s)
      PROVE  CallInv'
  BY <1>2 DEF Logout, CleanupExpired, Revoke
<1>3. ASSUME NEW r \in Requests, Resolve(r) \/ ResolveUnknown(r)
      PROVE  CallInv'
  <2>1. /\ \/ pc' = [pc EXCEPT ![r] = "get"] /\ born[target[r]] # 0
           \/ pc' = [pc EXCEPT ![r] = "notFound"]
        /\ now' = [now EXCEPT ![r] = clock] \/ now' = now
        /\ pc[r] = "idle"
        /\ \A q \in Requests : q # r => began'[q] = began[q]
        /\ UNCHANGED <<clock, storeVars, target, snap>>
    BY <1>3 DEF Resolve, ResolveUnknown
  <2> QED BY <2>1
<1>4. ASSUME NEW r \in Requests, Load(r) \/ LoadFails(r)
      PROVE  CallInv'
  <2>1. CASE LoadFails(r)
    BY <2>1 DEF LoadFails
  <2>2. CASE Load(r)
    <3>1. row[target[r]] \in Session
      BY <2>2 DEF Load
    <3>2. AbsoluteTimeout > 0 => row[target[r]].expiresAt <= born[target[r]] + AbsoluteTimeout
      BY <2>2, <3>1, ComputeExpiresAtType DEF Load, RowInv, Session
    <3>3. IsExpired(row[target[r]], now[r]) \in BOOLEAN
          /\ (~IsExpired(row[target[r]], now[r]) => now[r] < row[target[r]].expiresAt)
      BY <3>1 DEF IsExpired, Session
    <3> DEFINE e == IsExpired(row[target[r]], now[r])
               f == now[r] < row[target[r]].tokens.atExp
               next == CASE e -> "drop" [] ~e /\ f -> IF HasVerifier THEN "verify" ELSE "touch"
                         [] OTHER -> "lock"
    <3>4. /\ row[target[r]].expiresAt \in Nat /\ now[r] \in Nat
          /\ row[target[r]].tokens.atExp \in Nat /\ born[target[r]] \in Nat
      BY <3>1 DEF Session, TokenSet
    <3>5. ~e /\ AbsoluteTimeout > 0 => now[r] < born[target[r]] + AbsoluteTimeout
      BY <3>2, <3>3, <3>4, TimeoutAssumption
    <3>6. /\ pc' = [pc EXCEPT ![r] = next] /\ snap' = [snap EXCEPT ![r] = row[target[r]]]
          /\ pc[r] = "get" /\ UNCHANGED <<clock, storeVars, target, now, began>>
      BY <2>2, Zenon DEF Load
    <3>7. /\ next \in {"drop", "verify", "touch", "lock"}
          /\ next # "drop" => now[r] < row[target[r]].expiresAt /\ ~e
          /\ next \in {"verify", "touch"} => now[r] < row[target[r]].tokens.atExp
      BY <3>3, <3>4
    <3> HIDE DEF e, f, next
    <3> QED BY <3>5, <3>6, <3>7
  <2> QED BY <1>4, <2>1, <2>2
<1>5. ASSUME NEW r \in Requests, VerifyAccepts(r) \/ VerifyRejects(r)
      PROVE  CallInv'
  BY <1>5 DEF VerifyAccepts, VerifyRejects
<1>6. ASSUME NEW r \in Requests, Touch(r) \/ TouchFails(r)
      PROVE  CallInv'
  <2>1. target[r] \in Sessions /\ now[r] \in Nat /\ snap[r] \in Session
    OBVIOUS
  <2>2. /\ Seen(snap[r], now[r]).tokens = snap[r].tokens
        /\ Seen(snap[r], now[r]).expiresAt = snap[r].expiresAt
    BY <2>1, SeenType
  <2>3. \A s \in Sessions : Exists(s)' => Exists(s) /\ row'[s].expiresAt = row[s].expiresAt
    <3>1. CASE row' = row
      BY <3>1
    <3>2. CASE /\ Exists(target[r])
               /\ row' = [row EXCEPT ![target[r]] = Seen(@, now[r])]
      <4>1. row[target[r]] \in Session
        BY <2>1, <3>2
      <4>2. Seen(row[target[r]], now[r]).expiresAt = row[target[r]].expiresAt
        BY <2>1, <4>1, SeenType
      <4> QED BY <2>1, <3>2, <4>2
    <3> QED BY <1>6, <3>1, <3>2 DEF Touch, TouchFails
  <2>4. /\ pc[r] = "touch" /\ pc' = [pc EXCEPT ![r] = "ok"]
        /\ snap' = [snap EXCEPT ![r] = Seen(snap[r], now[r])]
        /\ UNCHANGED <<clock, born, target, now, began>>
    BY <1>6 DEF Touch, TouchFails
  <2> QED BY <2>1, <2>2, <2>3, <2>4
<1>7. ASSUME NEW r \in Requests, AdoptRefresh(r) \/ LockedUnusable(r) \/ LockFails(r)
      PROVE  CallInv'
  <2>1. CASE AdoptRefresh(r)
    <3>1. row[target[r]] \in Session
      BY <2>1 DEF AdoptRefresh
    <3>2. AbsoluteTimeout > 0 => row[target[r]].expiresAt <= born[target[r]] + AbsoluteTimeout
      BY <2>1, <3>1, ComputeExpiresAtType DEF AdoptRefresh, RowInv, Session
    <3> QED BY <2>1, <3>1, <3>2 DEF AdoptRefresh
  <2>2. CASE LockedUnusable(r) \/ LockFails(r)
    BY <2>2 DEF LockedUnusable, LockFails
  <2> QED BY <1>7, <2>1, <2>2
<1>8. ASSUME NEW r \in Requests, BeginGrant(r)
      PROVE  CallInv'
  <2>1. /\ row[target[r]] \in Session /\ ~IsExpired(row[target[r]], now[r])
        /\ row[target[r]].tokens.rt # 0
    BY <1>8 DEF BeginGrant
  <2>2. now[r] < row[target[r]].expiresAt
    BY <2>1 DEF IsExpired, Session
  <2>3. /\ pc[r] = "lock" /\ pc' = [pc EXCEPT ![r] = "grant"]
        /\ snap' = [snap EXCEPT ![r] = row[target[r]]]
        /\ UNCHANGED <<clock, row, born, target, now, began>>
    BY <1>8 DEF BeginGrant
  <2> QED BY <2>1, <2>2, <2>3
<1>9. ASSUME NEW r \in Requests, NEW resp \in Response, IssuerGrants(r, resp)
      PROVE  CallInv'
  BY <1>9 DEF IssuerGrants
<1>10. ASSUME NEW r \in Requests, RefreshRejected(r)
       PROVE  CallInv'
  BY <1>10 DEF RefreshRejected
<1>11. ASSUME NEW r \in Requests, AnswerLost(r) \/ PersistFails(r) \/ Crash(r)
       PROVE  CallInv'
  BY <1>11 DEF AnswerLost, PersistFails, Crash
<1>12. ASSUME NEW r \in Requests, Renew(r)
       PROVE  CallInv'
  <2>1. now[r] < snap'[r].expiresAt
    BY <1>12, RenewedCeiling DEF Renew, LockInv
  <2>2. snap'[r] \in Session /\ clock < snap'[r].tokens.atExp
    BY <1>12, RenewedCopy
  <2>3. now[r] < snap'[r].tokens.atExp
    BY <2>2 DEF Session, TokenSet
  <2>4. /\ pc[r] = "answer" /\ pc' = [pc EXCEPT ![r] = "persist"]
        /\ \A q \in Requests : q # r => snap'[q] = snap[q]
        /\ UNCHANGED <<clock, row, born, target, now, began>>
    BY <1>12 DEF Renew
  <2> QED BY <2>1, <2>3, <2>4
<1>13. ASSUME NEW r \in Requests, Persist(r)
       PROVE  CallInv'
  <2>1. \A q \in Requests : pc[q] \in Locking /\ q # r => target[q] # target[r]
    BY <1>13 DEF LockInv, Persist
  <2>2. \A q \in Requests : target[q] = target[r] /\ ~began[q].granted
          /\ now[q] < row[target[r]].expiresAt => now[q] < snap[r].expiresAt
    BY <1>13 DEF RenewalInv, Persist
  <2>3. /\ pc[r] = "persist" /\ Exists(target[r])
        /\ row' = [row EXCEPT ![target[r]] = snap[r]]
        /\ pc' = [pc EXCEPT ![r] = "ok"]
        /\ UNCHANGED <<clock, born, target, now, snap, began>>
    BY <1>13 DEF Persist, LockInv
  <2> QED BY <2>1, <2>2, <2>3
<1>14. ASSUME NEW r \in Requests, Drop(r) \/ DropFails(r)
       PROVE  CallInv'
  BY <1>14 DEF Drop, DropFails
<1>15. ASSUME Tick PROVE CallInv'
  BY <1>15 DEF Tick
<1>16. ASSUME UNCHANGED vars PROVE CallInv'
  BY <1>16 DEF vars
<1> QED
  BY <1>1, <1>2, <1>3, <1>4, <1>5, <1>6, <1>7, <1>8, <1>9, <1>10, <1>11, <1>12,
     <1>13, <1>14, <1>15, <1>16 DEF Next, CallStep

\* Besides the store, every call's own copy of the session is always usable as
\* the place it has reached in Resolve requires.
THEOREM CallsCorrect == Spec => [](StoreInv /\ CallInv /\ RenewalInv)
<1>1. Init => CallInv /\ RenewalInv
  BY DEF Init, CallInv, RenewalInv, Working
<1>2. StoreInv /\ CallInv /\ RenewalInv /\ [Next]_vars => CallInv' /\ RenewalInv'
  BY CallStepInv, RenewalStep
<1> QED BY <1>1, <1>2, StoreCorrect, PTL DEF Spec

\* The session a call returns was usable when the call began, on every path.
THEOREM ReturnsUsable == Spec => []ReturnedSessionUsable
<1>1. CallInv => ReturnedSessionUsable
  BY DEF CallInv, ReturnedSessionUsable
<1> QED BY <1>1, CallsCorrect, PTL

\* The absolute timeout holds whatever lifetimes the issuer reports.
THEOREM AbsoluteTimeoutHolds == Spec => []AbsoluteTimeoutEnforced
<1>1. StoreInv /\ CallInv => AbsoluteTimeoutEnforced
  BY DEF CallInv, AbsoluteTimeoutEnforced
<1> QED BY <1>1, CallsCorrect, PTL

-----------------------------------------------------------------------------
(* Logout and revocation. *)

\* A call that began on a deleted session is reading, or has failed.
GoneInv ==
  \A r \in Requests : began[r].gone =>
    /\ born[target[r]] # 0 /\ ~Exists(target[r])
    /\ pc[r] \in {"get", "notFound", "crashed"}

\* A call that began on a deleted session never gets past its first read.
LEMMA GoneStep ==
  ASSUME StoreInv, GoneInv, [Next]_vars
  PROVE  GoneInv'
<1>1. \A s \in Sessions : born[s] # 0 => born'[s] # 0
  <2>1. ASSUME NEW c \in Sessions, NEW resp \in Response, Create(c, resp)
        PROVE  \A s \in Sessions : born[s] # 0 => born'[s] # 0
    BY <2>1 DEF Create, StoreInv, TypeOK
  <2>2. CASE UNCHANGED born
    BY <2>2
  <2>3. (\A c \in Sessions, resp \in Response : ~Create(c, resp)) => UNCHANGED born
    BY ZenonT(40) DEF Next, Tick, vars, Revoke, Logout, CleanupExpired, Resolve, ResolveUnknown,
       CallStep, Load, LoadFails, VerifyAccepts, VerifyRejects, Touch, TouchFails,
       AdoptRefresh, BeginGrant, LockedUnusable, LockFails, IssuerGrants, RefreshRejected,
       AnswerLost, Renew, Persist, PersistFails, Drop, DropFails, Crash,
       storeVars, issuerVars, callVars, historyVars
  <2> QED BY <2>1, <2>2, <2>3
<1>2. \A s \in Sessions : born[s] # 0 /\ ~Exists(s) => ~Exists(s)'
  BY StaysGone DEF StoreInv
<1>3. ASSUME NEW r \in Requests, Resolve(r)
      PROVE  GoneInv'
  <2> DEFINE b == [gone |-> ~Exists(target[r]), revoked |-> revoked[target[r]],
                   granted |-> GrantPending(target[r])]
  <2>1. b.gone <=> ~Exists(target[r])
    OBVIOUS
  <2>2. /\ began' = [began EXCEPT ![r] = b]
        /\ born[target[r]] # 0
        /\ UNCHANGED <<row, born, target>> /\ pc' = [pc EXCEPT ![r] = "get"]
    BY <1>3, Zenon DEF Resolve, Goto, storeVars
  <2> HIDE DEF b
  <2> QED BY <2>1, <2>2 DEF GoneInv, StoreInv, TypeOK, Exists
<1>4. ASSUME UNCHANGED <<began, target>>,
             \A q \in Requests : pc[q] \in {"get", "notFound", "crashed"} /\ ~Exists(target[q])
               => pc'[q] \in {"get", "notFound", "crashed"}
      PROVE  GoneInv'
  BY <1>1, <1>2, <1>4 DEF GoneInv, StoreInv, TypeOK
<1>5. ASSUME NEW s \in Sessions, NEW resp \in Response, Create(s, resp)
      PROVE  GoneInv'
  BY <1>4, <1>5 DEF Create, callVars
<1>6. ASSUME NEW s \in Sessions, Logout(s) \/ CleanupExpired(s) \/ Revoke(s)
      PROVE  GoneInv'
  BY <1>4, <1>6 DEF Logout, CleanupExpired, Revoke, callVars
<1>7. ASSUME NEW r \in Requests, ResolveUnknown(r) \/ CallStep(r) \/ Crash(r)
      PROVE  GoneInv'
  BY <1>4, <1>7
  DEF StoreInv, TypeOK, ResolveUnknown, CallStep, Load, LoadFails, VerifyAccepts, VerifyRejects,
      Touch, TouchFails, AdoptRefresh, BeginGrant, LockedUnusable, LockFails, IssuerGrants,
      RefreshRejected, AnswerLost, Renew, Persist, PersistFails, Drop, DropFails, Crash, Goto
<1>8. ASSUME Tick \/ UNCHANGED vars
      PROVE  GoneInv'
  BY <1>4, <1>8 DEF Tick, vars, callVars
<1> QED BY <1>3, <1>5, <1>6, <1>7, <1>8 DEF Next

\* A call that begins after the session was deleted does not succeed.
THEOREM LogoutHolds == Spec => []LogoutIsFinal
<1>1. Init => GoneInv
  BY DEF Init, GoneInv
<1>2. StoreInv /\ GoneInv /\ [Next]_vars => GoneInv'
  BY GoneStep
<1>3. GoneInv => LogoutIsFinal
  BY DEF GoneInv, LogoutIsFinal
<1> QED BY <1>1, <1>2, <1>3, StoreCorrect, PTL DEF Spec

\* A call that began on a revoked session with no grant on its way.
\* The calls that must fail: begun after the revocation, no grant under way.
Barred(r) == began[r].revoked /\ ~began[r].granted

\* Such a call meets no grant, no verified copy and no refreshed row.
RevocationInv ==
  \A r \in Requests : Barred(r) =>
    /\ revoked[target[r]] /\ ~GrantPending(target[r])
    /\ pc[r] \notin {"touch", "ok", "answer", "persist"}
    /\ pc[r] = "lock" /\ Exists(target[r]) => row[target[r]].tokens.atExp <= now[r]

\* A call that began after the revocation, no grant pending, never reaches a
\* place from which it could succeed, and no refreshed row appears for it.
LEMMA RevocationStep ==
  ASSUME StoreInv, CallInv, RevocationInv, HasVerifier, [Next]_vars
  PROVE  RevocationInv'
<1> USE DEF StoreInv, TypeOK, Exists, Goto, Unlock, storeVars, issuerVars, callVars, historyVars
<1>1. ASSUME NEW s \in Sessions, NEW resp \in Response, Create(s, resp)
      PROVE  RevocationInv'
  <2>1. \A q \in Requests : pc[q] = "lock" => target[q] # s
    BY <1>1 DEF Create, CallInv, Working
  <2>2. \A q \in Requests : target[q] # s => row'[target[q]] = row[target[q]]
    BY <1>1 DEF Create
  <2>3. UNCHANGED <<revoked, pc, target, now, began>>
    BY <1>1 DEF Create
  <2> QED BY <2>1, <2>2, <2>3 DEF RevocationInv, Barred, GrantPending, Granted
<1>2. ASSUME NEW s \in Sessions, Logout(s) \/ CleanupExpired(s) \/ Revoke(s)
      PROVE  RevocationInv'
  <2>1. /\ \A c \in Sessions : Exists(c)' => row'[c] = row[c]
        /\ \A c \in Sessions : revoked[c] => revoked'[c]
        /\ UNCHANGED <<pc, target, now, began>>
    BY <1>2 DEF Logout, CleanupExpired, Revoke
  <2>2. \A c \in Sessions : GrantPending(c)' <=> GrantPending(c)
    BY <2>1 DEF GrantPending
  <2> QED BY <2>1, <2>2 DEF RevocationInv, Barred
<1>3. ASSUME NEW r \in Requests, Resolve(r)
      PROVE  RevocationInv'
  <2> DEFINE b == [gone |-> ~Exists(target[r]), revoked |-> revoked[target[r]],
                   granted |-> GrantPending(target[r])]
  <2>1. /\ b.revoked <=> revoked[target[r]]
        /\ b.granted <=> GrantPending(target[r])
    OBVIOUS
  <2>2. /\ began' = [began EXCEPT ![r] = b] /\ pc[r] = "idle"
        /\ now' = [now EXCEPT ![r] = clock]
        /\ UNCHANGED <<row, revoked, target>> /\ pc' = [pc EXCEPT ![r] = "get"]
    BY <1>3, Zenon DEF Resolve
  <2> HIDE DEF b
  <2>3. \A s \in Sessions : GrantPending(s)' <=> GrantPending(s)
    BY <2>2 DEF GrantPending, Granted
  <2>4. Barred(r)' => revoked[target[r]] /\ ~GrantPending(target[r])
    BY <2>1, <2>2 DEF Barred
  <2>5. \A q \in Requests : q # r => (Barred(q)' <=> Barred(q))
    BY <2>2 DEF Barred
  <2> QED BY <2>2, <2>3, <2>4, <2>5 DEF RevocationInv
<1>4. ASSUME NEW r \in Requests, UNCHANGED <<row, target, now, began>>,
             \A s \in Sessions : revoked[s] => revoked'[s],
             NEW place \in {"get", "verify", "lock", "grant", "drop", "notFound", "crashed"},
             pc' = [pc EXCEPT ![r] = place],
             place = "lock" => row[target[r]].tokens.atExp <= now[r]
      PROVE  RevocationInv'
  <2>1. \A s \in Sessions : GrantPending(s)' => GrantPending(s)
    BY <1>4 DEF GrantPending, Granted
  <2> QED BY <1>4, <2>1 DEF RevocationInv, Barred
<1>5. ASSUME NEW r \in Requests, ResolveUnknown(r) \/ LoadFails(r)
      PROVE  RevocationInv'
  BY <1>4, <1>5 DEF ResolveUnknown, LoadFails
<1>6. ASSUME NEW r \in Requests, Load(r)
      PROVE  RevocationInv'
  <2>1. row[target[r]] \in Session
    BY <1>6 DEF Load
  <2>2. \/ pc' = [pc EXCEPT ![r] = "drop"]
        \/ pc' = [pc EXCEPT ![r] = "verify"]
        \/ /\ pc' = [pc EXCEPT ![r] = "lock"]
           /\ row[target[r]].tokens.atExp <= now[r]
    <3>1. IsExpired(row[target[r]], now[r]) \in BOOLEAN
      BY DEF IsExpired
    <3>2. row[target[r]].tokens.atExp \in Nat /\ now[r] \in Nat
      BY <2>1 DEF Session, TokenSet
    <3> DEFINE e == IsExpired(row[target[r]], now[r])
               f == now[r] < row[target[r]].tokens.atExp
               next == CASE e -> "drop" [] ~e /\ f -> IF HasVerifier THEN "verify" ELSE "touch"
                         [] OTHER -> "lock"
    <3>3. pc' = [pc EXCEPT ![r] = next]
      BY <1>6, Zenon DEF Load
    <3> HIDE DEF e
    <3>4. next \in {"drop", "verify"} \/ (next = "lock" /\ (e \/ ~f))
      BY <3>2
    <3>5. e => next = "drop"
      BY <3>2
    <3> HIDE DEF next
    <3>6. \/ next = "drop" \/ next = "verify"
          \/ next = "lock" /\ row[target[r]].tokens.atExp <= now[r]
      BY <3>2, <3>4, <3>5
    <3> HIDE DEF f
    <3> QED BY <3>3, <3>6, Zenon
  <2> QED BY <1>4, <1>6, <2>2 DEF Load
<1>7. ASSUME NEW r \in Requests, VerifyAccepts(r)
      PROVE  RevocationInv'
  <2>1. ~Barred(r)
    BY <1>7 DEF VerifyAccepts, RevocationInv
  <2>2. \A s \in Sessions : GrantPending(s)' => GrantPending(s)
    BY <1>7 DEF VerifyAccepts, GrantPending, Granted
  <2> QED BY <1>7, <2>1, <2>2 DEF VerifyAccepts, RevocationInv, Barred
<1>8. ASSUME NEW r \in Requests,
             VerifyRejects(r) \/ LockedUnusable(r) \/ LockFails(r) \/ BeginGrant(r)
             \/ RefreshRejected(r) \/ AnswerLost(r) \/ PersistFails(r) \/ DropFails(r)
      PROVE  RevocationInv'
  BY <1>4, <1>8 DEF VerifyRejects, LockedUnusable, LockFails, BeginGrant, RefreshRejected,
     AnswerLost, PersistFails, DropFails
<1>9. ASSUME NEW r \in Requests, Touch(r) \/ TouchFails(r)
      PROVE  RevocationInv'
  <2>1. target[r] \in Sessions /\ now[r] \in Nat
    OBVIOUS
  <2>2. \A s \in Sessions : Exists(s)' => Exists(s) /\ row'[s].tokens = row[s].tokens
    <3>1. CASE row' = row
      BY <3>1
    <3>2. CASE /\ Exists(target[r])
               /\ row' = [row EXCEPT ![target[r]] = Seen(@, now[r])]
      <4>1. row[target[r]] \in Session
        BY <2>1, <3>2
      <4>2. Seen(row[target[r]], now[r]).tokens = row[target[r]].tokens
        BY <2>1, <4>1, SeenType
      <4> QED BY <2>1, <3>2, <4>2
    <3> QED BY <1>9, <3>1, <3>2 DEF Touch, TouchFails
  <2>3. /\ pc[r] = "touch" /\ pc' = [pc EXCEPT ![r] = "ok"]
        /\ UNCHANGED <<revoked, target, now, began>>
    BY <1>9 DEF Touch, TouchFails
  <2>4. \A s \in Sessions : GrantPending(s)' => GrantPending(s)
    BY <2>3 DEF GrantPending, Granted
  <2>5. ~Barred(r)
    BY <2>3 DEF RevocationInv
  <2> QED BY <2>2, <2>3, <2>4, <2>5 DEF RevocationInv, Barred
<1>10. ASSUME NEW r \in Requests, AdoptRefresh(r)
       PROVE  RevocationInv'
  <2>1. ~Barred(r)
    BY <1>10 DEF AdoptRefresh, RevocationInv, Session, TokenSet
  <2>2. \A s \in Sessions : GrantPending(s)' => GrantPending(s)
    BY <1>10 DEF AdoptRefresh, GrantPending, Granted
  <2> QED BY <1>10, <2>1, <2>2 DEF AdoptRefresh, RevocationInv, Barred
<1>11. ASSUME NEW r \in Requests, NEW resp \in Response, IssuerGrants(r, resp)
       PROVE  RevocationInv'
  <2>1. \A q \in Requests : Barred(q) => target[q] # target[r]
    BY <1>11 DEF IssuerGrants, RevocationInv
  <2>2. \A s \in Sessions : s # target[r] /\ GrantPending(s)' => GrantPending(s)
    BY <1>11 DEF IssuerGrants, GrantPending, Granted
  <2> QED BY <1>11, <2>1, <2>2 DEF IssuerGrants, RevocationInv, Barred
<1>12. ASSUME NEW r \in Requests, Renew(r)
       PROVE  RevocationInv'
  <2>1. /\ pc[r] = "answer" /\ pc' = [pc EXCEPT ![r] = "persist"]
        /\ UNCHANGED <<row, revoked, target, now, began>>
    BY <1>12 DEF Renew
  <2>2. ~Barred(r)
    BY <2>1 DEF RevocationInv
  <2>3. \A s \in Sessions : GrantPending(s)' => GrantPending(s)
    BY <2>1 DEF GrantPending, Granted
  <2> QED BY <2>1, <2>2, <2>3 DEF RevocationInv, Barred
<1>13. ASSUME NEW r \in Requests, Persist(r)
       PROVE  RevocationInv'
  <2>1. \A q \in Requests : Barred(q) => target[q] # target[r]
    BY <1>13 DEF Persist, RevocationInv, GrantPending, Granted
  <2>2. \A s \in Sessions : GrantPending(s)' => GrantPending(s)
    BY <1>13 DEF Persist, GrantPending, Granted
  <2>3. \A s \in Sessions : s # target[r] => row'[s] = row[s]
    BY <1>13 DEF Persist
  <2>4. pc' = [pc EXCEPT ![r] = "ok"] /\ UNCHANGED <<revoked, target, now, began>>
    BY <1>13 DEF Persist
  <2> QED BY <2>1, <2>2, <2>3, <2>4 DEF RevocationInv, Barred
<1>14. ASSUME NEW r \in Requests, Drop(r)
       PROVE  RevocationInv'
  <2>1. \A s \in Sessions : GrantPending(s)' => GrantPending(s)
    BY <1>14 DEF Drop, GrantPending, Granted
  <2> QED BY <1>14, <2>1 DEF Drop, RevocationInv, Barred
<1>15. ASSUME NEW r \in Requests, Crash(r)
       PROVE  RevocationInv'
  BY <1>4, <1>15 DEF Crash
<1>16. ASSUME Tick \/ UNCHANGED vars
       PROVE  RevocationInv'
  BY <1>16 DEF Tick, vars, RevocationInv, Barred, GrantPending, Granted
<1> QED
  BY <1>1, <1>2, <1>3, <1>5, <1>6, <1>7, <1>8, <1>9, <1>10, <1>11, <1>12, <1>13, <1>14,
     <1>15, <1>16 DEF Next, CallStep

\* With a verifier, a call begun after the revocation, with no earlier grant
\* still on its way to the store, fails.
THEOREM RevocationHolds == Spec => []RevocationBites
<1>1. Init => (HasVerifier => RevocationInv)
  BY DEF Init, RevocationInv, Barred
<1>2. StoreInv /\ CallInv /\ (HasVerifier => RevocationInv) /\ [Next]_vars
        => (HasVerifier => RevocationInv)'
  BY RevocationStep
<1>3. (HasVerifier => RevocationInv) => RevocationBites
  BY DEF RevocationInv, RevocationBites, Barred
<1> QED BY <1>1, <1>2, <1>3, CallsCorrect, PTL DEF Spec

-----------------------------------------------------------------------------
(* Rotating refresh tokens. *)

\* The stored refresh token is the one the issuer honours, except while the
\* answer to a grant is on its way and after such an answer was lost.  An
\* answer without a token leaves the stored one in force, and a renewed copy
\* carries the token that is.
ReplayInv ==
  /\ replayed \subseteq lost
  /\ \A s \in Sessions :
       Exists(s) /\ s \notin lost /\ row[s].tokens.rt # 0 /\ ~GrantPending(s) =>
         row[s].tokens.rt = current[s]
  /\ \A r \in Requests :
       pc[r] \in Granted /\ ~answer[r].rt => row[target[r]].tokens.rt = current[target[r]]
  /\ \A r \in Requests :
       pc[r] = "persist" => snap[r].tokens.rt = current[target[r]]

\* A call that awaits an answer is the only one for its session, and nobody
\* else holds the lock.
LEMMA OnePending ==
  ASSUME LockInv, NEW r \in Requests, pc[r] \in Locking, NEW q \in Requests,
         pc[q] \in Locking, target[q] = target[r]
  PROVE  q = r
BY DEF LockInv

\* Unless a rotated token was lost, the stored refresh token is the one the
\* issuer honours, or the answer carrying its successor is with the lock holder.
LEMMA ReplayStep ==
  ASSUME StoreInv, CallInv, ReplayInv, [Next]_vars
  PROVE  ReplayInv'
<1> USE DEF StoreInv, TypeOK, Exists, Goto, Unlock, storeVars, issuerVars, callVars, historyVars
<1>0. LockInv'
  BY LockStep
\* Steps that change neither a token, nor what the issuer honours, nor which
\* calls await an answer.
<1>1. ASSUME \A s \in Sessions : Exists(s)' => Exists(s) /\ row'[s].tokens = row[s].tokens,
             UNCHANGED <<current, target, answer, lost, replayed>>,
             \A q \in Requests : pc'[q] = pc[q] \/ {pc[q], pc'[q]} \cap Granted = {},
             \A q \in Requests : pc[q] \in Granted => snap'[q] = snap[q]
      PROVE  ReplayInv'
  <2>1. \A s \in Sessions : GrantPending(s)' <=> GrantPending(s)
    BY <1>1 DEF GrantPending, Granted
  <2>2. \A q \in Requests : pc'[q] \in Granted => Exists(target[q])'
    BY <1>0, <1>1 DEF LockInv, Locking, Granted
  <2>3. \A q \in Requests : pc'[q] \in Granted =>
          /\ pc[q] = pc'[q] /\ snap'[q] = snap[q]
          /\ row'[target[q]].tokens = row[target[q]].tokens
    BY <1>1, <2>2 DEF Granted
  <2>4. \A q \in Requests : pc'[q] = "persist" => pc'[q] \in Granted
    BY DEF Granted
  <2>5. \A s \in Sessions : row'[s] # NoRow /\ s \notin lost /\ row'[s].tokens.rt # 0
          /\ ~GrantPending(s) => row'[s].tokens.rt = current[s]
    BY <1>1 DEF ReplayInv
  <2>6. \A q \in Requests : pc'[q] \in Granted /\ ~answer[q].rt =>
          row'[target[q]].tokens.rt = current[target[q]]
    BY <2>3 DEF ReplayInv
  <2>7. \A q \in Requests : pc'[q] = "persist" => snap'[q].tokens.rt = current[target[q]]
    BY <2>3, <2>4 DEF ReplayInv
  <2>8. replayed' \subseteq lost'
    BY <1>1 DEF ReplayInv
  <2> QED BY <1>1, <2>1, <2>5, <2>6, <2>7, <2>8 DEF ReplayInv, Granted
<1>2. ASSUME NEW s \in Sessions, NEW resp \in Response, Create(s, resp)
      PROVE  ReplayInv'
  <2> DEFINE tokens == TokenSetFrom(resp, 1, EmptyTokens, clock)
  <2>1. tokens.rt = IF resp.rt THEN 1 ELSE 0
    BY DEF TokenSetFrom, EmptyTokens
  <2>2. row'[s].tokens = tokens /\ \A c \in Sessions : c # s => row'[c] = row[c]
    BY <1>2 DEF Create
  <2>3. /\ current' = [current EXCEPT ![s] = IF resp.rt THEN 1 ELSE 0]
        /\ UNCHANGED <<pc, target, answer, snap, lost, replayed>>
    BY <1>2 DEF Create
  <2>4. \A q \in Requests : pc[q] \in Granted => target[q] # s
    BY <1>2 DEF Create, CallInv, Working, Granted
  <2>5. \A c \in Sessions : GrantPending(c)' <=> GrantPending(c)
    BY <2>3 DEF GrantPending, Granted
  <2> HIDE DEF tokens
  <2> QED BY <2>1, <2>2, <2>3, <2>4, <2>5 DEF ReplayInv, Granted
<1>3. ASSUME NEW s \in Sessions, Logout(s) \/ CleanupExpired(s) \/ Revoke(s)
      PROVE  ReplayInv'
  BY <1>1, <1>3 DEF Logout, CleanupExpired, Revoke, Granted
<1>4. ASSUME NEW r \in Requests, Resolve(r) \/ ResolveUnknown(r)
      PROVE  ReplayInv'
  <2>1. /\ pc[r] = "idle"
        /\ pc' = [pc EXCEPT ![r] = "get"] \/ pc' = [pc EXCEPT ![r] = "notFound"]
        /\ UNCHANGED <<row, current, target, answer, snap, lost, replayed>>
    BY <1>4, Zenon DEF Resolve, ResolveUnknown
  <2> QED BY <1>1, <2>1 DEF Granted
<1>5. ASSUME NEW r \in Requests,
             Load(r) \/ LoadFails(r) \/ VerifyAccepts(r) \/ VerifyRejects(r) \/ TouchFails(r)
             \/ AdoptRefresh(r) \/ BeginGrant(r) \/ LockedUnusable(r) \/ LockFails(r)
             \/ DropFails(r) \/ Drop(r)
      PROVE  ReplayInv'
  <2>1. /\ \A s \in Sessions : Exists(s)' => Exists(s) /\ row'[s] = row[s]
        /\ pc[r] \notin Granted /\ pc'[r] \notin Granted
        /\ \A q \in Requests : q # r => pc'[q] = pc[q] /\ snap'[q] = snap[q]
        /\ UNCHANGED <<current, target, answer, lost, replayed>>
    BY <1>5 DEF Load, LoadFails, VerifyAccepts, VerifyRejects, TouchFails, AdoptRefresh,
       BeginGrant, LockedUnusable, LockFails, DropFails, Drop, Granted
  <2> QED BY <1>1, <2>1
<1>6. ASSUME NEW r \in Requests, Touch(r)
      PROVE  ReplayInv'
  <2>1. target[r] \in Sessions /\ now[r] \in Nat
    OBVIOUS
  <2>2. \A s \in Sessions : Exists(s)' => Exists(s) /\ row'[s].tokens = row[s].tokens
    <3>1. CASE ~Exists(target[r])
      BY <1>6, <3>1 DEF Touch
    <3>2. CASE Exists(target[r])
      <4>1. row[target[r]] \in Session
        BY <2>1, <3>2
      <4>2. Seen(row[target[r]], now[r]).tokens = row[target[r]].tokens
        BY <2>1, <4>1, SeenType
      <4> QED BY <1>6, <2>1, <3>2, <4>2 DEF Touch
    <3> QED BY <3>1, <3>2
  <2> QED BY <1>1, <1>6, <2>2 DEF Touch, Granted
<1>7. ASSUME NEW r \in Requests, NEW resp \in Response, IssuerGrants(r, resp)
      PROVE  ReplayInv'
  <2>1. \A q \in Requests : pc[q] \in Granted => target[q] # target[r]
    BY <1>7, OnePending DEF IssuerGrants, Locking, Granted
  <2>2. \A s \in Sessions : GrantPending(s)' <=> GrantPending(s) \/ s = target[r]
    BY <1>7 DEF IssuerGrants, GrantPending, Granted
  <2>3. /\ row[target[r]].tokens.rt = current[target[r]] /\ pc[r] = "grant"
        /\ current' = [current EXCEPT ![target[r]] = IF resp.rt THEN @ + 1 ELSE @]
        /\ answer' = [answer EXCEPT ![r] = resp]
        /\ pc' = [pc EXCEPT ![r] = "answer"]
        /\ UNCHANGED <<row, target, snap, lost, replayed>>
    BY <1>7 DEF IssuerGrants, Presented, LockInv, Locking
  <2> QED BY <2>1, <2>2, <2>3 DEF ReplayInv, Granted
<1>8. ASSUME NEW r \in Requests, RefreshRejected(r)
      PROVE  ReplayInv'
  <2>1. ~GrantPending(target[r])
    BY <1>8, OnePending DEF RefreshRejected, GrantPending, Granted, Locking
  <2>2. snap[r] = row[target[r]] /\ Exists(target[r]) /\ snap[r].tokens.rt # 0
    BY <1>8 DEF RefreshRejected, LockInv, CallInv, Locking
  <2>3. target[r] \notin lost => Presented(r) = current[target[r]]
    BY <2>1, <2>2 DEF ReplayInv, Presented
  <2>4. replayed' \subseteq lost
    BY <1>8, <2>3 DEF RefreshRejected, ReplayInv
  <2>5. /\ pc[r] = "grant" /\ pc' = [pc EXCEPT ![r] = "drop"]
        /\ UNCHANGED <<row, current, target, answer, snap, lost>>
    BY <1>8 DEF RefreshRejected
  <2>6. \A s \in Sessions : GrantPending(s)' <=> GrantPending(s)
    BY <2>5 DEF GrantPending, Granted
  <2> QED BY <2>4, <2>5, <2>6 DEF ReplayInv, Granted
\* A grant that ends without its answer being stored.
<1>9. ASSUME NEW r \in Requests, NEW place \in {"drop", "notFound", "crashed"},
             pc[r] \in Granted, LoseAnswer(r), pc' = [pc EXCEPT ![r] = place],
             UNCHANGED <<row, current, target, answer, snap, replayed>>
      PROVE  ReplayInv'
  <2>1. \A s \in Sessions : s # target[r] => (GrantPending(s)' <=> GrantPending(s))
    BY <1>9 DEF GrantPending, Granted
  <2>2. ~answer[r].rt => row[target[r]].tokens.rt = current[target[r]]
    BY <1>9 DEF ReplayInv
  <2>3. /\ lost \subseteq lost'
        /\ answer[r].rt => target[r] \in lost'
    BY <1>9 DEF LoseAnswer
  <2> QED BY <1>9, <2>1, <2>2, <2>3 DEF ReplayInv, Granted
<1>10. ASSUME NEW r \in Requests, AnswerLost(r) \/ PersistFails(r)
       PROVE  ReplayInv'
  BY <1>9, <1>10 DEF AnswerLost, PersistFails, Granted
<1>11. ASSUME NEW r \in Requests, Crash(r)
       PROVE  ReplayInv'
  BY <1>1, <1>9, <1>11 DEF Crash, Granted
<1>12. ASSUME NEW r \in Requests, Renew(r)
       PROVE  ReplayInv'
  <2>1. snap'[r].tokens = TokenSetFrom(answer[r], current[target[r]], snap[r].tokens, clock)
    BY <1>12, RenewedCopy
  <2>2. ~answer[r].rt => snap[r].tokens.rt = current[target[r]]
    BY <1>12 DEF Renew, ReplayInv, LockInv, Locking, Granted
  <2>3. snap'[r].tokens.rt = current[target[r]]
    BY <2>1, <2>2 DEF TokenSetFrom
  <2>4. /\ pc[r] = "answer" /\ pc' = [pc EXCEPT ![r] = "persist"]
        /\ \A q \in Requests : q # r => snap'[q] = snap[q]
        /\ UNCHANGED <<row, current, target, answer, lost, replayed>>
    BY <1>12 DEF Renew
  <2>5. \A s \in Sessions : GrantPending(s)' <=> GrantPending(s)
    BY <2>4 DEF GrantPending, Granted
  <2> QED BY <2>3, <2>4, <2>5 DEF ReplayInv, Granted
<1>13. ASSUME NEW r \in Requests, Persist(r)
       PROVE  ReplayInv'
  <2>1. snap[r].tokens.rt = current[target[r]]
    BY <1>13 DEF Persist, ReplayInv
  <2>2. /\ row'[target[r]] = snap[r]
        /\ \A s \in Sessions : s # target[r] => row'[s] = row[s]
        /\ pc' = [pc EXCEPT ![r] = "ok"]
        /\ UNCHANGED <<current, target, answer, snap, lost, replayed>>
    BY <1>13 DEF Persist
  <2>3. \A s \in Sessions : s # target[r] => (GrantPending(s)' <=> GrantPending(s))
    BY <2>2 DEF GrantPending, Granted
  <2>4. \A q \in Requests : q # r /\ pc[q] \in Granted => target[q] # target[r]
    BY <1>13, OnePending DEF Persist, Granted, Locking
  <2> QED BY <2>1, <2>2, <2>3, <2>4 DEF ReplayInv, Granted
<1>14. ASSUME Tick \/ UNCHANGED vars
       PROVE  ReplayInv'
  BY <1>1, <1>14 DEF Tick, vars
<1> QED
  BY <1>2, <1>3, <1>4, <1>5, <1>6, <1>7, <1>8, <1>10, <1>11, <1>12, <1>13,
     <1>14 DEF Next, CallStep

\* Concurrent calls never present a spent refresh token, unless a rotated
\* one was lost between the issuer and the store.
THEOREM NoReplay == Spec => []SpentTokenOnlyAfterLoss
<1>1. Init => ReplayInv
  BY DEF Init, ReplayInv, Exists, Granted
<1>2. StoreInv /\ CallInv /\ ReplayInv /\ [Next]_vars => ReplayInv'
  BY ReplayStep
<1>3. ReplayInv => SpentTokenOnlyAfterLoss
  BY DEF ReplayInv, SpentTokenOnlyAfterLoss
<1> QED BY <1>1, <1>2, <1>3, CallsCorrect, PTL DEF Spec

=============================================================================
