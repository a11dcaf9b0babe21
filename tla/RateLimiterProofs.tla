-------------------------- MODULE RateLimiterProofs --------------------------
(***************************************************************************)
(* With a fixed policy whose burst refills within the idle timeout, the    *)
(* limiter implements TokenBucket, for any number of clients and requests. *)
(* With policies that change at any time it keeps to the most generous one *)
(* in play.                                                                *)
(***************************************************************************)
EXTENDS RateLimiter, TLAPS

\* A fixed policy, and a burst that an idle bucket regains before eviction.
FixedPolicy(p) ==
  /\ ~HasProvider
  /\ Policies = {p}
  /\ p.burst <= p.rate * IdleTimeout

\* What holds between requests under the fixed policy p: a bucket is advanced
\* exactly when its client is seen, and a request is answered by allow alone.
FixedInv(p) ==
  /\ TypeOK
  /\ policy = p
  /\ \A c \in Clients : limiters[c] # None =>
       limiters[c].last = limiters[c].lastSeen /\ limiters[c].tokens <= p.burst
  /\ \A r \in Requests : pc[r] = "idle" <=> outcome[r] = "none"
  /\ \A r \in Requests : pc[r] \in {"idle", "done"}

\* The only policy is the most generous one.
LEMMA OnlyPolicy ==
  ASSUME NEW p, FixedPolicy(p)
  PROVE  /\ p \in [rate : Nat \ {0}, burst : Nat \ {0}]
         /\ MostRate = p.rate /\ MostBurst = p.burst
<1>1. p \in Policies
  BY DEF FixedPolicy
<1>2. p \in [rate : Nat \ {0}, burst : Nat \ {0}]
  BY <1>1, RateLimiterAssumption
<1>3. {q.rate : q \in Policies} = {p.rate} /\ {q.burst : q \in Policies} = {p.burst}
  BY DEF FixedPolicy
<1>4. \A q \in Policies : q.rate <= p.rate /\ q.burst <= p.burst
  BY <1>2 DEF FixedPolicy
<1>5. MostRate = p.rate
  BY <1>3, <1>4 DEF MostRate
<1>6. MostBurst = p.burst
  BY <1>3, <1>4 DEF MostBurst
<1> QED BY <1>2, <1>5, <1>6

\* Time passes between two readings of a bucket as the rate says.
LEMMA Accrual ==
  ASSUME NEW t \in Nat, NEW l \in 1..t, NEW rate \in Nat
  PROVE  /\ (t - l) * rate \in Nat
         /\ (t + 1 - l) * rate = (t - l) * rate + rate
<1>1. t - l \in Nat
  OBVIOUS
<1>2. \A n \in Nat : (n + 1) * rate = n * rate + rate /\ n * rate \in Nat
  OBVIOUS
<1>3. t + 1 - l = (t - l) + 1
  OBVIOUS
<1> QED BY <1>1, <1>2, <1>3

\* A bucket idle for longer than the idle timeout has regained its burst.
LEMMA IdleIsFull ==
  ASSUME NEW p, FixedPolicy(p), NEW b \in Bucket, NEW t \in Nat, b.last \in 1..t,
         t - b.last > IdleTimeout
  PROVE  Level(b, p, t) = p.burst
<1>1. p.rate \in Nat /\ p.burst \in Nat
  BY OnlyPolicy
<1>2. \A n \in Nat, m \in Nat : n <= m => p.rate * n <= m * p.rate
  BY <1>1
<1>3. t - b.last \in Nat /\ IdleTimeout \in Nat /\ IdleTimeout <= t - b.last
  BY RateLimiterAssumption
<1>4. p.burst <= (t - b.last) * p.rate
  <2>1. p.rate * IdleTimeout <= (t - b.last) * p.rate
    BY <1>2, <1>3
  <2> QED BY <2>1, <1>1, <1>3 DEF FixedPolicy
<1>5. b.tokens \in Nat
  BY DEF Bucket
<1>6. (t - b.last) * p.rate \in Nat
  BY <1>1, <1>3
<1> QED BY <1>1, <1>4, <1>5, <1>6 DEF Level, CappedAt

\* A bucket never holds more than its burst nor less than nothing.
LEMMA LevelType ==
  ASSUME NEW p, FixedPolicy(p), NEW b \in Bucket, NEW t \in Nat, b.last \in 1..t
  PROVE  Level(b, p, t) \in Nat /\ Level(b, p, t) <= p.burst
<1>1. p.rate \in Nat /\ p.burst \in Nat
  BY OnlyPolicy
<1>2. (t - b.last) * p.rate \in Nat
  BY <1>1, Accrual
<1>3. b.tokens \in Nat
  BY DEF Bucket
<1> QED BY <1>1, <1>2, <1>3 DEF Level, CappedAt

\* Sweeping idle buckets, and creating one on demand, changes no client's level.
LEMMA SweepKeepsLevels ==
  ASSUME NEW p, FixedPolicy(p), FixedInv(p), NEW c \in Clients
  PROVE  /\ LevelOf(c) \in Nat /\ LevelOf(c) <= p.burst
         /\ Level(BucketOf(c), p, clock) = LevelOf(c)
         /\ Kept(c) = None => LevelOf(c) = p.burst
         /\ Kept(c) # None => Kept(c) = limiters[c]
         /\ Kept(c) \in Bucket \union {None}
<1>1. p.rate \in Nat /\ p.burst \in Nat
  BY OnlyPolicy
<1>2. clock \in Nat /\ policy = p /\ limiters[c] \in Bucket \union {None}
  BY DEF FixedInv, TypeOK
<1>3. ASSUME limiters[c] # None
      PROVE  limiters[c] \in Bucket /\ limiters[c].last \in 1..clock
             /\ limiters[c].last = limiters[c].lastSeen
  BY <1>2, <1>3 DEF FixedInv, TypeOK
<1>4. LevelOf(c) \in Nat /\ LevelOf(c) <= p.burst
  BY <1>1, <1>2, <1>3, LevelType DEF LevelOf
<1>5. Kept(c) = None => LevelOf(c) = p.burst
  <2>1. CASE limiters[c] = None
    BY <2>1, <1>2 DEF LevelOf
  <2>2. CASE limiters[c] # None
    <3>1. ASSUME Kept(c) = None PROVE clock - limiters[c].last > IdleTimeout
      BY <2>2, <3>1, <1>3 DEF Kept
    <3> QED BY <3>1, <2>2, <1>2, <1>3, IdleIsFull DEF LevelOf
  <2> QED BY <2>1, <2>2
<1>6. Kept(c) # None => Kept(c) = limiters[c]
  BY DEF Kept
<1>7. Level(NewLimiter(p, clock), p, clock) = p.burst
  BY <1>1, <1>2 DEF Level, NewLimiter, CappedAt
<1>8. Level(BucketOf(c), p, clock) = LevelOf(c)
  <2>1. CASE Kept(c) = None
    BY <2>1, <1>2, <1>5, <1>7 DEF BucketOf
  <2>2. CASE Kept(c) # None
    BY <2>2, <1>2, <1>6 DEF BucketOf, LevelOf
  <2> QED BY <2>1, <2>2
<1> QED BY <1>2, <1>4, <1>5, <1>6, <1>8

\* What allow leaves in its client's bucket.
Charged(r) ==
  LET n == Level(BucketOf(client[r]), policy, clock) IN
  [tokens |-> IF n >= Cost THEN n - Cost ELSE n, last |-> clock, lastSeen |-> clock]

\* The fixed policy stays, and buckets and answers stay consistent.
LEMMA FixedStep ==
  ASSUME NEW p, FixedPolicy(p), FixedInv(p), [Next]_vars
  PROVE  FixedInv(p)'
<1> USE DEF FixedInv, TypeOK
<1>1. ASSUME NEW r \in Requests, Allow(r)
      PROVE  FixedInv(p)'
  <2> DEFINE c == client[r]
  <2>1. c \in Clients /\ clock \in Nat \ {0} /\ Cost \in Nat /\ p.burst \in Nat
    BY RateLimiterAssumption, OnlyPolicy
  <2>2. Level(BucketOf(c), policy, clock) \in Nat
        /\ Level(BucketOf(c), policy, clock) <= p.burst
    BY <2>1, SweepKeepsLevels
  <2>3. Charged(r) \in Bucket /\ Charged(r).last = clock /\ Charged(r).lastSeen = clock
        /\ Charged(r).tokens <= p.burst
    BY <2>1, <2>2 DEF Charged, Bucket
  <2>4. limiters' = [d \in Clients |-> IF d = c THEN Charged(r) ELSE Kept(d)]
    BY <1>1 DEF Allow, Charged
  <2>5. \A d \in Clients : Kept(d) # None => Kept(d) = limiters[d]
    BY SweepKeepsLevels
  <2>6. \A d \in Clients : Kept(d) \in Bucket \union {None}
    BY SweepKeepsLevels
  <2>7. limiters' \in [Clients -> Bucket \union {None}]
    BY <2>3, <2>4, <2>6
  <2>8. UNCHANGED <<clock, policy, offered, opts, client>>
    BY <1>1 DEF Allow
  <2>9. \A d \in Clients : limiters'[d] # None =>
          /\ limiters'[d].last = limiters'[d].lastSeen /\ limiters'[d].tokens <= p.burst
          /\ limiters'[d].last \in 1..clock /\ limiters'[d].lastSeen \in 1..clock
    <3> TAKE d \in Clients
    <3>1. CASE d = c
      BY <3>1, <2>1, <2>3, <2>4
    <3>2. CASE d # c
      BY <3>2, <2>4, <2>5
    <3> QED BY <3>1, <3>2
  <2>10. lastEvict' \in 1..clock
    BY <1>1, <2>1 DEF Allow
  <2>11. /\ pc' = [pc EXCEPT ![r] = "done"]
         /\ outcome' \in [Requests -> {"none", "admitted", "refused"}]
         /\ \A q \in Requests : q # r => outcome'[q] = outcome[q]
         /\ outcome'[r] # "none"
    BY <1>1 DEF Allow
  <2>12. served' \in [Clients -> Nat]
    BY <1>1, <2>1 DEF Allow
  <2>14. \A q \in Requests : (pc'[q] = "idle" <=> outcome'[q] = "none") /\ pc'[q] \in {"idle", "done"}
    BY <2>11
  <2>15. pc' \in [Requests -> {"idle", "retune", "allow", "done"}]
    BY <2>11
  <2> QED BY <2>7, <2>8, <2>9, <2>10, <2>11, <2>12, <2>14, <2>15
<1>2. CASE Tick
  <2>1. clock' = clock + 1 /\ UNCHANGED <<offered, limitVars, requestVars>>
    BY <1>2 DEF Tick
  <2>2. \A n \in Nat : n \in 1..clock => n \in 1..clock'
    BY <2>1
  <2> QED BY <2>1, <2>2 DEF limitVars, requestVars, Bucket
<1>3. CASE UNCHANGED vars
  BY <1>3 DEF vars, limitVars, requestVars
<1>4. \A r \in Requests : ~CallProvider(r) /\ ~Retune(r)
  BY DEF CallProvider, Retune, FixedPolicy
<1>5. \A q : ~ChangePolicy(q)
  BY DEF ChangePolicy, FixedPolicy
<1> QED BY <1>1, <1>2, <1>3, <1>4, <1>5 DEF Next

\* The invariant holds initially.
LEMMA FixedInit ==
  ASSUME NEW p, FixedPolicy(p), Init
  PROVE  FixedInv(p)
BY DEF FixedInv, TypeOK, Init, FixedPolicy, NoPolicy

\* How one step moves every client's level: time adds the rate up to the
\* burst, a request charges its own client only, and nothing else matters.
LEMMA TickLevels ==
  ASSUME NEW p, FixedPolicy(p), FixedInv(p), Tick, NEW c \in Clients
  PROVE  LevelOf(c)' = CappedAt(LevelOf(c) + p.rate, p.burst)
<1>1. p.rate \in Nat /\ p.burst \in Nat
  BY OnlyPolicy
<1>2. clock \in Nat /\ clock' = clock + 1 /\ policy = p /\ policy' = p /\ limiters' = limiters
  BY DEF Tick, limitVars, FixedInv, TypeOK
<1>3. CASE limiters[c] = None
  BY <1>1, <1>2, <1>3 DEF LevelOf, CappedAt
<1>4. CASE limiters[c] # None
  <2>1. limiters[c] \in Bucket /\ limiters[c].last \in 1..clock
    BY <1>4 DEF FixedInv, TypeOK
  <2>2. limiters[c].tokens \in Nat
    BY <2>1 DEF Bucket
  <2> DEFINE gain == (clock - limiters[c].last) * p.rate
             gain1 == (clock + 1 - limiters[c].last) * p.rate
  <2>3. gain \in Nat /\ gain1 = gain + p.rate
    BY <1>1, <1>2, <2>1, Accrual
  <2>4. LevelOf(c) = CappedAt(limiters[c].tokens + gain, p.burst)
    BY <1>2, <1>4 DEF LevelOf, Level
  <2>5. LevelOf(c)' = CappedAt(limiters[c].tokens + gain1, p.burst)
    <3>1. LevelOf(c)' = Level(limiters[c], p, clock')
      BY <1>2, <1>4 DEF LevelOf
    <3>2. Level(limiters[c], p, clock + 1) = CappedAt(limiters[c].tokens + gain1, p.burst)
      BY <1>1, <1>2, <2>1, <2>2, <2>3 DEF Level, CappedAt
    <3>3. Level(limiters[c], p, clock') = Level(limiters[c], p, clock + 1)
      BY <1>2
    <3> QED BY <3>1, <3>2, <3>3
  <2> HIDE DEF gain, gain1
  <2> QED BY <1>1, <2>2, <2>3, <2>4, <2>5 DEF CappedAt
<1> QED BY <1>3, <1>4

\* A request of c moves the level of c by its cost if it is admitted.
LEMMA AllowLevels ==
  ASSUME NEW p, FixedPolicy(p), FixedInv(p), NEW r \in Requests, Allow(r), NEW d \in Clients
  PROVE  LevelOf(d)' = IF d = client[r] /\ LevelOf(d) >= Cost
                       THEN LevelOf(d) - Cost ELSE LevelOf(d)
<1>1. p.rate \in Nat /\ p.burst \in Nat /\ Cost \in Nat /\ clock \in Nat
  BY OnlyPolicy, RateLimiterAssumption DEF FixedInv, TypeOK
<1>2. policy = p /\ policy' = p /\ clock' = clock
  BY DEF Allow, FixedInv
<1>3. limiters' = [e \in Clients |-> IF e = client[r] THEN Charged(r) ELSE Kept(e)]
  BY DEF Allow, Charged
<1>4. CASE d = client[r]
  <2> DEFINE n == LevelOf(d)
  <2>1. n \in Nat /\ n <= p.burst /\ Level(BucketOf(d), p, clock) = n
    BY SweepKeepsLevels
  <2>2. Charged(r) = [tokens |-> IF n >= Cost THEN n - Cost ELSE n,
                      last |-> clock, lastSeen |-> clock]
    BY <1>2, <1>4, <2>1 DEF Charged
  <2>3. limiters'[d] = Charged(r)
    BY <1>3, <1>4
  <2>4. Charged(r) # None
    <3>1. Charged(r) \in Bucket
      BY <1>1, <2>1, <2>2 DEF Bucket
    <3> QED BY <3>1, NoneAssumption
  <2>5. LevelOf(d)' = Level(Charged(r), p, clock)
    BY <1>2, <2>3, <2>4 DEF LevelOf
  <2>6. Charged(r).last = clock /\ Charged(r).tokens = IF n >= Cost THEN n - Cost ELSE n
    BY <2>2
  <2>7. (clock - clock) * p.rate = 0
    BY <1>1
  <2> HIDE DEF n
  <2>8. Level(Charged(r), p, clock) = IF n >= Cost THEN n - Cost ELSE n
    BY <1>1, <2>1, <2>6, <2>7 DEF Level, CappedAt
  <2> QED BY <1>4, <2>5, <2>8 DEF n
<1>5. CASE d # client[r]
  <2>1. limiters'[d] = Kept(d)
    BY <1>3, <1>5
  <2>2. CASE Kept(d) = None
    BY <1>2, <1>5, <2>1, <2>2, SweepKeepsLevels DEF LevelOf
  <2>3. CASE Kept(d) # None
    BY <1>2, <1>5, <2>1, <2>3, SweepKeepsLevels DEF LevelOf
  <2> QED BY <2>2, <2>3
<1> QED BY <1>4, <1>5

\* With a fixed policy whose burst is regained within the idle timeout, the
\* lazily refilled, swept and recreated buckets of the middleware behave
\* exactly like one permanent token bucket per client.
THEOREM BucketsImplemented ==
  ASSUME NEW p, FixedPolicy(p)
  PROVE  Spec => ImplementsBuckets
<1> DEFINE lv == [c \in Clients |-> LevelOf(c)]
<1>0. MostRate = p.rate /\ MostBurst = p.burst /\ Cost \in Nat
  BY OnlyPolicy, RateLimiterAssumption
<1>1. Init => FixedInv(p)
  BY FixedInit
<1>2. FixedInv(p) /\ [Next]_vars => FixedInv(p)'
  BY FixedStep
<1>3. Init => Buckets!Init
  <2> SUFFICES ASSUME Init PROVE Buckets!Init
    OBVIOUS
  <2>1. \A c \in Clients : LevelOf(c) = p.burst
    BY DEF Init, LevelOf, FixedPolicy
  <2> QED BY <1>0, <2>1 DEF Init, Buckets!Init
<1>4. FixedInv(p) /\ [Next]_vars => [Buckets!Next]_(Buckets!bucketVars)
  <2> SUFFICES ASSUME FixedInv(p), [Next]_vars
               PROVE  Buckets!Next \/ UNCHANGED Buckets!bucketVars
    OBVIOUS
  <2>1. CASE Tick
    <3>1. lv' = [c \in Clients |-> CappedAt(LevelOf(c) + p.rate, p.burst)]
      BY <2>1, TickLevels
    <3>2. outcome' = outcome
      BY <2>1 DEF Tick, requestVars
    <3> QED BY <1>0, <3>1, <3>2 DEF Buckets!Next, Buckets!Refill, Buckets!Capped, CappedAt
  <2>2. ASSUME NEW r \in Requests, Allow(r)
        PROVE  Buckets!Next
    <3> DEFINE c == client[r]
    <3>1. c \in Clients /\ LevelOf(c) \in Nat /\ outcome[r] = "none"
      BY <2>2, SweepKeepsLevels DEF FixedInv, TypeOK, Allow, FixedPolicy
    <3>2. outcome' = [outcome EXCEPT ![r] = IF LevelOf(c) >= Cost THEN "admitted" ELSE "refused"]
      BY <2>2, <3>1, SweepKeepsLevels DEF Allow, FixedInv
    <3>3. lv' = [d \in Clients |-> IF d = c /\ LevelOf(d) >= Cost
                                   THEN LevelOf(d) - Cost ELSE LevelOf(d)]
      BY <2>2, AllowLevels
    <3>4. CASE LevelOf(c) >= Cost
      <4>1. lv' = [lv EXCEPT ![c] = @ - Cost]
        BY <3>1, <3>3, <3>4
      <4> QED BY <3>1, <3>2, <3>4, <4>1 DEF Buckets!Next, Buckets!Request
    <3>5. CASE LevelOf(c) < Cost
      <4>1. lv' = lv
        BY <1>0, <3>1, <3>3, <3>5
      <4>2. ~(LevelOf(c) >= Cost)
        BY <1>0, <3>1, <3>5
      <4> QED BY <3>1, <3>2, <3>5, <4>1, <4>2 DEF Buckets!Next, Buckets!Request
    <3> QED BY <1>0, <3>1, <3>4, <3>5
  <2>3. CASE UNCHANGED vars
    <3>1. outcome' = outcome /\ \A c \in Clients : LevelOf(c)' = LevelOf(c)
      BY <2>3 DEF vars, requestVars, limitVars, LevelOf
    <3> QED BY <3>1 DEF Buckets!bucketVars
  <2>4. \A r \in Requests : ~CallProvider(r) /\ ~Retune(r)
    BY DEF CallProvider, Retune, FixedInv, FixedPolicy
  <2>5. \A q : ~ChangePolicy(q)
    BY DEF ChangePolicy, FixedPolicy
  <2> QED BY <2>1, <2>2, <2>3, <2>4, <2>5 DEF Next
<1> QED BY <1>1, <1>2, <1>3, <1>4, PTL DEF Spec, ImplementsBuckets, Buckets!Spec

-----------------------------------------------------------------------------
(* Policies that change while requests are between their two critical        *)
(* sections.                                                                 *)

\* There are a most generous rate and a most generous burst, and the one regains
\* the other before a bucket is evicted.
Regained ==
  /\ \E p \in Policies : \A q \in Policies : q.rate <= p.rate
  /\ \E p \in Policies : \A q \in Policies : q.burst <= p.burst
  /\ MostBurst <= MostRate * IdleTimeout

\* A fixed policy is a case of it.
LEMMA FixedIsRegained ==
  ASSUME NEW p, FixedPolicy(p)
  PROVE  Regained
<1>1. /\ p \in [rate : Nat \ {0}, burst : Nat \ {0}]
      /\ MostRate = p.rate /\ MostBurst = p.burst
  BY OnlyPolicy
<1> QED BY <1>1 DEF FixedPolicy, Regained

\* No policy that is ever in force is more generous.
LEMMA MostIsMost ==
  ASSUME Regained, NEW p \in Policies \union {NoPolicy}
  PROVE  /\ MostRate \in Nat /\ MostBurst \in Nat
         /\ p.rate \in Nat /\ p.burst \in Nat
         /\ p.rate <= MostRate /\ p.burst <= MostBurst
<1>1. \A q \in Policies : q.rate \in Nat /\ q.burst \in Nat
  BY RateLimiterAssumption
<1>2. MostRate \in {q.rate : q \in Policies} /\ \A q \in Policies : q.rate <= MostRate
  <2>1. \E n \in {q.rate : q \in Policies} : \A q \in Policies : q.rate <= n
    BY DEF Regained
  <2> QED BY <2>1 DEF MostRate
<1>3. MostBurst \in {q.burst : q \in Policies} /\ \A q \in Policies : q.burst <= MostBurst
  <2>1. \E n \in {q.burst : q \in Policies} : \A q \in Policies : q.burst <= n
    BY DEF Regained
  <2> QED BY <2>1 DEF MostBurst
<1>4. MostRate \in Nat /\ MostBurst \in Nat
  BY <1>1, <1>2, <1>3
<1>5. CASE p \in Policies
  BY <1>1, <1>2, <1>3, <1>4, <1>5
<1>6. CASE p = NoPolicy
  <2>1. p.rate = 0 /\ p.burst = 0
    BY <1>6 DEF NoPolicy
  <2> QED BY <1>4, <2>1
<1> QED BY <1>5, <1>6

\* What accrues at most over a stretch of time is the sum over its parts.
LEMMA Stretch ==
  ASSUME NEW m \in Nat, NEW a \in Nat \ {0}, NEW b \in Nat, a <= b
  PROVE  /\ m * (a - 1) \in Nat /\ m * (b - a) \in Nat /\ m * (b - 1) \in Nat
         /\ m * (b - 1) = m * (a - 1) + m * (b - a)
<1>1. \A x \in Nat, y \in Nat : m * (x + y) = m * x + m * y /\ m * x \in Nat
  OBVIOUS
<1>2. a - 1 \in Nat /\ b - a \in Nat /\ b - 1 \in Nat /\ (a - 1) + (b - a) = b - 1
  OBVIOUS
<1> QED BY <1>1, <1>2

\* A bucket gains no more than the most generous rate.
LEMMA LevelGain ==
  ASSUME Regained, NEW p \in Policies \union {NoPolicy}, NEW b \in Bucket,
         NEW t \in Nat, b.last \in 1..t
  PROVE  /\ Level(b, p, t) \in Nat /\ b.tokens \in Nat
         /\ Level(b, p, t) <= b.tokens + MostRate * (t - b.last)
<1>1. /\ p.rate \in Nat /\ p.burst \in Nat /\ p.rate <= MostRate
      /\ MostRate \in Nat /\ b.tokens \in Nat /\ t - b.last \in Nat
  BY MostIsMost DEF Bucket
<1>2. \A n \in Nat, x \in Nat, y \in Nat : x <= y => n * x \in Nat /\ n * x <= y * n
  OBVIOUS
<1>3. /\ (t - b.last) * p.rate \in Nat
      /\ (t - b.last) * p.rate <= MostRate * (t - b.last)
      /\ MostRate * (t - b.last) \in Nat
  BY <1>1, <1>2
<1> QED BY <1>1, <1>3 DEF Level, CappedAt

\* What a client was admitted for and what its bucket held when it was last
\* advanced is no more than was given until then; what it was admitted for was
\* given when it was last seen; and a client without a bucket could be given a
\* full one.
BudgetInv ==
  \A c \in Clients :
    IF limiters[c] = None THEN Cost * served[c] <= MostRate * (clock - 1)
    ELSE /\ Cost * served[c] + limiters[c].tokens <= MostBurst + MostRate * (limiters[c].last - 1)
         /\ Cost * served[c] <= MostBurst + MostRate * (limiters[c].lastSeen - 1)

\* What was spent is a number, and times are.
LEMMA Numbers ==
  ASSUME Regained, TypeOK, NEW c \in Clients
  PROVE  /\ Cost * served[c] \in Nat /\ Cost * (served[c] + 1) = Cost * served[c] + Cost
         /\ Cost \in Nat /\ clock \in Nat \ {0} /\ MostRate \in Nat /\ MostBurst \in Nat
         /\ limiters[c] # None => /\ limiters[c] \in Bucket
                                  /\ limiters[c].last \in 1..clock
                                  /\ limiters[c].lastSeen \in 1..clock
<1>1. Cost \in Nat /\ served[c] \in Nat /\ clock \in Nat \ {0}
  BY RateLimiterAssumption DEF TypeOK
<1>2. \A n \in Nat, k \in Nat : n * k \in Nat /\ n * (k + 1) = n * k + n
  OBVIOUS
<1>3. limiters[c] # None => /\ limiters[c] \in Bucket
                            /\ limiters[c].last \in 1..clock
                            /\ limiters[c].lastSeen \in 1..clock
  BY DEF TypeOK
<1>4. MostRate \in Nat /\ MostBurst \in Nat
  BY MostIsMost
<1> QED BY <1>1, <1>2, <1>3, <1>4

\* A client that loses its bucket in the sweep, or has none, could be given a full
\* one: it was idle for long enough.
LEMMA SweptFits ==
  ASSUME Regained, TypeOK, BudgetInv, NEW c \in Clients, Kept(c) = None
  PROVE  Cost * served[c] <= MostRate * (clock - 1)
<1> DEFINE spent == Cost * served[c]
<1>0. /\ spent \in Nat /\ clock \in Nat \ {0} /\ MostRate \in Nat /\ MostBurst \in Nat
      /\ IdleTimeout \in Nat
  BY Numbers, RateLimiterAssumption
<1>1. CASE limiters[c] = None
  BY <1>1 DEF BudgetInv
<1>2. CASE limiters[c] # None
  <2> DEFINE seen == limiters[c].lastSeen
  <2>1. seen \in 1..clock /\ clock - seen > IdleTimeout
    BY <1>2, Numbers DEF Kept
  <2>2. spent <= MostBurst + MostRate * (seen - 1)
    BY <1>2 DEF BudgetInv
  <2> HIDE DEF spent, seen
  <2>3. seen \in Nat \ {0} /\ seen <= clock /\ clock - seen \in Nat /\ IdleTimeout <= clock - seen
    BY <1>0, <2>1
  <2>4. /\ MostRate * (seen - 1) \in Nat /\ MostRate * (clock - seen) \in Nat
        /\ MostRate * (clock - 1) = MostRate * (seen - 1) + MostRate * (clock - seen)
    BY <1>0, <2>3, Stretch
  <2>5. \A x \in Nat, y \in Nat : x <= y => MostRate * x <= MostRate * y /\ MostRate * x \in Nat
    BY <1>0
  <2>6. MostBurst <= MostRate * (clock - seen)
    <3>1. MostRate * IdleTimeout <= MostRate * (clock - seen) /\ MostRate * IdleTimeout \in Nat
      BY <1>0, <2>3, <2>5
    <3> QED BY <1>0, <2>4, <3>1 DEF Regained
  <2>7. spent <= MostRate * (clock - 1)
    <3> DEFINE x == MostRate * (seen - 1)
               y == MostRate * (clock - seen)
    <3>1. x \in Nat /\ y \in Nat /\ MostRate * (clock - 1) = x + y
          /\ spent <= MostBurst + x /\ MostBurst <= y
      BY <2>2, <2>4, <2>6
    <3> HIDE DEF x, y
    <3> QED BY <1>0, <3>1
  <2> QED BY <2>7 DEF spent
<1> QED BY <1>1, <1>2

\* Whatever the policy in force makes of a bucket, the budget covers it.
LEMMA LevelFits ==
  ASSUME Regained, TypeOK, BudgetInv, NEW c \in Clients, limiters[c] # None
  PROVE  /\ Level(limiters[c], policy, clock) \in Nat
         /\ Cost * served[c] + Level(limiters[c], policy, clock)
              <= MostBurst + MostRate * (clock - 1)
<1> DEFINE spent == Cost * served[c]
           b == limiters[c]
           n == Level(b, policy, clock)
<1>1. /\ spent \in Nat /\ clock \in Nat \ {0} /\ MostRate \in Nat /\ MostBurst \in Nat
      /\ b \in Bucket /\ b.last \in 1..clock
  BY Numbers
<1>2. n \in Nat /\ b.tokens \in Nat /\ n <= b.tokens + MostRate * (clock - b.last)
  BY <1>1, LevelGain DEF TypeOK
<1>3. spent + b.tokens <= MostBurst + MostRate * (b.last - 1)
  BY DEF BudgetInv
<1>4. /\ MostRate * (b.last - 1) \in Nat /\ MostRate * (clock - b.last) \in Nat
      /\ MostRate * (clock - 1) = MostRate * (b.last - 1) + MostRate * (clock - b.last)
  BY <1>1, Stretch
<1> DEFINE x == MostRate * (b.last - 1)
           y == MostRate * (clock - b.last)
           z == MostRate * (clock - 1)
           k == b.tokens
<1>5. /\ x \in Nat /\ y \in Nat /\ z = x + y /\ k \in Nat /\ n \in Nat
      /\ spent + k <= MostBurst + x /\ n <= k + y
  BY <1>2, <1>3, <1>4
<1>6. spent + n <= MostBurst + z
  <2> HIDE DEF spent, n, x, y, z, k
  <2> QED BY <1>1, <1>5
<1> QED BY <1>2, <1>6

\* What allow finds in the bucket it works on.
LEMMA AllowFits ==
  ASSUME Regained, TypeOK, BudgetInv, NEW c \in Clients
  PROVE  /\ Level(BucketOf(c), policy, clock) \in Nat
         /\ Cost * served[c] + Level(BucketOf(c), policy, clock)
              <= MostBurst + MostRate * (clock - 1)
<1>1. /\ policy.rate \in Nat /\ policy.burst \in Nat /\ policy.burst <= MostBurst
      /\ MostRate \in Nat /\ MostBurst \in Nat
  BY MostIsMost DEF TypeOK
<1>2. Cost * served[c] \in Nat /\ clock \in Nat \ {0}
  BY Numbers
<1>3. CASE Kept(c) = None
  <2> DEFINE spent == Cost * served[c]
             z == MostRate * (clock - 1)
  <2>1. Level(BucketOf(c), policy, clock) = policy.burst
    <3>1. (clock - clock) * policy.rate = 0
      BY <1>1, <1>2
    <3> QED BY <1>1, <1>3, <3>1 DEF BucketOf, NewLimiter, Level, CappedAt
  <2>2. spent <= z /\ spent \in Nat
    BY <1>2, <1>3, SweptFits
  <2>3. z \in Nat
    BY <1>1, <1>2, Stretch
  <2> HIDE DEF spent, z
  <2>4. spent + policy.burst <= MostBurst + z
    BY <1>1, <2>2, <2>3
  <2> QED BY <1>1, <2>1, <2>4 DEF spent, z
<1>4. CASE Kept(c) # None
  <2>1. BucketOf(c) = limiters[c] /\ limiters[c] # None
    BY <1>4 DEF BucketOf, Kept
  <2> QED BY <2>1, LevelFits
<1> QED BY <1>3, <1>4

\* Types are kept whatever the policies.
LEMMA TypeStep ==
  ASSUME Regained, TypeOK, BudgetInv, [Next]_vars
  PROVE  TypeOK'
<1>1. ASSUME NEW r \in Requests, CallProvider(r)
      PROVE  TypeOK'
  BY <1>1 DEF TypeOK, CallProvider, limitVars
<1>2. ASSUME NEW r \in Requests, Retune(r)
      PROVE  TypeOK'
  <2>1. ASSUME NEW c \in Clients
        PROVE  /\ Settle(limiters[c]) \in Bucket \union {None}
               /\ Settle(limiters[c]) # None =>
                    Settle(limiters[c]).last \in 1..clock /\ Settle(limiters[c]).lastSeen \in 1..clock
    <3>1. CASE limiters[c] = None
      BY <3>1 DEF Settle
    <3>2. CASE limiters[c] # None
      <4> DEFINE n == Level(limiters[c], policy, clock)
      <4>1. /\ n \in Nat /\ clock \in Nat \ {0} /\ limiters[c] \in Bucket
            /\ limiters[c].lastSeen \in 1..clock
        BY <3>2, LevelFits, Numbers
      <4>2. Settle(limiters[c]) = [limiters[c] EXCEPT !.tokens = n, !.last = clock]
        BY <3>2 DEF Settle
      <4> HIDE DEF n
      <4>3. Settle(limiters[c]) \in Bucket
        BY <4>1, <4>2 DEF Bucket
      <4>4. /\ Settle(limiters[c]).last = clock
            /\ Settle(limiters[c]).lastSeen = limiters[c].lastSeen
        BY <4>1, <4>2 DEF Bucket
      <4> QED BY <4>1, <4>3, <4>4
    <3> QED BY <3>1, <3>2
  <2>2. \/ UNCHANGED <<policy, limiters>>
        \/ policy' = opts[r] /\ limiters' = [c \in Clients |-> Settle(limiters[c])]
    BY <1>2 DEF Retune
  <2>3. /\ pc' = [pc EXCEPT ![r] = "allow"]
        /\ UNCHANGED <<clock, offered, lastEvict, opts, client, outcome, served>>
    BY <1>2 DEF Retune
  <2>4. /\ policy' \in Policies \union {NoPolicy}
        /\ limiters' \in [Clients -> Bucket \union {None}]
        /\ \A c \in Clients : limiters'[c] # None =>
             limiters'[c].last \in 1..clock /\ limiters'[c].lastSeen \in 1..clock
    BY <2>1, <2>2 DEF TypeOK
  <2> QED BY <2>3, <2>4 DEF TypeOK
<1>3. ASSUME NEW r \in Requests, Allow(r)
      PROVE  TypeOK'
  <2> DEFINE c == client[r]
  <2>1. c \in Clients /\ clock \in Nat \ {0} /\ Cost \in Nat
    BY RateLimiterAssumption DEF TypeOK
  <2>2. Level(BucketOf(c), policy, clock) \in Nat
    BY <2>1, AllowFits
  <2>3. Charged(r) \in Bucket /\ Charged(r).last = clock /\ Charged(r).lastSeen = clock
    BY <2>1, <2>2 DEF Charged, Bucket
  <2>4. limiters' = [d \in Clients |-> IF d = c THEN Charged(r) ELSE Kept(d)]
    BY <1>3 DEF Allow, Charged
  <2>5. \A d \in Clients : Kept(d) = limiters[d] \/ Kept(d) = None
    BY DEF Kept
  <2>6. limiters' \in [Clients -> Bucket \union {None}]
    BY <2>3, <2>4, <2>5 DEF TypeOK
  <2>7. \A d \in Clients : limiters'[d] # None =>
          limiters'[d].last \in 1..clock /\ limiters'[d].lastSeen \in 1..clock
    BY <2>1, <2>3, <2>4, <2>5 DEF TypeOK
  <2>8. lastEvict' \in 1..clock
    BY <1>3, <2>1 DEF Allow, TypeOK
  <2>9. /\ pc' \in [Requests -> {"idle", "retune", "allow", "done"}]
        /\ outcome' \in [Requests -> {"none", "admitted", "refused"}]
        /\ served' \in [Clients -> Nat]
        /\ UNCHANGED <<clock, policy, offered, opts, client>>
    BY <1>3, <2>1 DEF Allow, TypeOK
  <2> QED BY <2>6, <2>7, <2>8, <2>9 DEF TypeOK
<1>4. ASSUME NEW p \in Policies, ChangePolicy(p)
      PROVE  TypeOK'
  BY <1>4 DEF TypeOK, ChangePolicy, limitVars
<1>5. CASE Tick
  <2>1. clock' = clock + 1 /\ UNCHANGED <<offered, limitVars, requestVars>>
    BY <1>5 DEF Tick
  <2>2. clock \in Nat \ {0} /\ \A n : n \in 1..clock => n \in 1..clock'
    BY <2>1 DEF TypeOK
  <2> QED BY <2>1, <2>2 DEF limitVars, requestVars, TypeOK
<1>6. CASE UNCHANGED vars
  BY <1>6 DEF vars, limitVars, requestVars, TypeOK
<1> QED BY <1>1, <1>2, <1>3, <1>4, <1>5, <1>6 DEF Next

\* Every step keeps the budget.
LEMMA BudgetStep ==
  ASSUME Regained, TypeOK, BudgetInv, [Next]_vars
  PROVE  BudgetInv'
<1> DEFINE Fits(l, n, t) ==
      IF l = None THEN Cost * n <= MostRate * (t - 1)
      ELSE /\ Cost * n + l.tokens <= MostBurst + MostRate * (l.last - 1)
           /\ Cost * n <= MostBurst + MostRate * (l.lastSeen - 1)
<1> SUFFICES ASSUME NEW c \in Clients
             PROVE  Fits(limiters'[c], served'[c], clock')
  BY DEF BudgetInv
<1>0. Fits(limiters[c], served[c], clock)
  BY DEF BudgetInv
<1>1. ASSUME UNCHANGED <<limiters, served, clock>>
      PROVE  Fits(limiters'[c], served'[c], clock')
  BY <1>0, <1>1
<1> HIDE DEF Fits
<1>2. ASSUME NEW r \in Requests, CallProvider(r)
      PROVE  Fits(limiters'[c], served'[c], clock')
  BY <1>1, <1>2 DEF CallProvider, limitVars
<1>3. ASSUME NEW r \in Requests, Retune(r)
      PROVE  Fits(limiters'[c], served'[c], clock')
  <2>1. UNCHANGED <<served, clock>>
    BY <1>3 DEF Retune
  <2>2. CASE UNCHANGED limiters
    BY <1>1, <2>1, <2>2
  <2>3. CASE limiters' = [d \in Clients |-> Settle(limiters[d])]
    <3>1. limiters'[c] = Settle(limiters[c])
      BY <2>3
    <3>2. CASE limiters[c] = None
      BY <1>0, <2>1, <3>1, <3>2 DEF Settle
    <3>3. CASE limiters[c] # None
      <4> DEFINE n == Level(limiters[c], policy, clock)
      <4>1. limiters[c] \in Bucket
        BY <3>3, Numbers
      <4>2. /\ limiters'[c].tokens = n /\ limiters'[c].last = clock
            /\ limiters'[c].lastSeen = limiters[c].lastSeen
        BY <3>1, <3>3, <4>1 DEF Settle, Bucket
      <4>3. Cost * served[c] + n <= MostBurst + MostRate * (clock - 1)
        BY <3>3, LevelFits
      <4>4. Cost * served[c] <= MostBurst + MostRate * (limiters[c].lastSeen - 1)
        BY <1>0, <3>3 DEF Fits
      <4>5. limiters'[c] # None
        <5>1. n \in Nat /\ clock \in Nat
          BY <3>3, LevelFits, Numbers
        <5>2. limiters'[c] \in Bucket
          <6>1. limiters'[c] = [limiters[c] EXCEPT !.tokens = n, !.last = clock]
            BY <3>1, <3>3 DEF Settle
          <6> HIDE DEF n
          <6> QED BY <4>1, <5>1, <6>1 DEF Bucket
        <5> QED BY <5>2, NoneAssumption
      <4> HIDE DEF n
      <4> QED BY <2>1, <4>2, <4>3, <4>4, <4>5 DEF Fits
    <3> QED BY <3>2, <3>3
  <2> QED BY <1>3, <2>2, <2>3 DEF Retune
<1>4. ASSUME NEW r \in Requests, Allow(r)
      PROVE  Fits(limiters'[c], served'[c], clock')
  <2>0. clock' = clock /\ client[r] \in Clients
    BY <1>4 DEF Allow, TypeOK
  <2>1. limiters' = [d \in Clients |-> IF d = client[r] THEN Charged(r) ELSE Kept(d)]
    BY <1>4 DEF Allow, Charged
  <2>2. CASE c # client[r]
    <3>1. limiters'[c] = Kept(c) /\ served'[c] = served[c]
      BY <1>4, <2>1, <2>2 DEF Allow, TypeOK
    <3>2. CASE Kept(c) = None
      BY <2>0, <3>1, <3>2, SweptFits DEF Fits
    <3>3. CASE Kept(c) # None
      BY <1>0, <2>0, <3>1, <3>3 DEF Kept
    <3> QED BY <3>2, <3>3
  <2>3. CASE c = client[r]
    <3> DEFINE n == Level(BucketOf(c), policy, clock)
               left == IF n >= Cost THEN n - Cost ELSE n
               spent == Cost * served[c]
               z == MostRate * (clock - 1)
    <3>1. n \in Nat /\ spent + n <= MostBurst + z
      BY AllowFits
    <3>2. limiters'[c] = [tokens |-> left, last |-> clock, lastSeen |-> clock]
      BY <2>1, <2>3 DEF Charged
    <3>3. served'[c] = IF n >= Cost THEN served[c] + 1 ELSE served[c]
      BY <1>4, <2>3 DEF Allow, TypeOK
    <3>4. /\ spent \in Nat /\ Cost * (served[c] + 1) = spent + Cost
          /\ Cost \in Nat /\ clock \in Nat \ {0} /\ MostBurst \in Nat /\ MostRate \in Nat
      BY Numbers
    <3>5. Cost * served'[c] = IF n >= Cost THEN spent + Cost ELSE spent
      BY <3>3, <3>4
    <3>6. z \in Nat
      BY <3>4, Stretch
    <3> HIDE DEF n, spent, z
    <3>7. left \in Nat
      BY <3>1, <3>4
    <3>8. /\ Cost * served'[c] + left <= MostBurst + z
          /\ Cost * served'[c] <= MostBurst + z
      BY <3>1, <3>4, <3>5, <3>6
    <3> HIDE DEF left
    <3>9. limiters'[c] # None
      BY <3>2, <3>4, <3>7, NoneAssumption DEF Bucket
    <3>10. /\ limiters'[c].tokens = left /\ limiters'[c].last = clock
           /\ limiters'[c].lastSeen = clock
      BY <3>2
    <3> QED BY <3>8, <3>9, <3>10 DEF Fits, z
  <2> QED BY <2>2, <2>3
<1>5. ASSUME NEW p \in Policies, ChangePolicy(p)
      PROVE  Fits(limiters'[c], served'[c], clock')
  BY <1>1, <1>5 DEF ChangePolicy, limitVars
<1>6. CASE Tick
  <2>1. clock' = clock + 1 /\ UNCHANGED <<limiters, served>>
    BY <1>6 DEF Tick, limitVars, requestVars
  <2>2. CASE limiters[c] # None
    BY <1>0, <2>1, <2>2 DEF Fits
  <2>3. CASE limiters[c] = None
    <3> DEFINE spent == Cost * served[c]
               z == MostRate * (clock - 1)
               y == MostRate * (clock' - 1)
    <3>1. /\ spent \in Nat /\ clock \in Nat \ {0} /\ MostRate \in Nat /\ spent <= z
      BY <1>0, <2>3, Numbers DEF Fits
    <3>2. z \in Nat /\ MostRate * (clock' - clock) \in Nat
          /\ y = z + MostRate * (clock' - clock)
      BY <2>1, <3>1, Stretch
    <3> DEFINE x == MostRate * (clock' - clock)
    <3>3. x \in Nat /\ y = z + x
      BY <3>2
    <3> HIDE DEF spent, x, y, z
    <3>4. spent <= y
      BY <3>1, <3>2, <3>3
    <3> QED BY <2>1, <2>3, <3>4 DEF Fits, spent, y
  <2> QED BY <2>2, <2>3
<1>7. CASE UNCHANGED vars
  BY <1>1, <1>7 DEF vars, limitVars, requestVars
<1> QED BY <1>2, <1>3, <1>4, <1>5, <1>6, <1>7 DEF Next

\* However often the policy is switched, also between the two critical sections of
\* a request, and whatever is evicted: no client is admitted beyond one full bucket
\* of the largest burst and the fastest sustained refill, provided that refill
\* regains that burst within the idle timeout (rate_limit.go:23-28, 136-143).
THEOREM AdmissionBounded ==
  ASSUME Regained
  PROVE  Spec => []BoundedAdmission
<1>1. Init => TypeOK /\ BudgetInv
  <2> SUFFICES ASSUME Init PROVE TypeOK /\ BudgetInv
    OBVIOUS
  <2>1. TypeOK
    BY DEF Init, TypeOK, NoPolicy
  <2>2. Cost * 0 = 0 /\ MostRate * (1 - 1) = 0
    BY MostIsMost, RateLimiterAssumption
  <2>3. \A c \in Clients : limiters[c] = None /\ served[c] = 0 /\ clock = 1
    BY DEF Init
  <2>4. \A c \in Clients : Cost * served[c] = 0 /\ MostRate * (clock - 1) = 0
    BY <2>2, <2>3
  <2> QED BY <2>1, <2>3, <2>4 DEF BudgetInv
<1>2. TypeOK /\ BudgetInv /\ [Next]_vars => TypeOK' /\ BudgetInv'
  BY TypeStep, BudgetStep
<1>3. TypeOK /\ BudgetInv => BoundedAdmission
  <2> SUFFICES ASSUME TypeOK, BudgetInv, NEW c \in Clients
               PROVE  Cost * served[c] <= MostBurst + MostRate * (clock - 1)
    BY DEF BoundedAdmission
  <2> DEFINE spent == Cost * served[c]
             z == MostRate * (clock - 1)
  <2>1. /\ spent \in Nat /\ clock \in Nat \ {0} /\ MostRate \in Nat /\ MostBurst \in Nat
    BY Numbers
  <2>2. z \in Nat
    BY <2>1, Stretch
  <2>3. CASE limiters[c] = None
    <3>1. spent <= z
      BY <2>3 DEF BudgetInv
    <3> HIDE DEF spent, z
    <3>2. spent <= MostBurst + z
      BY <2>1, <2>2, <3>1
    <3> QED BY <3>2 DEF spent, z
  <2>4. CASE limiters[c] # None
    <3> DEFINE n == Level(limiters[c], policy, clock)
    <3>1. n \in Nat /\ spent + n <= MostBurst + z
      BY <2>4, LevelFits
    <3> HIDE DEF spent, z, n
    <3>2. spent <= MostBurst + z
      BY <2>1, <2>2, <3>1
    <3> QED BY <3>2 DEF spent, z
  <2> QED BY <2>3, <2>4
<1> QED BY <1>1, <1>2, <1>3, PTL DEF Spec
=============================================================================
