----------------------------- MODULE RateLimiter -----------------------------
(***************************************************************************)
(* The per-client rate limit of src/httpserver/middlewares/rate_limit.go:  *)
(* token buckets created on demand, refilled lazily, retuned in place when *)
(* the policy changes, and evicted when their client has been idle.        *)
(*                                                                         *)
(* rate.Limiter (golang.org/x/time/rate) is external: a bucket is what it  *)
(* held when it was last advanced, and when that was.  Tokens are counted  *)
(* in fractions: a request costs Cost of them and a policy's rate is how   *)
(* many accrue per unit of time.  retune and allow are separate critical   *)
(* sections, so the steps of concurrent requests interleave between them.  *)
(***************************************************************************)
EXTENDS Naturals

CONSTANTS
  Clients,     \* client IPs
  Requests,    \* requests, each served once
  Policies,    \* what the provider may return: [rate, burst], in fractions
  HasProvider, \* RateLimitByIPProvider rather than RateLimitByIP
  Cost,        \* fractions per request
  IdleTimeout, \* rateLimitIdleTimeout
  None,        \* no bucket
  MaxTime      \* bound on the clock

ASSUME RateLimiterAssumption ==
  /\ Policies \subseteq [rate : Nat \ {0}, burst : Nat \ {0}]
  /\ HasProvider \in BOOLEAN
  /\ Cost \in Nat \ {0} /\ IdleTimeout \in Nat \ {0} /\ MaxTime \in Nat

VARIABLES
  clock,
  limiters,  \* client -> its bucket
  policy,    \* rps and burst in force, for every bucket
  lastEvict, \* when the last sweep ran
  offered,   \* what the provider returns now
  pc, opts,  \* a request: where it is, and the options its provider call returned
  client,    \* a request: who sent it
  outcome,   \* a request: what it was answered
  served     \* history: client -> requests admitted

limitVars == <<limiters, policy, lastEvict>>
requestVars == <<pc, opts, client, outcome, served>>
vars == <<clock, offered, limitVars, requestVars>>

-----------------------------------------------------------------------------
Policy == [rate : Nat, burst : Nat]
Bucket == [tokens : Nat, last : Nat, lastSeen : Nat]
\* newIPRateLimiter(0, 0): before the first call of the provider.
NoPolicy == [rate |-> 0, burst |-> 0]

ASSUME NoneAssumption == None \notin Bucket

CappedAt(n, burst) == IF n < burst THEN n ELSE burst

\* rate.Limiter.advance.
Level(b, p, t) == CappedAt(b.tokens + (t - b.last) * p.rate, p.burst)

\* rate.NewLimiter: a full bucket.
NewLimiter(p, t) == [tokens |-> p.burst, last |-> t, lastSeen |-> t]

Init ==
  /\ clock = 1
  /\ offered \in Policies
  /\ policy = IF HasProvider THEN NoPolicy ELSE offered
  /\ limiters = [c \in Clients |-> None]
  /\ lastEvict = 1
  /\ pc = [r \in Requests |-> "idle"]
  /\ opts = [r \in Requests |-> NoPolicy]
  /\ client \in [Requests -> Clients]
  /\ outcome = [r \in Requests |-> "none"]
  /\ served = [c \in Clients |-> 0]

-----------------------------------------------------------------------------
(* The middleware. *)

\* The provider is called; without one the request goes straight to allow.
CallProvider(r) ==
  /\ HasProvider /\ pc[r] = "idle"
  /\ opts' = [opts EXCEPT ![r] = offered]
  /\ pc' = [pc EXCEPT ![r] = "retune"]
  /\ UNCHANGED <<clock, offered, limitVars, client, outcome, served>>

\* SetLimit and SetBurst: settle the bucket under the policy it had.
Settle(b) ==
  IF b = None THEN None ELSE [b EXCEPT !.tokens = Level(b, policy, clock), !.last = clock]

\* Mutant: a changed policy starts over with fresh buckets.
Retune_Discard(r) ==
  /\ pc[r] = "retune"
  /\ IF policy = opts[r]
     THEN UNCHANGED <<policy, limiters>>
     ELSE /\ policy' = opts[r]
          /\ limiters' = [c \in Clients |-> None]
  /\ pc' = [pc EXCEPT ![r] = "allow"]
  /\ UNCHANGED <<clock, offered, lastEvict, opts, client, outcome, served>>

\* Adopt the request's options if they differ from those in force.
Retune(r) ==
  /\ pc[r] = "retune"
  /\ IF policy = opts[r]
     THEN UNCHANGED <<policy, limiters>>
     ELSE /\ policy' = opts[r]
          /\ limiters' = [c \in Clients |-> Settle(limiters[c])]
  /\ pc' = [pc EXCEPT ![r] = "allow"]
  /\ UNCHANGED <<clock, offered, lastEvict, opts, client, outcome, served>>

EvictDue == clock - lastEvict >= IdleTimeout

\* Mutant: the sweep clears the map.
Kept_Nothing(c) == IF EvictDue THEN None ELSE limiters[c]

\* evictIfDue: what is left of the map once idle buckets are swept.
Kept(c) ==
  IF EvictDue /\ limiters[c] # None /\ clock - limiters[c].lastSeen > IdleTimeout
  THEN None ELSE limiters[c]

\* The bucket allow works on.
BucketOf(c) == IF Kept(c) = None THEN NewLimiter(policy, clock) ELSE Kept(c)

\* allow: sweep if due, find or create the client's bucket, and charge it.
Allow(r) ==
  LET c == client[r]
      n == Level(BucketOf(c), policy, clock)
      ok == n >= Cost IN
  /\ pc[r] = IF HasProvider THEN "allow" ELSE "idle"
  /\ lastEvict' = IF EvictDue THEN clock ELSE lastEvict
  /\ limiters' = [d \in Clients |->
        IF d = c THEN [tokens |-> IF ok THEN n - Cost ELSE n, last |-> clock, lastSeen |-> clock]
        ELSE Kept(d)]
  /\ outcome' = [outcome EXCEPT ![r] = IF ok THEN "admitted" ELSE "refused"]
  /\ served' = [served EXCEPT ![c] = IF ok THEN @ + 1 ELSE @]
  /\ pc' = [pc EXCEPT ![r] = "done"]
  /\ UNCHANGED <<clock, offered, policy, opts, client>>

-----------------------------------------------------------------------------
(* The surroundings. *)

\* The application changes what the provider returns.
ChangePolicy(p) ==
  /\ HasProvider /\ p # offered
  /\ offered' = p
  /\ UNCHANGED <<clock, limitVars, pc, opts, client, outcome, served>>

Tick ==
  /\ clock < MaxTime
  /\ clock' = clock + 1
  /\ UNCHANGED <<offered, limitVars, requestVars>>

Next ==
  \/ \E r \in Requests : CallProvider(r) \/ Retune(r) \/ Allow(r)
  \/ \E p \in Policies : ChangePolicy(p)
  \/ Tick

Spec == Init /\ [][Next]_vars

-----------------------------------------------------------------------------
(* Properties. *)

\* Every variable has its type, and no bucket was settled or used in the
\* future or before its client was last seen.
TypeOK ==
  /\ clock \in Nat \ {0}
  /\ offered \in Policies
  /\ policy \in Policies \union {NoPolicy}
  /\ limiters \in [Clients -> Bucket \union {None}]
  /\ lastEvict \in 1..clock
  /\ pc \in [Requests -> {"idle", "retune", "allow", "done"}]
  /\ opts \in [Requests -> Policies \union {NoPolicy}]
  /\ client \in [Requests -> Clients]
  /\ outcome \in [Requests -> {"none", "admitted", "refused"}]
  /\ served \in [Clients -> Nat]
  /\ \A c \in Clients : limiters[c] # None =>
       limiters[c].last \in 1..clock /\ limiters[c].lastSeen \in 1..clock

\* The most generous figures of any policy in play.
MostRate == CHOOSE n \in {p.rate : p \in Policies} : \A p \in Policies : p.rate <= n
MostBurst == CHOOSE n \in {p.burst : p \in Policies} : \A p \in Policies : p.burst <= n

\* However often the policy is switched and whatever is evicted, no client is
\* admitted more often than one full bucket of the largest burst and the
\* fastest sustained refill allow (rate_limit.go:23-28, 136-143).
BoundedAdmission ==
  \A c \in Clients : Cost * served[c] <= MostBurst + MostRate * (clock - 1)

\* What a client's bucket holds: a client without one would get a full one.
LevelOf(c) ==
  IF limiters[c] = None THEN policy.burst ELSE Level(limiters[c], policy, clock)

\* With a fixed policy the map of lazily refilled and evicted buckets cannot
\* be told from one permanent bucket per client (rate_limit.go:91-122).
Buckets ==
  INSTANCE TokenBucket WITH Rate <- MostRate, Burst <- MostBurst,
                            level <- [c \in Clients |-> LevelOf(c)]

ImplementsBuckets == Buckets!Spec
=============================================================================
