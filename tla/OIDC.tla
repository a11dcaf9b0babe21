--------------------------------- MODULE OIDC ---------------------------------
(***************************************************************************)
(* oidcauth.OIDC.Verify (src/oidcauth/oidc.go): the optional MemoryCache   *)
(* of verified claims (src/oidcauth/cache.go) in front of local JWT        *)
(* verification and the Introspector.  Every call of Introspector is made  *)
(* by one Verify call, its caller.                                         *)
(***************************************************************************)
EXTENDS Introspector

CONSTANTS
  CacheDuration,        \* NewMemoryCache's duration, 0: no WithCache option
  DisableIntrospection  \* the settings of Config.DisableIntrospection to consider

ASSUME OIDCAssumption ==
  CacheDuration \in Nat /\ DisableIntrospection \subseteq BOOLEAN

VARIABLES
  disabled,  \* Config.DisableIntrospection, fixed when OIDC is built
  memory,    \* MemoryCache.entries: token -> entry
  vpc,       \* a Verify call: where it is
  vnow,      \* a Verify call: the time it read when it began
  evidence   \* history: when the issuer last vouched for what the call returns

verifyVars == <<disabled, memory, vpc, vnow, evidence>>
allVars == <<vars, verifyVars>>

VInit ==
  /\ Init
  /\ disabled \in DisableIntrospection
  /\ memory = [t \in Tokens |-> None]
  /\ vpc = [c \in Calls |-> "idle"]
  /\ vnow = [c \in Calls |-> 0]
  /\ evidence = [c \in Calls |-> 0]

VGoto(c, place) == vpc' = [vpc EXCEPT ![c] = place]

\* The exp claim Verify ends up with: the JWT's own, or the introspected one.
ClaimsExp(t) == IF t \in JWTs \union ReportsExp THEN Expiry[t] ELSE 0

\* Mutant: an absent exp claim is read as the epoch.
MemoryExpiry_ZeroExp(t, now) ==
  IF ClaimsExp(t) < now + CacheDuration THEN ClaimsExp(t) ELSE now + CacheDuration

\* MemoryCache.expiry.
MemoryExpiry(t, now) ==
  IF ClaimsExp(t) # 0 /\ ClaimsExp(t) < now + CacheDuration
  THEN ClaimsExp(t) ELSE now + CacheDuration

\* Mutant: an entry still counts at its expiry.
Cached_Inclusive(t, now) == memory[t] # None /\ now <= memory[t].expiresAt

\* MemoryCache.Get.
Cached(t, now) == memory[t] # None /\ now < memory[t].expiresAt

-----------------------------------------------------------------------------
\* Verify reads the clock and the cache, and on a miss checks a JWT locally.
Verify(c) ==
  LET t == token[c] IN
  /\ vpc[c] = "idle"
  /\ vnow' = [vnow EXCEPT ![c] = clock]
  /\ \/ /\ Cached(t, clock)
        /\ evidence' = [evidence EXCEPT ![c] = memory[t].evalAt]
        /\ VGoto(c, "ok")
     \/ /\ ~Cached(t, clock)
        /\ UNCHANGED evidence
        /\ \/ /\ t \in JWTs => clock < Expiry[t]
              /\ VGoto(c, CASE ~disabled -> "introspect"
                            [] disabled /\ t \in JWTs -> "set"
                            [] OTHER -> "error")
           \/ /\ t \in JWTs  \* signature, issuer, audience or expiry refused
              /\ VGoto(c, "error")
  /\ UNCHANGED <<vars, disabled, memory>>

\* Introspector.Introspect runs on behalf of c.
CallIntrospector(c) ==
  /\ vpc[c] = "introspect"
  /\ Introspect(c) \/ CallStep(c)
  /\ UNCHANGED verifyVars

\* Its outcome decides.
Introspected(c) ==
  /\ vpc[c] = "introspect"
  /\ pc[c] \in Finished
  /\ evidence' = [evidence EXCEPT ![c] = IF pc[c] = "ok" THEN result[c].evalAt ELSE 0]
  /\ VGoto(c, IF pc[c] = "ok" THEN "set" ELSE "error")
  /\ UNCHANGED <<vars, disabled, memory, vnow>>

\* Mutant: the entry's lifetime starts when it is stored.
CacheSet_LateLifetime(c) ==
  /\ vpc[c] = "set"
  /\ memory' = IF CacheDuration = 0 THEN memory
               ELSE [memory EXCEPT ![token[c]] =
                       [expiresAt |-> MemoryExpiry(token[c], clock), evalAt |-> evidence[c]]]
  /\ VGoto(c, "ok")
  /\ UNCHANGED <<vars, disabled, vnow, evidence>>

\* MemoryCache.Set with the time read at the start, then return.
CacheSet(c) ==
  /\ vpc[c] = "set"
  /\ memory' = IF CacheDuration = 0 THEN memory
               ELSE [memory EXCEPT ![token[c]] =
                       [expiresAt |-> MemoryExpiry(token[c], vnow[c]), evalAt |-> evidence[c]]]
  /\ VGoto(c, "ok")
  /\ UNCHANGED <<vars, disabled, vnow, evidence>>

\* MemoryCache.evict.
MemoryEvict ==
  /\ \E t \in Tokens : memory[t] # None /\ ~Cached(t, clock)
  /\ memory' = [t \in Tokens |-> IF Cached(t, clock) THEN memory[t] ELSE None]
  /\ UNCHANGED <<vars, disabled, vpc, vnow, evidence>>

\* Everything that is not a step of a Verify call (an OIDC value does not
\* expose its Introspector's ClearCache).
Surroundings ==
  /\ Environment
  /\ UNCHANGED <<disabled, memory, vpc, vnow, evidence>>

VNext ==
  \/ \E c \in Calls : Verify(c) \/ CallIntrospector(c) \/ Introspected(c) \/ CacheSet(c)
  \/ MemoryEvict
  \/ Surroundings

VSpec == VInit /\ [][VNext]_allVars

-----------------------------------------------------------------------------
(* Properties. *)

\* Every variable has its type, and a cached verification has a lifetime: a
\* missing exp claim is not taken for the epoch (cache.go:75-77).
VTypeOK ==
  /\ TypeOK
  /\ disabled \in DisableIntrospection
  /\ memory \in [Tokens -> [expiresAt : Nat \ {0}, evalAt : Nat] \union {None}]
  /\ vpc \in [Calls -> {"idle", "introspect", "set", "ok", "error"}]
  /\ vnow \in [Calls -> Nat]
  /\ evidence \in [Calls -> Nat]

\* The two caches stack: a Verify call that reads the clock at vnow accepts a
\* token on an evaluation by the issuer that is at most the sum of both
\* lifetimes and one request timeout old (oidc.go:181-233, cache.go:73-83).
StackedStaleness ==
  ~disabled =>
    \A c \in Calls : vpc[c] = "ok" =>
      /\ evidence[c] # 0
      /\ vnow[c] <= evidence[c] + CacheDuration + CacheTTL + HTTPTimeout

\* A Verify call that begins once the token has expired fails when anybody
\* knows that expiry, whichever of the two caches still holds the token; only
\* a request for an opaque token that was in flight at that time can still
\* vouch for it.
ExpiredTokenRefused ==
  \A c \in Calls : vpc[c] = "ok" =>
    /\ token[c] \in JWTs => vnow[c] < Expiry[token[c]]
    /\ token[c] \in ReportsExp => vnow[c] < Expiry[token[c]] + HTTPTimeout

\* The state of the verifier is well formed and no call that began after a token's
\* expiry accepts it from either cache (oidc.go:181-233, cache.go:47-83).
VerifySound == VTypeOK /\ ExpiredTokenRefused
=============================================================================
