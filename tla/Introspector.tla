----------------------------- MODULE Introspector -----------------------------
(***************************************************************************)
(* oidcauth.Introspector: RFC 7662 introspection with a cache of positive  *)
(* results, concurrent calls for one token coalesced into one HTTP request *)
(* (src/oidcauth/introspection.go).  The request, the issuer's evaluation  *)
(* of it, the arrival of the answer and the storing of the result by each  *)
(* waiting caller are separate steps, so revocations, ClearCache, evictions*)
(* and other calls can fall in between.                                    *)
(*                                                                         *)
(* singleflight.Group is external: a key has at most one flight, which is  *)
(* forgotten in the same step in which its result reaches its waiters.     *)
(* Time is a counter and 0 is the zero time.                               *)
(***************************************************************************)
EXTENDS Naturals

CONSTANTS
  Tokens,      \* access tokens
  Calls,       \* Introspect calls
  None,        \* no entry, no flight, no result
  CacheTTL,    \* IntrospectorConfig.CacheTTL, 0 disables the cache
  HTTPTimeout, \* time.Duration the HTTP client allows a request
  Expiry,      \* the tokens' own expiry times
  JWTs,        \* the tokens whose expiry the caller read locally (knownExpiry)
  ReportsExp,  \* the tokens for which the issuer's answer carries "exp"
  Closes,      \* whether the application closes the Introspector
  MaxTime      \* bound on the clock

ASSUME IntrospectorAssumption ==
  /\ CacheTTL \in Nat /\ HTTPTimeout \in Nat \ {0} /\ MaxTime \in Nat
  /\ Expiry \in [Tokens -> Nat \ {0}] /\ ReportsExp \subseteq Tokens
  /\ JWTs \subseteq Tokens /\ Closes \in BOOLEAN

VARIABLES
  clock,
  active,    \* issuer: token -> neither revoked nor disabled
  entries,   \* the cache: token -> entry
  flight,    \* token -> the request under way
  janitor,   \* the eviction goroutine: "off", "running", "stopped"
  closer,    \* Close: "no", "waiting", "returned"
  pc, token, \* a call: where it is, and its token
  result,    \* a call: what it received from its flight or from the cache
  servedAt,  \* history: when the call received it
  settled,   \* history: at its start the token was inactive and nothing said otherwise
  doomed,    \* history: at its start its token was in cut
  cut        \* history: the tokens inactive, and without a positive answer on its
             \* way, at some ClearCache

cacheVars == <<entries, flight>>
closeVars == <<janitor, closer>>
callVars == <<pc, token, result, servedAt, settled, doomed>>
vars == <<clock, active, cacheVars, closeVars, callVars, cut>>

-----------------------------------------------------------------------------
\* A positive result: until when it may be cached (0: not at all), and when
\* the issuer evaluated the token.
Positive == [expiresAt : Nat, evalAt : Nat]
Failed == [expiresAt |-> 0, evalAt |-> 0]

\* A request: when it was sent, what the issuer found, and when.
Flight == [sentAt : Nat, state : {"sent", "active", "inactive"}, evalAt : Nat]

ASSUME NoneAssumption == None \notin Flight \union Positive

\* The knownExpiry a caller passes: zero for an opaque token.
KnownExpiry(t) == IF t \in JWTs THEN Expiry[t] ELSE 0

Begun == {"join", "wait", "got"}
Finished == {"ok", "error", "cancelled"}

\* Mutant: the token's own expiry is ignored.
EffectiveExpiry_TTLOnly(knownExpiry, exp, t) == IF CacheTTL = 0 THEN 0 ELSE t + CacheTTL

\* The shortest of now + CacheTTL, the caller's knowledge and the answer's
\* exp; zero (do not cache) if that is not in the future.
EffectiveExpiry(knownExpiry, exp, t) ==
  LET bounds == {t + CacheTTL} \union ({knownExpiry, exp} \ {0})
      shortest == CHOOSE b \in bounds : \A o \in bounds : b <= o
  IN IF CacheTTL = 0 \/ shortest <= t THEN 0 ELSE shortest

\* A positive answer that is on its way into the cache.
PositivePending(t) ==
  \/ flight[t] # None /\ flight[t].state = "active"
  \/ \E c \in Calls : pc[c] = "got" /\ token[c] = t /\ result[c] # Failed

Init ==
  /\ clock = 1
  /\ active = [t \in Tokens |-> TRUE]
  /\ entries = [t \in Tokens |-> None]
  /\ flight = [t \in Tokens |-> None]
  /\ janitor = IF CacheTTL > 0 THEN "running" ELSE "off"
  /\ closer = "no"
  /\ pc = [c \in Calls |-> "idle"]
  /\ token \in [Calls -> Tokens]
  /\ result = [c \in Calls |-> Failed]
  /\ servedAt = [c \in Calls |-> 0]
  /\ settled = [c \in Calls |-> FALSE]
  /\ doomed = [c \in Calls |-> FALSE]
  /\ cut = {}

Goto(c, place) == pc' = [pc EXCEPT ![c] = place]

\* lookup's test.
Fresh(t) == entries[t] # None /\ clock < entries[t].expiresAt

-----------------------------------------------------------------------------
(* Introspect. *)

\* The start of a call, up to and including lookup.
Introspect(c) ==
  LET t == token[c] IN
  /\ pc[c] = "idle"
  /\ settled' = [settled EXCEPT ![c] = ~active[t] /\ ~Fresh(t) /\ ~PositivePending(t)]
  /\ doomed' = [doomed EXCEPT ![c] = t \in cut]
  /\ \/ /\ CacheTTL > 0 /\ Fresh(t)
        /\ result' = [result EXCEPT ![c] = entries[t]]
        /\ servedAt' = [servedAt EXCEPT ![c] = clock]
        /\ Goto(c, "ok")
     \/ /\ ~(CacheTTL > 0 /\ Fresh(t))
        /\ Goto(c, "join")
        /\ UNCHANGED <<result, servedAt>>
  /\ UNCHANGED <<clock, active, cacheVars, closeVars, token, cut>>

\* An empty token is refused before anything else.
IntrospectEmpty(c) ==
  /\ pc[c] = "idle"
  /\ Goto(c, "error")
  /\ UNCHANGED <<clock, active, cacheVars, closeVars, token, result, servedAt,
                 settled, doomed, cut>>

\* sf.DoChan: share the token's flight, or start one.
Join(c) ==
  LET t == token[c] IN
  /\ pc[c] = "join"
  /\ flight' = IF flight[t] # None THEN flight
               ELSE [flight EXCEPT ![t] = [sentAt |-> clock, state |-> "sent", evalAt |-> 0]]
  /\ Goto(c, "wait")
  /\ UNCHANGED <<clock, active, entries, closeVars, token, result, servedAt,
                 settled, doomed, cut>>

\* The issuer evaluates the token.
IssuerEvaluates(t) ==
  /\ flight[t] # None /\ flight[t].state = "sent"
  /\ flight' = [flight EXCEPT ![t].state = IF active[t] /\ clock < Expiry[t]
                                           THEN "active" ELSE "inactive",
                              ![t].evalAt = clock]
  /\ UNCHANGED <<clock, active, entries, closeVars, callVars, cut>>

\* The flight ends with res: every waiter's channel receives it, and the
\* next call will start a new flight.
Land(t, res) ==
  LET waiting(c) == pc[c] = "wait" /\ token[c] = t IN
  /\ flight' = [flight EXCEPT ![t] = None]
  /\ pc' = [c \in Calls |-> IF waiting(c) THEN "got" ELSE pc[c]]
  /\ result' = [c \in Calls |-> IF waiting(c) THEN res ELSE result[c]]
  /\ servedAt' = [c \in Calls |-> IF waiting(c) THEN clock ELSE servedAt[c]]
  /\ UNCHANGED <<clock, active, entries, closeVars, token, settled, doomed, cut>>

\* doIntrospect returns what the issuer answered.
AnswerArrives(t) ==
  /\ flight[t] # None
  /\ \/ /\ flight[t].state = "active"
        /\ Land(t, [expiresAt |-> EffectiveExpiry(KnownExpiry(t),
                                    IF t \in ReportsExp THEN Expiry[t] ELSE 0, clock),
                    evalAt |-> flight[t].evalAt])
     \/ /\ flight[t].state = "inactive"
        /\ Land(t, Failed)

\* doIntrospect fails: network, status, body, or the client's timeout.
RequestFails(t) ==
  /\ flight[t] # None
  /\ Land(t, Failed)

\* Mutant: the lifetime of an entry counts from when it is stored.
Receive_LateLifetime(c) ==
  /\ pc[c] = "got"
  /\ Goto(c, IF result[c] = Failed THEN "error" ELSE "ok")
  /\ entries' = IF result[c] = Failed \/ CacheTTL = 0 THEN entries
                ELSE [entries EXCEPT ![token[c]] = [result[c] EXCEPT !.expiresAt = clock + CacheTTL]]
  /\ UNCHANGED <<clock, active, flight, closeVars, token, result, servedAt,
                 settled, doomed, cut>>

\* Mutant: an unreachable issuer is taken for consent.
Receive_FailOpen(c) ==
  /\ pc[c] = "got"
  /\ Goto(c, "ok")
  /\ UNCHANGED <<clock, active, cacheVars, closeVars, token, result, servedAt,
                 settled, doomed, cut>>

\* Mutant: a result that must not be cached is stored all the same.
Receive_StoresZero(c) ==
  /\ pc[c] = "got"
  /\ Goto(c, IF result[c] = Failed THEN "error" ELSE "ok")
  /\ entries' = IF CacheTTL > 0 /\ result[c] # Failed
                THEN [entries EXCEPT ![token[c]] = result[c]] ELSE entries
  /\ UNCHANGED <<clock, active, flight, closeVars, token, result, servedAt,
                 settled, doomed, cut>>

\* The waiter takes the result off its channel, stores it if it may be
\* cached, and returns.
Receive(c) ==
  /\ pc[c] = "got"
  /\ Goto(c, IF result[c] = Failed THEN "error" ELSE "ok")
  /\ entries' = IF CacheTTL > 0 /\ result[c].expiresAt # 0
                THEN [entries EXCEPT ![token[c]] = result[c]] ELSE entries
  /\ UNCHANGED <<clock, active, flight, closeVars, token, result, servedAt,
                 settled, doomed, cut>>

\* Mutant: the shared request runs on the cancelled caller's context.
Cancel_AbortsFlight(c) ==
  /\ pc[c] \in {"wait", "got"}
  /\ Goto(c, "cancelled")
  /\ flight' = [flight EXCEPT ![token[c]] = None]
  /\ UNCHANGED <<clock, active, entries, closeVars, token, result, servedAt,
                 settled, doomed, cut>>

\* The caller's context ends while it waits: it leaves the flight alone.
Cancel(c) ==
  /\ pc[c] \in {"wait", "got"}
  /\ Goto(c, "cancelled")
  /\ UNCHANGED <<clock, active, cacheVars, closeVars, token, result, servedAt,
                 settled, doomed, cut>>

-----------------------------------------------------------------------------
(* Cache maintenance. *)

\* Mutant: only expired entries are dropped.
ClearCache_Expired ==
  /\ entries' = [t \in Tokens |-> IF Fresh(t) THEN entries[t] ELSE None]
  /\ cut' = cut \union {t \in Tokens : ~active[t] /\ ~PositivePending(t)}
  /\ UNCHANGED <<clock, active, flight, closeVars, callVars>>

ClearCache ==
  /\ entries' = [t \in Tokens |-> None]
  /\ cut' = cut \union {t \in Tokens : ~active[t] /\ ~PositivePending(t)}
  /\ UNCHANGED <<clock, active, flight, closeVars, callVars>>

\* Mutant: the sweep compares the wrong way round.
Evict_Live ==
  /\ janitor = "running"
  /\ \E t \in Tokens : Fresh(t)
  /\ entries' = [t \in Tokens |-> IF Fresh(t) THEN None ELSE entries[t]]
  /\ UNCHANGED <<clock, active, flight, closeVars, callVars, cut>>

\* One tick of runCleanup.
Evict ==
  /\ janitor = "running"
  /\ \E t \in Tokens : entries[t] # None /\ ~Fresh(t)
  /\ entries' = [t \in Tokens |-> IF Fresh(t) THEN entries[t] ELSE None]
  /\ UNCHANGED <<clock, active, flight, closeVars, callVars, cut>>

\* Close: the stop channel is closed once, then the goroutine is awaited.
Close ==
  /\ Closes /\ closer = "no"
  /\ closer' = "waiting"
  /\ UNCHANGED <<clock, active, cacheVars, janitor, callVars, cut>>

\* Mutant: the goroutine ends without telling the wait group.
JanitorStops_NoDone ==
  /\ janitor = "running" /\ closer # "no"
  /\ janitor' = "gone"
  /\ UNCHANGED <<clock, active, cacheVars, closer, callVars, cut>>

\* runCleanup sees the closed stop channel.
JanitorStops ==
  /\ janitor = "running" /\ closer # "no"
  /\ janitor' = "stopped"
  /\ UNCHANGED <<clock, active, cacheVars, closer, callVars, cut>>

CloseReturns ==
  /\ closer = "waiting" /\ janitor \in {"off", "stopped"}
  /\ closer' = "returned"
  /\ UNCHANGED <<clock, active, cacheVars, janitor, callVars, cut>>

-----------------------------------------------------------------------------
(* The surroundings. *)

Revoke(t) ==
  /\ active[t]
  /\ active' = [active EXCEPT ![t] = FALSE]
  /\ UNCHANGED <<clock, cacheVars, closeVars, callVars, cut>>

\* The HTTP client does not let a request outlast its timeout.
Tick ==
  /\ clock < MaxTime
  /\ \A t \in Tokens : flight[t] # None => clock < flight[t].sentAt + HTTPTimeout
  /\ clock' = clock + 1
  /\ UNCHANGED <<active, cacheVars, closeVars, callVars, cut>>

Flying(t) == IssuerEvaluates(t) \/ AnswerArrives(t) \/ RequestFails(t)

CallStep(c) == Join(c) \/ Receive(c) \/ Cancel(c)

\* What happens around the calls.
Environment ==
  \/ \E t \in Tokens : Flying(t) \/ Revoke(t)
  \/ Evict
  \/ Close \/ JanitorStops \/ CloseReturns
  \/ Tick

Next ==
  \/ \E c \in Calls : Introspect(c) \/ IntrospectEmpty(c) \/ CallStep(c)
  \/ ClearCache
  \/ Environment

Spec == Init /\ [][Next]_vars

\* Goroutines run, the HTTP client returns by its timeout, the ticker fires.
\* Cancelling and closing are up to the caller.
Fairness ==
  /\ WF_vars(Tick) /\ WF_vars(Evict) /\ WF_vars(JanitorStops) /\ WF_vars(CloseReturns)
  /\ \A c \in Calls : WF_vars(Join(c) \/ Receive(c))
  /\ \A t \in Tokens : WF_vars(AnswerArrives(t) \/ RequestFails(t))

FairSpec == Spec /\ Fairness

-----------------------------------------------------------------------------
(* Properties. *)

\* Every variable has its type; what is cached has a lifetime.
TypeOK ==
  /\ clock \in Nat \ {0}
  /\ active \in [Tokens -> BOOLEAN]
  /\ entries \in [Tokens -> [expiresAt : Nat \ {0}, evalAt : Nat] \union {None}]
  /\ flight \in [Tokens -> Flight \union {None}]
  /\ janitor \in {"off", "running", "stopped"}
  /\ closer \in {"no", "waiting", "returned"}
  /\ pc \in [Calls -> {"idle"} \union Begun \union Finished]
  /\ token \in [Calls -> Tokens]
  /\ result \in [Calls -> Positive]
  /\ servedAt \in [Calls -> Nat]
  /\ settled \in [Calls -> BOOLEAN]
  /\ doomed \in [Calls -> BOOLEAN]
  /\ cut \subseteq Tokens

\* A call succeeds only on the strength of an evaluation by the issuer that
\* is at most CacheTTL + HTTPTimeout old, whoever made the request and
\* however long a waiter took to store it: this bounds how long a revocation
\* goes unnoticed (introspection.go:166-169, and :424-437 for the lookup).
BoundedStaleness ==
  \A c \in Calls : pc[c] = "ok" =>
    /\ result[c].evalAt # 0
    /\ servedAt[c] <= result[c].evalAt + CacheTTL + HTTPTimeout

\* A cached result does not outlive the token if anybody knows the token's
\* expiry, the issuer or the caller (types.go:110).
NoEntryOutlivesToken ==
  \A t \in ReportsExp \union JWTs : entries[t] # None =>
    entries[t].expiresAt <= Expiry[t]

\* A call that starts on an inactive token, when no positive answer is cached
\* or on its way into the cache, is refused: nothing else can vouch for it.
InactiveIsNoticed ==
  \A c \in Calls : settled[c] => pc[c] # "ok"

\* ClearCache "is the escape hatch for a bulk revocation that must take effect
\* before the TTL elapses" (oidcauth/README.md:388): a call that starts after
\* it is not told that a token revoked before it is active.  The exception is
\* a positive answer already on its way, which is stored into the cleared
\* cache (introspection.go:296, 305-314).
ClearCacheTakesEffect ==
  \A c \in Calls : doomed[c] => pc[c] # "ok"

\* Every call returns, also when the caller whose request it shares cancels.
CallsReturn ==
  \A c \in Calls : pc[c] \in Begun ~> pc[c] \in Finished

\* Close returns.
CloseTerminates == closer = "waiting" ~> closer = "returned"

\* While the goroutine runs, an expired entry does not stay in memory.
ExpiredEntriesGo ==
  \A t \in Tokens :
    (entries[t] # None /\ ~Fresh(t) /\ closer = "no")
      ~> (entries[t] = None \/ Fresh(t) \/ closer # "no")

\* The state of the introspector is well formed and no cached answer outlives its
\* token, whatever calls, sweeps and clearings interleave (introspection.go:296-299,
\* 380-406).
CacheSound == TypeOK /\ NoEntryOutlivesToken

\* What begins ends: calls return, Close returns once the eviction goroutine has
\* ended, and expired entries are swept (introspection.go:282-303, 316-324, 424-451).
EverythingEnds == CallsReturn /\ CloseTerminates /\ ExpiredEntriesGo
=============================================================================
