------------------------------ MODULE OIDCProofs ------------------------------
(***************************************************************************)
(* Machine-checked proofs about Introspector and about OIDC, which drives  *)
(* it: for any tokens, any number of calls in flight, any lifetimes of the *)
(* two caches and any request timeout.                                     *)
(***************************************************************************)
EXTENDS OIDC, TLAPS

-----------------------------------------------------------------------------
(* The inductive invariant of the introspector. *)

\* A request is never older than the client's timeout, and the issuer's
\* evaluation falls between its sending and now.
FlightInv ==
  \A t \in Tokens : flight[t] # None =>
    /\ flight[t].sentAt <= clock
    /\ clock <= flight[t].sentAt + HTTPTimeout
    /\ flight[t].state # "sent" =>
         flight[t].evalAt # 0 /\ flight[t].sentAt <= flight[t].evalAt
    /\ flight[t].state = "active" => flight[t].evalAt < Expiry[t]

\* What a positive answer p for token t promises whoever caches it.
Bounded(p, t) ==
  /\ p.evalAt # 0
  /\ p.expiresAt <= p.evalAt + CacheTTL + HTTPTimeout
  /\ t \in ReportsExp \union JWTs => p.expiresAt <= Expiry[t]

\* Every cached answer keeps the promise.
EntryInv == \A t \in Tokens : entries[t] # None => Bounded(entries[t], t)

\* So does every answer a call holds, and the call received it soon enough
\* after the evaluation.
AnswerInv ==
  \A c \in Calls : pc[c] \in {"got", "ok"} /\ result[c] # Failed =>
    /\ Bounded(result[c], token[c])
    /\ servedAt[c] <= result[c].evalAt + CacheTTL + HTTPTimeout
    /\ token[c] \in ReportsExp \union JWTs =>
         servedAt[c] < Expiry[token[c]] + HTTPTimeout

\* Failure is never turned into success.
NoFailOpen == \A c \in Calls : pc[c] = "ok" => result[c] # Failed

\* Nothing vouches for t any more, and nothing ever will.
Dead(t) == ~active[t] /\ ~Fresh(t) /\ ~PositivePending(t)

\* A token that was found dead, at the start of a call or by ClearCache, is.
DeadInv ==
  /\ \A t \in cut : Dead(t)
  /\ \A c \in Calls : settled[c] \/ doomed[c] => Dead(token[c]) /\ pc[c] # "ok"

IInv == TypeOK /\ FlightInv /\ EntryInv /\ AnswerInv /\ NoFailOpen /\ DeadInv

-----------------------------------------------------------------------------
(* The inductive invariant of the verifier. *)

\* A Verify call has not begun to introspect before it has read the clock, and
\* what it received it received no earlier.
BegunInv ==
  \A c \in Calls :
    /\ vpc[c] = "idle" => pc[c] = "idle"
    /\ vnow[c] <= clock
    /\ vpc[c] = "introspect" /\ pc[c] \in {"got", "ok"} => vnow[c] <= servedAt[c]

\* The expiry a JWT carries is respected from the start, the expiry the issuer
\* reports once it is known.
ExpiryInv ==
  \A c \in Calls :
    /\ vpc[c] \in {"introspect", "set", "ok"} /\ token[c] \in JWTs =>
         vnow[c] < Expiry[token[c]]
    /\ vpc[c] \in {"set", "ok"} /\ token[c] \in ReportsExp =>
         vnow[c] < Expiry[token[c]] + HTTPTimeout

\* The evidence behind a call and behind a cached verification.
EvidenceInv ==
  ~disabled => \A c \in Calls :
    /\ vpc[c] \in {"set", "ok"} => evidence[c] # 0
    /\ vpc[c] = "set" => vnow[c] <= evidence[c] + CacheTTL + HTTPTimeout
    /\ vpc[c] = "ok" => vnow[c] <= evidence[c] + CacheDuration + CacheTTL + HTTPTimeout

MemoryInv ==
  \A t \in Tokens : memory[t] # None =>
    /\ t \in JWTs \union ReportsExp => memory[t].expiresAt <= Expiry[t]
    /\ ~disabled =>
         /\ memory[t].evalAt # 0
         /\ memory[t].expiresAt <= memory[t].evalAt + CacheDuration + CacheTTL + HTTPTimeout

VInv == IInv /\ VTypeOK /\ BegunInv /\ ExpiryInv /\ EvidenceInv /\ MemoryInv

-----------------------------------------------------------------------------
(* Operators. *)

\* effectiveExpiry is a time, no later than any of the bounds it is given.
LEMMA EffectiveExpiryBounds ==
  ASSUME NEW k \in Nat, NEW x \in Nat, NEW t \in Nat
  PROVE  /\ EffectiveExpiry(k, x, t) \in Nat
         /\ EffectiveExpiry(k, x, t) <= t + CacheTTL
         /\ k # 0 => EffectiveExpiry(k, x, t) <= k
         /\ x # 0 => EffectiveExpiry(k, x, t) <= x
<1> DEFINE bounds == {t + CacheTTL} \union ({k, x} \ {0})
<1> DEFINE shortest == CHOOSE b \in bounds : \A o \in bounds : b <= o
<1>1. /\ bounds \subseteq Nat /\ t + CacheTTL \in bounds
      /\ k # 0 => k \in bounds
      /\ x # 0 => x \in bounds
  BY IntrospectorAssumption
<1>2. \E b \in bounds : \A o \in bounds : b <= o
  <2>1. CASE t + CacheTTL <= k \/ k = 0
    <3>1. CASE t + CacheTTL <= x \/ x = 0
      BY <2>1, <3>1, IntrospectorAssumption
    <3>2. CASE ~(t + CacheTTL <= x \/ x = 0)
      BY <2>1, <3>2, IntrospectorAssumption
    <3> QED BY <3>1, <3>2
  <2>2. CASE ~(t + CacheTTL <= k \/ k = 0)
    <3>1. CASE k <= x \/ x = 0
      BY <2>2, <3>1, IntrospectorAssumption
    <3>2. CASE ~(k <= x \/ x = 0)
      BY <2>2, <3>2, IntrospectorAssumption
    <3> QED BY <3>1, <3>2
  <2> QED BY <2>1, <2>2
<1> HIDE DEF bounds
<1>3. shortest \in bounds /\ \A o \in bounds : shortest <= o
  BY <1>2
<1>4. EffectiveExpiry(k, x, t) = IF CacheTTL = 0 \/ shortest <= t THEN 0 ELSE shortest
  BY DEF EffectiveExpiry, bounds
<1> HIDE DEF shortest
<1> QED BY <1>1, <1>3, <1>4, IntrospectorAssumption

\* What doIntrospect makes of a positive answer: the promise of Bounded, as
\* the request is younger than its timeout.
LEMMA AnswerBounded ==
  ASSUME TypeOK, FlightInv, NEW t \in Tokens, flight[t] # None,
         flight[t].state = "active"
  PROVE  LET p == [expiresAt |-> EffectiveExpiry(KnownExpiry(t),
                                    IF t \in ReportsExp THEN Expiry[t] ELSE 0, clock),
                   evalAt |-> flight[t].evalAt]
         IN  /\ p \in Positive /\ p # Failed
             /\ Bounded(p, t)
             /\ clock <= p.evalAt + CacheTTL + HTTPTimeout
             /\ clock < Expiry[t] + HTTPTimeout
<1> DEFINE x == IF t \in ReportsExp THEN Expiry[t] ELSE 0
<1> DEFINE e == EffectiveExpiry(KnownExpiry(t), x, clock)
<1>1. /\ flight[t] \in Flight
      /\ Expiry[t] \in Nat \ {0} /\ CacheTTL \in Nat /\ HTTPTimeout \in Nat \ {0}
      /\ clock \in Nat
  BY IntrospectorAssumption DEF TypeOK
<1>2. KnownExpiry(t) \in Nat /\ x \in Nat
  BY <1>1 DEF KnownExpiry
<1>3. e \in Nat /\ e <= clock + CacheTTL
  BY <1>1, <1>2, EffectiveExpiryBounds
<1>4. t \in ReportsExp \union JWTs => e <= Expiry[t]
  <2> HIDE DEF e
  <2>1. /\ KnownExpiry(t) # 0 => e <= KnownExpiry(t)
        /\ x # 0 => e <= x
    BY <1>1, <1>2, EffectiveExpiryBounds DEF e
  <2> QED BY <1>1, <2>1 DEF KnownExpiry
<1>5. /\ flight[t].sentAt \in Nat /\ flight[t].evalAt \in Nat
      /\ clock <= flight[t].sentAt + HTTPTimeout
      /\ flight[t].sentAt <= flight[t].evalAt
      /\ flight[t].evalAt # 0 /\ flight[t].evalAt < Expiry[t]
  BY <1>1 DEF FlightInv, Flight
<1> HIDE DEF e
<1>6. e <= flight[t].evalAt + CacheTTL + HTTPTimeout
  BY <1>1, <1>3, <1>5
<1>7. clock <= flight[t].evalAt + CacheTTL + HTTPTimeout /\ clock < Expiry[t] + HTTPTimeout
  BY <1>1, <1>5
<1> DEFINE p == [expiresAt |-> e, evalAt |-> flight[t].evalAt]
<1>8. p.expiresAt = e /\ p.evalAt = flight[t].evalAt /\ p \in Positive /\ p # Failed
  BY <1>3, <1>5 DEF Positive, Failed
<1>9. Bounded(p, t) /\ clock <= p.evalAt + CacheTTL + HTTPTimeout
  BY <1>4, <1>5, <1>6, <1>7, <1>8 DEF Bounded
<1> HIDE DEF p
<1> QED BY <1>7, <1>8, <1>9 DEF p, e

-----------------------------------------------------------------------------
(* The introspector's steps preserve its invariant. *)

\* A flight ends with a failure, or with the positive answer the issuer gave.
LEMMA AnswerLands ==
  ASSUME TypeOK, FlightInv, NEW t \in Tokens, AnswerArrives(t) \/ RequestFails(t)
  PROVE  \E res \in Positive :
           /\ Land(t, res)
           /\ res # Failed =>
                /\ flight[t] # None /\ flight[t].state = "active"
                /\ Bounded(res, t)
                /\ clock <= res.evalAt + CacheTTL + HTTPTimeout
                /\ clock < Expiry[t] + HTTPTimeout
<1>1. Failed \in Positive
  BY DEF Failed, Positive
<1>2. CASE Land(t, Failed)
  BY <1>1, <1>2
<1>3. CASE ~Land(t, Failed)
  BY <1>3, AnswerBounded DEF AnswerArrives, RequestFails
<1> QED BY <1>2, <1>3

\* Initially the invariant holds.
LEMMA IInvInit == Init => IInv
<1> SUFFICES ASSUME Init PROVE IInv
  OBVIOUS
<1>1. TypeOK
  BY NoneAssumption DEF Init, TypeOK, Failed, Positive
<1>2. FlightInv /\ EntryInv /\ AnswerInv /\ NoFailOpen
  BY DEF Init, FlightInv, EntryInv, AnswerInv, NoFailOpen
<1>3. DeadInv
  BY DEF Init, DeadInv
<1> QED BY <1>1, <1>2, <1>3 DEF IInv

\* Typing.
LEMMA TypeStep ==
  ASSUME TypeOK, FlightInv, [Next]_vars
  PROVE  TypeOK'
<1> USE DEF TypeOK, Goto, cacheVars, closeVars, callVars, Begun, Finished
<1>1. ASSUME NEW c \in Calls, Introspect(c)
      PROVE  TypeOK'
  <2>1. pc' \in [Calls -> {"idle"} \union Begun \union Finished]
    BY <1>1 DEF Introspect
  <2>2. result' \in [Calls -> Positive] /\ servedAt' \in [Calls -> Nat]
    BY SMTT(30), <1>1 DEF Introspect, Fresh, Positive
  <2>3. settled' \in [Calls -> BOOLEAN] /\ doomed' \in [Calls -> BOOLEAN]
    <3> DEFINE b == ~active[token[c]] /\ ~Fresh(token[c]) /\ ~PositivePending(token[c])
    <3> DEFINE d == token[c] \in cut
    <3>1. b \in BOOLEAN /\ d \in BOOLEAN
      BY DEF Fresh, PositivePending
    <3>2. settled' = [settled EXCEPT ![c] = b] /\ doomed' = [doomed EXCEPT ![c] = d]
      BY <1>1 DEF Introspect
    <3> HIDE DEF b, d
    <3> QED BY <3>1, <3>2
  <2> QED BY <1>1, <2>1, <2>2, <2>3 DEF Introspect
<1>2. ASSUME NEW c \in Calls, IntrospectEmpty(c) \/ Cancel(c)
      PROVE  TypeOK'
  BY <1>2 DEF IntrospectEmpty, Cancel
<1>3. ASSUME NEW c \in Calls, Join(c)
      PROVE  TypeOK'
  BY <1>3 DEF Join, Flight
<1>4. ASSUME NEW c \in Calls, Receive(c)
      PROVE  TypeOK'
  <2>1. result[c] \in Positive /\ token[c] \in Tokens
    OBVIOUS
  <2>2. entries' \in [Tokens -> [expiresAt : Nat \ {0}, evalAt : Nat] \union {None}]
    BY <1>4, <2>1 DEF Receive, Positive
  <2> QED BY <1>4, <2>2 DEF Receive
<1>5. ASSUME NEW t \in Tokens, IssuerEvaluates(t)
      PROVE  TypeOK'
  <2>1. flight[t] \in Flight
    BY <1>5 DEF IssuerEvaluates
  <2>2. flight' \in [Tokens -> Flight \union {None}]
    BY <1>5, <2>1 DEF IssuerEvaluates, Flight
  <2> QED BY <1>5, <2>2 DEF IssuerEvaluates
<1>6. ASSUME NEW t \in Tokens, NEW res \in Positive, Land(t, res)
      PROVE  TypeOK'
  BY <1>6 DEF Land
<1>7. ASSUME NEW t \in Tokens, AnswerArrives(t) \/ RequestFails(t)
      PROVE  TypeOK'
  BY <1>6, <1>7, AnswerLands
<1>8. ASSUME ClearCache \/ Evict
      PROVE  TypeOK'
  BY <1>8 DEF ClearCache, Evict
<1>9. ASSUME Close \/ JanitorStops \/ CloseReturns
      PROVE  TypeOK'
  BY <1>9 DEF Close, JanitorStops, CloseReturns
<1>10. ASSUME NEW t \in Tokens, Revoke(t)
       PROVE  TypeOK'
  BY <1>10 DEF Revoke
<1>11. ASSUME Tick
       PROVE  TypeOK'
  BY <1>11 DEF Tick
<1>12. CASE UNCHANGED vars
  BY <1>12 DEF vars
<1> QED
  BY <1>1, <1>2, <1>3, <1>4, <1>5, <1>6, <1>7, <1>8, <1>9, <1>10, <1>11, <1>12
     DEF Next, CallStep, Environment, Flying

\* Requests and their age: only Tick moves the clock, and not past a timeout.
LEMMA FlightStep ==
  ASSUME TypeOK, FlightInv, [Next]_vars
  PROVE  FlightInv'
<1> USE IntrospectorAssumption, NoneAssumption DEF TypeOK, Flight, FlightInv, Goto, cacheVars, closeVars, callVars
<1>1. ASSUME NEW c \in Calls, Introspect(c) \/ IntrospectEmpty(c) \/ Receive(c) \/ Cancel(c)
      PROVE  FlightInv'
  BY <1>1 DEF Introspect, IntrospectEmpty, Receive, Cancel
<1>2. ASSUME NEW c \in Calls, Join(c)
      PROVE  FlightInv'
  BY <1>2 DEF Join
<1>3. ASSUME NEW t \in Tokens, IssuerEvaluates(t)
      PROVE  FlightInv'
  <2>1. flight[t] \in Flight
    BY <1>3 DEF IssuerEvaluates
  <2>2. /\ flight'[t].sentAt = flight[t].sentAt
        /\ flight'[t].evalAt = clock
        /\ flight'[t].state = "active" => clock < Expiry[t]
        /\ \A u \in Tokens : u # t => flight'[u] = flight[u]
    BY <1>3, <2>1 DEF IssuerEvaluates
  <2> QED BY <1>3, <2>2 DEF IssuerEvaluates
<1>4. ASSUME NEW t \in Tokens, AnswerArrives(t) \/ RequestFails(t)
      PROVE  FlightInv'
  BY SMTT(30), <1>4 DEF AnswerArrives, RequestFails, Land
<1>5. ASSUME ClearCache \/ Evict \/ Close \/ JanitorStops \/ CloseReturns
      PROVE  FlightInv'
  BY <1>5 DEF ClearCache, Evict, Close, JanitorStops, CloseReturns
<1>6. ASSUME NEW t \in Tokens, Revoke(t)
      PROVE  FlightInv'
  BY <1>6 DEF Revoke
<1>7. ASSUME Tick
      PROVE  FlightInv'
  BY <1>7 DEF Tick
<1>8. CASE UNCHANGED vars
  BY <1>8 DEF vars
<1> QED
  BY <1>1, <1>2, <1>3, <1>4, <1>5, <1>6, <1>7, <1>8
     DEF Next, CallStep, Environment, Flying

\* The cache holds nothing but answers that calls received.
LEMMA EntryStep ==
  ASSUME TypeOK, FlightInv, EntryInv, AnswerInv, [Next]_vars
  PROVE  EntryInv'
<1> USE DEF TypeOK, EntryInv, Goto, cacheVars, closeVars, callVars
<1>1. ASSUME NEW c \in Calls, Receive(c)
      PROVE  EntryInv'
  <2>1. CASE result[c] = Failed
    BY <1>1, <2>1 DEF Receive, Failed
  <2>2. CASE result[c] # Failed
    BY <1>1, <2>2 DEF Receive, AnswerInv
  <2> QED BY <2>1, <2>2
<1>2. ASSUME UNCHANGED entries
      PROVE  EntryInv'
  BY <1>2
<1>3. ASSUME ClearCache \/ Evict
      PROVE  EntryInv'
  BY <1>3 DEF ClearCache, Evict
<1>4. ASSUME NEW c \in Calls, Introspect(c) \/ IntrospectEmpty(c) \/ Join(c) \/ Cancel(c)
      PROVE  UNCHANGED entries
  BY <1>4 DEF Introspect, IntrospectEmpty, Join, Cancel
<1>5. ASSUME NEW t \in Tokens, Flying(t) \/ Revoke(t)
      PROVE  UNCHANGED entries
  BY <1>5 DEF Flying, IssuerEvaluates, AnswerArrives, RequestFails, Land, Revoke
<1>6. ASSUME Close \/ JanitorStops \/ CloseReturns \/ Tick \/ UNCHANGED vars
      PROVE  UNCHANGED entries
  BY <1>6 DEF Close, JanitorStops, CloseReturns, Tick, vars
<1> QED
  BY <1>1, <1>2, <1>3, <1>4, <1>5, <1>6 DEF Next, CallStep, Environment

\* What a call holds it got from its flight or from a fresh entry.
LEMMA AnswerStep ==
  ASSUME TypeOK, FlightInv, EntryInv, AnswerInv, [Next]_vars
  PROVE  AnswerInv'
<1> USE DEF TypeOK, Goto, cacheVars, closeVars, callVars
<1>1. ASSUME NEW c \in Calls, Introspect(c)
      PROVE  AnswerInv'
  <2>1. CASE CacheTTL > 0 /\ Fresh(token[c])
    <3> DEFINE t == token[c]
    <3>1. /\ Bounded(entries[t], t) /\ clock < entries[t].expiresAt
          /\ entries[t] \in Positive
      BY <2>1 DEF EntryInv, Fresh, Positive
    <3>2. /\ clock <= entries[t].evalAt + CacheTTL + HTTPTimeout
          /\ t \in ReportsExp \union JWTs => clock < Expiry[t] + HTTPTimeout
      BY <3>1, IntrospectorAssumption DEF Bounded, Positive
    <3>3. /\ result' = [result EXCEPT ![c] = entries[t]]
          /\ servedAt' = [servedAt EXCEPT ![c] = clock]
          /\ pc' = [pc EXCEPT ![c] = "ok"] /\ token' = token
      BY <1>1, <2>1 DEF Introspect
    <3> QED BY <3>1, <3>2, <3>3 DEF AnswerInv
  <2>2. CASE ~(CacheTTL > 0 /\ Fresh(token[c]))
    BY <1>1, <2>2 DEF Introspect, AnswerInv
  <2> QED BY <2>1, <2>2
<1>2. ASSUME NEW c \in Calls, IntrospectEmpty(c) \/ CallStep(c)
      PROVE  AnswerInv'
  BY <1>2 DEF IntrospectEmpty, CallStep, Join, Receive, Cancel, AnswerInv
<1>3. ASSUME NEW t \in Tokens, AnswerArrives(t) \/ RequestFails(t)
      PROVE  AnswerInv'
  <2>1. PICK res \in Positive :
           /\ Land(t, res)
           /\ res # Failed =>
                /\ Bounded(res, t)
                /\ clock <= res.evalAt + CacheTTL + HTTPTimeout
                /\ clock < Expiry[t] + HTTPTimeout
    BY <1>3, AnswerLands
  <2> QED BY <2>1 DEF Land, AnswerInv
<1>4. ASSUME UNCHANGED <<pc, result, servedAt, token>>
      PROVE  AnswerInv'
  BY <1>4 DEF AnswerInv
<1>5. ASSUME NEW t \in Tokens, IssuerEvaluates(t) \/ Revoke(t)
      PROVE  UNCHANGED <<pc, result, servedAt, token>>
  BY <1>5 DEF IssuerEvaluates, Revoke
<1>6. ASSUME ClearCache \/ Evict \/ Close \/ JanitorStops \/ CloseReturns \/ Tick \/ UNCHANGED vars
      PROVE  UNCHANGED <<pc, result, servedAt, token>>
  BY <1>6 DEF ClearCache, Evict, Close, JanitorStops, CloseReturns, Tick, vars
<1> QED
  BY <1>1, <1>2, <1>3, <1>4, <1>5, <1>6 DEF Next, Environment, Flying

\* A call that returns success holds an answer.
LEMMA FailOpenStep ==
  ASSUME TypeOK, EntryInv, NoFailOpen, [Next]_vars
  PROVE  NoFailOpen'
<1> USE DEF TypeOK, NoFailOpen, Goto, cacheVars, closeVars, callVars
<1>1. ASSUME NEW c \in Calls, Introspect(c)
      PROVE  NoFailOpen'
  BY <1>1 DEF Introspect, EntryInv, Bounded, Fresh, Failed
<1>2. ASSUME NEW c \in Calls, IntrospectEmpty(c) \/ CallStep(c)
      PROVE  NoFailOpen'
  BY <1>2 DEF IntrospectEmpty, CallStep, Join, Receive, Cancel
<1>3. ASSUME NEW t \in Tokens, Flying(t) \/ Revoke(t)
      PROVE  NoFailOpen'
  BY <1>3 DEF Flying, IssuerEvaluates, AnswerArrives, RequestFails, Land, Revoke
<1>4. ASSUME ClearCache \/ Evict \/ Close \/ JanitorStops \/ CloseReturns \/ Tick \/ UNCHANGED vars
      PROVE  NoFailOpen'
  BY <1>4 DEF ClearCache, Evict, Close, JanitorStops, CloseReturns, Tick, vars
<1> QED
  BY <1>1, <1>2, <1>3, <1>4 DEF Next, Environment

\* A dead token stays dead: no step makes it active again, evaluates it to
\* active, or stores an answer for it.
LEMMA DeadStays ==
  ASSUME TypeOK, FlightInv, NEW t \in Tokens, Dead(t), [Next]_vars
  PROVE  Dead(t)'
<1> USE DEF TypeOK, Dead, Fresh, PositivePending, Goto, cacheVars, closeVars, callVars
<1>1. ASSUME NEW c \in Calls, Introspect(c) \/ IntrospectEmpty(c) \/ Cancel(c)
      PROVE  Dead(t)'
  BY <1>1 DEF Introspect, IntrospectEmpty, Cancel
<1>2. ASSUME NEW c \in Calls, Join(c)
      PROVE  Dead(t)'
  BY <1>2 DEF Join
<1>3. ASSUME NEW c \in Calls, Receive(c)
      PROVE  Dead(t)'
  <2>1. entries'[t] = entries[t]
    <3>1. CASE token[c] = t
      BY <1>3, <3>1 DEF Receive, Failed
    <3>2. CASE token[c] # t
      BY <1>3, <3>2 DEF Receive
    <3> QED BY <3>1, <3>2
  <2> QED BY <1>3, <2>1 DEF Receive
<1>4. ASSUME NEW u \in Tokens, IssuerEvaluates(u)
      PROVE  Dead(t)'
  <2>1. flight[u] \in Flight
    BY <1>4 DEF IssuerEvaluates
  <2>2. CASE u = t
    BY <1>4, <2>1, <2>2 DEF IssuerEvaluates, Flight
  <2>3. CASE u # t
    BY <1>4, <2>3 DEF IssuerEvaluates
  <2> QED BY <2>2, <2>3
<1>5. ASSUME NEW u \in Tokens, AnswerArrives(u) \/ RequestFails(u)
      PROVE  Dead(t)'
  <2>1. PICK res \in Positive :
          Land(u, res) /\ (res # Failed => flight[u] # None /\ flight[u].state = "active")
    BY <1>5, AnswerLands
  <2>2. u = t => res = Failed
    BY <2>1
  <2> QED BY <2>1, <2>2 DEF Land
<1>6. ASSUME ClearCache \/ Evict \/ Close \/ JanitorStops \/ CloseReturns
      PROVE  Dead(t)'
  BY <1>6 DEF ClearCache, Evict, Close, JanitorStops, CloseReturns
<1>7. ASSUME NEW u \in Tokens, Revoke(u)
      PROVE  Dead(t)'
  BY <1>7 DEF Revoke
<1>8. ASSUME Tick
      PROVE  Dead(t)'
  BY <1>8 DEF Tick
<1>9. CASE UNCHANGED vars
  BY <1>9 DEF vars
<1> QED
  BY <1>1, <1>2, <1>3, <1>4, <1>5, <1>6, <1>7, <1>8, <1>9
     DEF Next, CallStep, Environment, Flying

\* What was found dead is dead, and no call for it succeeds.
LEMMA DeadStep ==
  ASSUME TypeOK, FlightInv, DeadInv, [Next]_vars
  PROVE  DeadInv'
<1> USE DEF TypeOK, Goto, cacheVars, closeVars, callVars
<1>1. \A t \in Tokens : Dead(t) => Dead(t)'
  BY DeadStays
<1>2. \A t \in cut' : Dead(t)'
  <2>1. CASE ClearCache
    <3>1. \A t \in Tokens : ~active[t] /\ ~PositivePending(t) => Dead(t)'
      BY <2>1 DEF ClearCache, Dead, Fresh, PositivePending
    <3>2. cut' = cut \union {t \in Tokens : ~active[t] /\ ~PositivePending(t)}
      BY <2>1 DEF ClearCache
    <3> QED BY <1>1, <3>1, <3>2 DEF DeadInv
  <2>2. CASE ~ClearCache
    <3>1. cut' = cut
      BY <2>2 DEF Next, Introspect, IntrospectEmpty, CallStep, Join, Receive, Cancel,
                  Environment, Flying, IssuerEvaluates, AnswerArrives, RequestFails, Land,
                  Revoke, Evict, Close, JanitorStops, CloseReturns, Tick, vars
    <3> QED BY <1>1, <3>1 DEF DeadInv
  <2> QED BY <2>1, <2>2
<1>3. ASSUME NEW c \in Calls, settled'[c] \/ doomed'[c]
      PROVE  Dead(token[c])' /\ pc'[c] # "ok"
  <2>1. token' = token /\ token[c] \in Tokens
    BY DEF Next, Introspect, IntrospectEmpty, CallStep, Join, Receive, Cancel,
           ClearCache, Environment, Flying, IssuerEvaluates, AnswerArrives, RequestFails, Land,
           Revoke, Evict, Close, JanitorStops, CloseReturns, Tick, vars
  <2>2. CASE Introspect(c)
    <3>1. Dead(token[c])
      BY <1>3, <2>1, <2>2 DEF Introspect, Dead, DeadInv
    <3>2. pc'[c] # "ok"
      BY <2>2, <3>1 DEF Introspect, Dead
    <3> QED BY <1>1, <2>1, <3>1, <3>2
  <2>3. CASE ~Introspect(c)
    <3>1. settled'[c] = settled[c] /\ doomed'[c] = doomed[c]
      BY ZenonT(40), <2>3 DEF Next, Introspect, IntrospectEmpty, CallStep, Join, Receive, Cancel,
                  ClearCache, Environment, Flying, IssuerEvaluates, AnswerArrives,
                  RequestFails, Land, Revoke, Evict, Close, JanitorStops, CloseReturns,
                  Tick, vars
    <3>2. Dead(token[c]) /\ pc[c] # "ok"
      BY <1>3, <3>1 DEF DeadInv
    <3>3. pc'[c] = "ok" => Receive(c)
      <4>1. ASSUME NEW d \in Calls, Introspect(d) \/ IntrospectEmpty(d) \/ CallStep(d)
            PROVE  pc'[c] = "ok" => Receive(c)
        <5>1. CASE d = c
          BY <2>3, <3>2, <4>1, <5>1 DEF IntrospectEmpty, CallStep, Join, Cancel
        <5>2. CASE d # c
          BY <3>2, <4>1, <5>2 DEF Introspect, IntrospectEmpty, CallStep, Join, Receive, Cancel
        <5> QED BY <5>1, <5>2
      <4>2. ASSUME NEW t \in Tokens, Flying(t) \/ Revoke(t)
            PROVE  pc'[c] # "ok"
        BY <3>2, <4>2 DEF Flying, IssuerEvaluates, AnswerArrives, RequestFails, Land, Revoke
      <4>3. ASSUME \/ ClearCache \/ Evict \/ Close \/ JanitorStops \/ CloseReturns
                   \/ Tick \/ UNCHANGED vars
            PROVE  pc'[c] # "ok"
        BY <3>2, <4>3 DEF ClearCache, Evict, Close, JanitorStops, CloseReturns, Tick, vars
      <4> QED BY <4>1, <4>2, <4>3 DEF Next, Environment
    <3>4. Receive(c) => pc'[c] # "ok"
      BY <3>2 DEF Receive, Dead, PositivePending
    <3> QED BY <1>1, <2>1, <3>2, <3>3, <3>4
  <2> QED BY <2>2, <2>3
<1> QED BY <1>2, <1>3 DEF DeadInv

\* The invariant is inductive.
LEMMA IInvStep ==
  ASSUME IInv, [Next]_vars
  PROVE  IInv'
BY TypeStep, FlightStep, EntryStep, AnswerStep, FailOpenStep, DeadStep DEF IInv

\* It implies what the runs check.
LEMMA IInvImplies ==
  ASSUME IInv
  PROVE  CacheSound /\ BoundedStaleness /\ InactiveIsNoticed /\ ClearCacheTakesEffect
<1>1. CacheSound
  BY IntrospectorAssumption DEF IInv, CacheSound, NoEntryOutlivesToken, EntryInv, Bounded
<1>2. BoundedStaleness
  BY DEF IInv, BoundedStaleness, NoFailOpen, AnswerInv, Bounded
<1>3. InactiveIsNoticed /\ ClearCacheTakesEffect
  BY DEF IInv, InactiveIsNoticed, ClearCacheTakesEffect, DeadInv
<1> QED BY <1>1, <1>2, <1>3

-----------------------------------------------------------------------------
(* What the introspector guarantees. *)

\* Every reachable state of the introspector satisfies the invariant.
LEMMA IInvHolds == Spec => []IInv
<1>1. Init => IInv
  BY IInvInit
<1>2. IInv /\ [Next]_vars => IInv'
  BY IInvStep
<1> QED BY <1>1, <1>2, PTL DEF Spec

\* Introspector.Introspect, ClearCache and the eviction goroutine keep the
\* cache well formed, and no entry outlives its token.
THEOREM CacheIsSound == Spec => []CacheSound
<1>1. IInv => CacheSound
  BY IInvImplies
<1> QED BY <1>1, IInvHolds, PTL

\* Whatever interleaving of callers, flights and cache maintenance: success
\* rests on an evaluation by the issuer at most CacheTTL + HTTPTimeout old.
THEOREM StalenessIsBounded == Spec => []BoundedStaleness
<1>1. IInv => BoundedStaleness
  BY IInvImplies
<1> QED BY <1>1, IInvHolds, PTL

\* Introspect refuses an inactive token once nothing positive is cached or on
\* its way into the cache.
THEOREM InactiveTokensAreNoticed == Spec => []InactiveIsNoticed
<1>1. IInv => InactiveIsNoticed
  BY IInvImplies
<1> QED BY <1>1, IInvHolds, PTL

\* ClearCache makes a revocation take effect for every later call, unless a
\* positive answer was on its way when it ran.
THEOREM ClearCacheWorks == Spec => []ClearCacheTakesEffect
<1>1. IInv => ClearCacheTakesEffect
  BY IInvImplies
<1> QED BY <1>1, IInvHolds, PTL

-----------------------------------------------------------------------------
(* The verifier. *)

\* A step of OIDC is a step of the Introspector it owns, or leaves it alone.
LEMMA VerifierStep ==
  ASSUME [VNext]_allVars
  PROVE  [Next]_vars
BY DEF VNext, allVars, Verify, CallIntrospector, Introspected, CacheSet, MemoryEvict,
       Surroundings, Next

\* Verify drives the Introspector only through its operations: OIDC's
\* specification implies the Introspector's, so all of the above holds of an
\* Introspector inside an OIDC too.
THEOREM VerifierDrivesIntrospector == VSpec => Spec
<1>1. VInit => Init
  BY DEF VInit
<1>2. [VNext]_allVars => [Next]_vars
  BY VerifierStep
<1> QED BY <1>1, <1>2, PTL DEF VSpec, Spec

\* MemoryCache.expiry: after now, and no later than either bound.
LEMMA MemoryExpiryBounds ==
  ASSUME NEW t \in Tokens, NEW now \in Nat, CacheDuration # 0
  PROVE  /\ MemoryExpiry(t, now) \in Nat \ {0}
         /\ MemoryExpiry(t, now) <= now + CacheDuration
         /\ t \in JWTs \union ReportsExp => MemoryExpiry(t, now) <= Expiry[t]
BY IntrospectorAssumption, OIDCAssumption DEF MemoryExpiry, ClaimsExp

\* Initially the verifier's invariant holds.
LEMMA VInvInit == VInit => VInv
<1> SUFFICES ASSUME VInit PROVE VInv
  OBVIOUS
<1>1. IInv
  BY IInvInit DEF VInit
<1>2. VTypeOK /\ BegunInv
  BY <1>1 DEF IInv, VInit, VTypeOK, TypeOK, BegunInv, Init
<1>3. ExpiryInv /\ EvidenceInv /\ MemoryInv
  BY DEF VInit, ExpiryInv, EvidenceInv, MemoryInv
<1> QED BY <1>1, <1>2, <1>3 DEF VInv

\* Every step preserves it.
LEMMA VInvStep ==
  ASSUME VInv, [VNext]_allVars
  PROVE  VInv'
<1> USE IntrospectorAssumption, OIDCAssumption, NoneAssumption
<1> USE DEF VGoto, verifyVars
<1> DEFINE Entry == [expiresAt : Nat \ {0}, evalAt : Nat] \union {None}
<1>1. IInv'
  BY VerifierStep, IInvStep DEF VInv
<1>2. TypeOK /\ TypeOK' /\ VTypeOK
  BY <1>1 DEF VInv, IInv
<1>3. ASSUME NEW c \in Calls, Verify(c)
      PROVE  VInv'
  <2> DEFINE t == token[c]
  <2>1. /\ t \in Tokens /\ clock \in Nat /\ vars' = vars /\ disabled' = disabled
        /\ memory' = memory /\ vnow' = [vnow EXCEPT ![c] = clock]
        /\ vpc[c] = "idle" /\ pc[c] = "idle"
    BY <1>2, <1>3 DEF Verify, TypeOK, VInv, BegunInv
  <2>2. UNCHANGED <<clock, token, pc, servedAt, result>>
    BY <2>1 DEF vars, callVars
  <2>3. CASE Cached(t, clock)
    <3>1. /\ vpc' = [vpc EXCEPT ![c] = "ok"]
          /\ evidence' = [evidence EXCEPT ![c] = memory[t].evalAt]
          /\ memory[t] # None /\ clock < memory[t].expiresAt
      BY <1>3, <2>3 DEF Verify, Cached
    <3>2. memory[t].expiresAt \in Nat /\ memory[t].evalAt \in Nat
      BY <1>2, <2>1, <3>1 DEF VTypeOK
    <3>3. VTypeOK'
      BY <1>2, <2>1, <3>1, <3>2 DEF VTypeOK
    <3>4. BegunInv'
      BY <1>2, <2>1, <2>2, <3>1 DEF VInv, BegunInv, VTypeOK
    <3>5. ExpiryInv'
      BY <1>2, <2>1, <2>2, <3>1, <3>2 DEF VInv, ExpiryInv, MemoryInv, VTypeOK
    <3>6. EvidenceInv'
      BY <1>2, <2>1, <2>2, <3>1, <3>2 DEF VInv, EvidenceInv, MemoryInv, VTypeOK
    <3>7. MemoryInv'
      BY <2>1 DEF VInv, MemoryInv
    <3> QED BY <1>1, <3>3, <3>4, <3>5, <3>6, <3>7 DEF VInv
  <2>4. CASE ~Cached(t, clock)
    <3>1. /\ evidence' = evidence
          /\ \/ /\ t \in JWTs => clock < Expiry[t]
                /\ vpc' = [vpc EXCEPT ![c] = "introspect"]
             \/ /\ t \in JWTs /\ clock < Expiry[t] /\ disabled
                /\ vpc' = [vpc EXCEPT ![c] = "set"]
             \/ vpc' = [vpc EXCEPT ![c] = "error"]
      BY <1>2, <1>3, <2>4 DEF Verify, VTypeOK
    <3>2. VTypeOK'
      BY <1>2, <2>1, <3>1 DEF VTypeOK
    <3>3. BegunInv'
      BY <1>2, <2>1, <2>2, <3>1 DEF VInv, BegunInv, VTypeOK
    <3>4. ExpiryInv'
      BY <1>2, <2>1, <2>2, <3>1 DEF VInv, ExpiryInv, VTypeOK
    <3>5. EvidenceInv'
      BY <1>2, <2>1, <2>2, <3>1 DEF VInv, EvidenceInv, VTypeOK
    <3>6. MemoryInv'
      BY <2>1 DEF VInv, MemoryInv
    <3> QED BY <1>1, <3>2, <3>3, <3>4, <3>5, <3>6 DEF VInv
  <2> QED BY <2>3, <2>4
<1>4. ASSUME UNCHANGED verifyVars, [Next]_vars,
             \A c \in Calls : pc'[c] # pc[c] => vpc[c] # "idle"
      PROVE  VInv'
  <2>1. token' = token /\ clock' \in Nat /\ clock <= clock'
    <3> USE DEF cacheVars, closeVars, callVars
    <3>1. ASSUME NEW d \in Calls, Introspect(d) \/ IntrospectEmpty(d) \/ CallStep(d)
          PROVE  token' = token /\ clock' = clock
      BY <3>1 DEF Introspect, IntrospectEmpty, CallStep, Join, Receive, Cancel
    <3>2. ASSUME NEW u \in Tokens, Flying(u) \/ Revoke(u)
          PROVE  token' = token /\ clock' = clock
      BY <3>2 DEF Flying, IssuerEvaluates, AnswerArrives, RequestFails, Land, Revoke
    <3>3. ASSUME ClearCache \/ Evict \/ Close \/ JanitorStops \/ CloseReturns \/ UNCHANGED vars
          PROVE  token' = token /\ clock' = clock
      BY <3>3 DEF ClearCache, Evict, Close, JanitorStops, CloseReturns, vars
    <3>4. ASSUME Tick
          PROVE  token' = token /\ clock' = clock + 1
      BY <3>4 DEF Tick
    <3> QED BY <1>2, <1>4, <3>1, <3>2, <3>3, <3>4 DEF Next, Environment, TypeOK
  <2>2. VTypeOK' /\ ExpiryInv' /\ EvidenceInv' /\ MemoryInv'
    BY <1>2, <1>4, <2>1 DEF VInv, VTypeOK, ExpiryInv, EvidenceInv, MemoryInv
  <2>3. ASSUME NEW c \in Calls, pc'[c] \in {"got", "ok"}
        PROVE  \/ pc[c] \in {"got", "ok"} /\ servedAt'[c] = servedAt[c]
               \/ servedAt'[c] = clock
    <3> USE DEF Goto, cacheVars, closeVars, callVars, TypeOK
    <3>1. ASSUME NEW d \in Calls, Introspect(d) \/ IntrospectEmpty(d) \/ CallStep(d)
          PROVE  \/ pc[c] \in {"got", "ok"} /\ servedAt'[c] = servedAt[c]
                 \/ servedAt'[c] = clock
      BY <1>2, <2>3, <3>1
         DEF Introspect, IntrospectEmpty, CallStep, Join, Receive, Cancel
    <3>2. ASSUME NEW u \in Tokens, Flying(u) \/ Revoke(u)
          PROVE  \/ pc[c] \in {"got", "ok"} /\ servedAt'[c] = servedAt[c]
                 \/ servedAt'[c] = clock
      BY <2>3, <3>2
         DEF Flying, IssuerEvaluates, AnswerArrives, RequestFails, Land, Revoke
    <3>3. ASSUME \/ ClearCache \/ Evict \/ Close \/ JanitorStops \/ CloseReturns
                 \/ Tick \/ UNCHANGED vars
          PROVE  pc'[c] = pc[c] /\ servedAt'[c] = servedAt[c]
      BY <3>3 DEF ClearCache, Evict, Close, JanitorStops, CloseReturns, Tick, vars
    <3> QED BY <1>4, <2>3, <3>1, <3>2, <3>3 DEF Next, Environment
  <2>4. BegunInv'
    BY <1>2, <1>4, <2>1, <2>3 DEF VInv, BegunInv, VTypeOK, TypeOK
  <2> QED BY <1>1, <2>2, <2>4 DEF VInv
<1>5. ASSUME NEW c \in Calls, CallIntrospector(c)
      PROVE  VInv'
  <2>1. \A d \in Calls : pc'[d] # pc[d] => d = c
    BY <1>2, <1>5 DEF CallIntrospector, Introspect, CallStep, Join, Receive, Cancel, Goto, TypeOK
  <2> QED BY <1>4, <1>5, <2>1, VerifierStep DEF CallIntrospector
<1>6. ASSUME Surroundings
      PROVE  VInv'
  <2>1. \A d \in Calls : pc'[d] # pc[d] => pc[d] = "wait"
    <3> USE DEF cacheVars, closeVars, callVars
    <3>1. ASSUME NEW u \in Tokens, Flying(u) \/ Revoke(u)
          PROVE  \A d \in Calls : pc'[d] # pc[d] => pc[d] = "wait"
      BY <3>1 DEF Flying, IssuerEvaluates, AnswerArrives, RequestFails, Land, Revoke
    <3>2. ASSUME Evict \/ Close \/ JanitorStops \/ CloseReturns \/ Tick
          PROVE  pc' = pc
      BY <3>2 DEF Evict, Close, JanitorStops, CloseReturns, Tick
    <3> QED BY <1>6, <3>1, <3>2 DEF Surroundings, Environment
  <2> QED BY <1>4, <1>6, <2>1, VerifierStep DEF Surroundings, VInv, BegunInv
<1>7. ASSUME NEW c \in Calls, Introspected(c)
      PROVE  VInv'
  <2>1. /\ UNCHANGED <<vars, disabled, memory, vnow>> /\ vpc[c] = "introspect"
        /\ UNCHANGED <<clock, token, pc, servedAt, result>>
    BY <1>7 DEF Introspected, vars, callVars
  <2>2. /\ token[c] \in Tokens /\ clock \in Nat /\ vnow[c] \in Nat
        /\ result[c].evalAt \in Nat /\ servedAt[c] \in Nat
    BY <1>2 DEF TypeOK, Positive, VTypeOK
  <2>3. CASE pc[c] = "ok"
    <3>1. /\ evidence' = [evidence EXCEPT ![c] = result[c].evalAt]
          /\ vpc' = [vpc EXCEPT ![c] = "set"]
      BY <1>7, <2>3 DEF Introspected
    <3>2. /\ result[c].evalAt # 0 /\ vnow[c] <= servedAt[c]
          /\ servedAt[c] <= result[c].evalAt + CacheTTL + HTTPTimeout
          /\ token[c] \in ReportsExp => servedAt[c] < Expiry[token[c]] + HTTPTimeout
      BY <2>1, <2>3 DEF VInv, IInv, NoFailOpen, AnswerInv, Bounded, BegunInv
    <3>3. /\ vnow[c] <= result[c].evalAt + CacheTTL + HTTPTimeout
          /\ token[c] \in ReportsExp => vnow[c] < Expiry[token[c]] + HTTPTimeout
      BY <2>2, <3>2
    <3>4. VTypeOK' /\ BegunInv' /\ MemoryInv'
      BY <1>2, <2>1, <2>2, <3>1 DEF VInv, VTypeOK, BegunInv, MemoryInv
    <3>5. ExpiryInv' /\ EvidenceInv'
      BY <1>2, <2>1, <2>2, <3>1, <3>2, <3>3 DEF VInv, VTypeOK, ExpiryInv, EvidenceInv
    <3> QED BY <1>1, <3>4, <3>5 DEF VInv
  <2>4. CASE pc[c] # "ok"
    <3>1. /\ evidence' = [evidence EXCEPT ![c] = 0]
          /\ vpc' = [vpc EXCEPT ![c] = "error"]
      BY <1>7, <2>4 DEF Introspected
    <3>2. VTypeOK' /\ BegunInv' /\ MemoryInv'
      BY <1>2, <2>1, <2>2, <3>1 DEF VInv, VTypeOK, BegunInv, MemoryInv
    <3>3. ExpiryInv' /\ EvidenceInv'
      BY <1>2, <2>1, <3>1 DEF VInv, VTypeOK, ExpiryInv, EvidenceInv
    <3> QED BY <1>1, <3>2, <3>3 DEF VInv
  <2> QED BY <2>3, <2>4
<1>8. ASSUME NEW c \in Calls, CacheSet(c)
      PROVE  VInv'
  <2> DEFINE e == MemoryExpiry(token[c], vnow[c])
  <2>1. /\ UNCHANGED <<vars, disabled, vnow, evidence>> /\ vpc[c] = "set"
        /\ vpc' = [vpc EXCEPT ![c] = "ok"]
        /\ UNCHANGED <<clock, token, pc, servedAt, result>>
    BY <1>8 DEF CacheSet, vars, callVars
  <2>2. token[c] \in Tokens /\ vnow[c] \in Nat /\ evidence[c] \in Nat
    BY <1>2 DEF TypeOK, VTypeOK
  <2>3. BegunInv' /\ ExpiryInv'
    BY <1>2, <2>1, <2>2 DEF VInv, VTypeOK, BegunInv, ExpiryInv
  <2>4. EvidenceInv'
    BY <1>2, <2>1, <2>2 DEF VInv, VTypeOK, EvidenceInv
  <2>5. VTypeOK' /\ MemoryInv'
    <3>1. CASE CacheDuration = 0
      BY <1>2, <1>8, <2>1, <3>1 DEF CacheSet, VInv, VTypeOK, MemoryInv
    <3>2. CASE CacheDuration # 0
      <4>1. /\ e \in Nat \ {0} /\ e <= vnow[c] + CacheDuration
            /\ token[c] \in JWTs \union ReportsExp => e <= Expiry[token[c]]
        BY <2>2, <3>2, MemoryExpiryBounds
      <4>2. memory' = [memory EXCEPT ![token[c]] = [expiresAt |-> e, evalAt |-> evidence[c]]]
        BY <1>8, <3>2 DEF CacheSet
      <4> HIDE DEF e
      <4>3. ~disabled => /\ evidence[c] # 0
                         /\ e <= evidence[c] + CacheDuration + CacheTTL + HTTPTimeout
        BY <2>1, <2>2, <4>1 DEF VInv, EvidenceInv
      <4>4. VTypeOK'
        BY <1>2, <2>1, <2>2, <4>1, <4>2 DEF VTypeOK
      <4>5. MemoryInv'
        BY <1>2, <2>1, <2>2, <4>1, <4>2, <4>3 DEF VInv, VTypeOK, MemoryInv
      <4> QED BY <4>4, <4>5
    <3> QED BY <3>1, <3>2
  <2> QED BY <1>1, <2>3, <2>4, <2>5 DEF VInv
<1>9. ASSUME MemoryEvict
      PROVE  VInv'
  <2>1. /\ UNCHANGED <<vars, disabled, vpc, vnow, evidence>>
        /\ UNCHANGED <<clock, token, pc, servedAt, result>>
        /\ memory' = [t \in Tokens |-> IF Cached(t, clock) THEN memory[t] ELSE None]
    BY <1>9 DEF MemoryEvict, vars, callVars
  <2>2. VTypeOK' /\ MemoryInv'
    BY <1>2, <2>1 DEF VInv, VTypeOK, MemoryInv
  <2>3. BegunInv' /\ ExpiryInv' /\ EvidenceInv'
    BY <2>1 DEF VInv, BegunInv, ExpiryInv, EvidenceInv
  <2> QED BY <1>1, <2>2, <2>3 DEF VInv
<1>10. CASE UNCHANGED allVars
  <2>1. UNCHANGED verifyVars /\ UNCHANGED vars /\ UNCHANGED pc
    BY <1>10 DEF allVars, vars, callVars
  <2> QED BY <1>4, <2>1
<1> QED
  BY <1>3, <1>5, <1>6, <1>7, <1>8, <1>9, <1>10 DEF VNext

\* Every reachable state of the verifier satisfies the invariant.
LEMMA VInvHolds == VSpec => []VInv
<1>1. VInit => VInv
  BY VInvInit
<1>2. VInv /\ [VNext]_allVars => VInv'
  BY VInvStep
<1> QED BY <1>1, <1>2, PTL DEF VSpec

\* OIDC.Verify keeps its state well formed, and no call that begins after a
\* token's known expiry accepts it from either cache.
THEOREM VerifyIsSound == VSpec => []VerifySound
<1>1. VInv => VerifySound
  BY DEF VInv, VerifySound, ExpiryInv, ExpiredTokenRefused
<1> QED BY <1>1, VInvHolds, PTL

\* The staleness of an accepted token is bounded by the sum of the lifetimes
\* of the MemoryCache and the introspection cache and one request timeout.
THEOREM StackedStalenessIsBounded == VSpec => []StackedStaleness
<1>1. VInv => StackedStaleness
  BY DEF VInv, EvidenceInv, StackedStaleness
<1> QED BY <1>1, VInvHolds, PTL
=============================================================================
