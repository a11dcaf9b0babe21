------------------------------- MODULE MCOIDC -------------------------------
(* Bounded instances of OIDC for TLC. *)
EXTENDS OIDC, TLC

\* Verify calls are interchangeable.
Symmetry == Permutations(Calls)

\* What a call that has not returned still reads.
Live(c) ==
  IF vpc[c] \in {"ok", "error"} THEN <<>>
  ELSE <<vpc[c],
         IF vpc[c] = "introspect" THEN pc[c] ELSE "idle",
         IF vpc[c] = "introspect" /\ pc[c] \in {"got", "ok"} THEN result[c] ELSE Failed,
         IF vpc[c] = "idle" THEN 0 ELSE vnow[c],
         IF vpc[c] = "set" THEN evidence[c] ELSE 0>>

\* Of a call that has returned, the rest of a behaviour reads nothing: only
\* the invariants do, and the view has their values.  Nothing ever reads the
\* state of a token that nobody presents.
View ==
  <<disabled, clock, token, [c \in Calls |-> Live(c)],
    [t \in {token[c] : c \in Calls} |-> <<active[t], entries[t], flight[t], memory[t]>>],
    StackedStaleness, ExpiredTokenRefused>>

\* Tokens share nothing but the clock: all calls verify the same one, of any kind.
OneTokenInit == VInit /\ \A c, d \in Calls : token[c] = token[d]
OneTokenSpec == OneTokenInit /\ [][VNext]_allVars

ExpiresAt3 == [t \in Tokens |-> 3]
=============================================================================
