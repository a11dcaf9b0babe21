--------------------------- MODULE MCIntrospector ---------------------------
(* Bounded instances of Introspector for TLC. *)
EXTENDS Introspector

\* Every token expires early enough to cut an entry's lifetime short.
ExpiresAt3 == [t \in Tokens |-> 3]
=============================================================================
