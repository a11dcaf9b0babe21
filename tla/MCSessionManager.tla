-------------------------- MODULE MCSessionManager --------------------------
(* Bounded instances of SessionManager for TLC. *)
EXTENDS SessionManager, TLC

\* Resolve calls are interchangeable.
Symmetry == Permutations(Requests)
=============================================================================
