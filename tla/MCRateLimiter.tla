---------------------------- MODULE MCRateLimiter ----------------------------
(* Bounded instances of RateLimiter for TLC. *)
EXTENDS RateLimiter, TLC

\* Requests are interchangeable.
Symmetry == Permutations(Requests)

\* Two requests back to back, half a request per unit of time.
Fixed == {[rate |-> 1, burst |-> 4]}
\* The rate and the burst both change.
Changing == {[rate |-> 1, burst |-> 2], [rate |-> 2, burst |-> 4]}
=============================================================================
