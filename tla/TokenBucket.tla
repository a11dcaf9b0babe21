----------------------------- MODULE TokenBucket -----------------------------
(***************************************************************************)
(* What a per-client rate limit promises: every client owns one bucket     *)
(* that is never thrown away, starts full, gains Rate per unit of time up  *)
(* to Burst, and pays Cost for each admitted request.                      *)
(***************************************************************************)
EXTENDS Naturals

CONSTANTS Clients, Requests, Rate, Burst, Cost

VARIABLES
  level,   \* client -> what its bucket holds
  outcome  \* request -> what it was answered

bucketVars == <<level, outcome>>

Capped(n) == IF n < Burst THEN n ELSE Burst

Init ==
  /\ level = [c \in Clients |-> Burst]
  /\ outcome = [r \in Requests |-> "none"]

\* A request of c is admitted exactly if its bucket can pay for it.
Request(r, c) ==
  /\ outcome[r] = "none"
  /\ \/ /\ level[c] >= Cost
        /\ level' = [level EXCEPT ![c] = @ - Cost]
        /\ outcome' = [outcome EXCEPT ![r] = "admitted"]
     \/ /\ level[c] < Cost
        /\ level' = level
        /\ outcome' = [outcome EXCEPT ![r] = "refused"]

\* A unit of time passes.
Refill ==
  /\ level' = [c \in Clients |-> Capped(level[c] + Rate)]
  /\ UNCHANGED outcome

Next == Refill \/ \E r \in Requests, c \in Clients : Request(r, c)

Spec == Init /\ [][Next]_bucketVars
=============================================================================
