---------------------------- MODULE ProgressProofs ----------------------------
(***************************************************************************)
(* The slot pool of Progress is correct for any number of slots, workers   *)
(* and concurrent callers of Start and Stop.                               *)
(***************************************************************************)
EXTENDS Progress, TLAPS

\* A slot is drawn idle in the channel, on its way into it, and on its way
\* out; it is drawn otherwise only while its worker works.
LinesInv ==
  /\ \A s \in freeCh : status[s] = Idle
  /\ \A w \in Workers : wpc[w] = "working" => status[idx[w]] # Idle
  /\ \A w \in Workers : wpc[w] = "cleared" => status[idx[w]] = Idle

PoolInv == TypeOK /\ LinesInv

\* Steps of the render loop and of its callers do not touch the slots.
LEMMA LoopFrame ==
  ASSUME TypeOK,
         \/ \E c \in Starters : Start(c)
         \/ \E c \in Stoppers : Stop(c) \/ StopStep(c)
         \/ Render \/ LoopExits
  PROVE  TypeOK' /\ UNCHANGED slotVars
<1> USE DEF TypeOK, slotVars, loopVars
<1>1. ASSUME NEW c \in Starters, Start(c) PROVE TypeOK' /\ UNCHANGED slotVars
  BY <1>1 DEF Start
<1>2. ASSUME NEW c \in Stoppers, Stop(c) PROVE TypeOK' /\ UNCHANGED slotVars
  BY <1>2 DEF Stop
<1>3. ASSUME NEW c \in Stoppers, CloseStop(c) PROVE TypeOK' /\ UNCHANGED slotVars
  BY <1>3 DEF CloseStop
<1>4. ASSUME NEW c \in Stoppers, StopReturns(c) PROVE TypeOK' /\ UNCHANGED slotVars
  BY <1>4 DEF StopReturns
<1>5. CASE Render \/ LoopExits
  BY <1>5 DEF Render, LoopExits
<1> QED BY <1>1, <1>2, <1>3, <1>4, <1>5 DEF StopStep

\* Every step keeps the pool consistent.
LEMMA PoolStep ==
  ASSUME PoolInv, [Next]_vars
  PROVE  PoolInv'
<1> USE DEF PoolInv, TypeOK, LinesInv, Holding, Idle, WGoto, Draw, loopVars
<1>1. ASSUME NEW w \in Workers, NEW s \in Slots, Acquire(w, s) PROVE PoolInv'
  BY <1>1 DEF Acquire
<1>2. ASSUME NEW w \in Workers, NEW st \in {"done", "failed"}, Finish(w, st) PROVE PoolInv'
  BY <1>2 DEF Finish
<1>3. ASSUME NEW w \in Workers, Claim(w) PROVE PoolInv'
  BY <1>3 DEF Claim
<1>4. ASSUME NEW w \in Workers, Release(w) PROVE PoolInv'
  BY <1>4 DEF Release
<1>5. ASSUME NEW w \in Workers, GiveBack(w) PROVE PoolInv'
  BY <1>5 DEF GiveBack
<1>6. CASE \/ \E c \in Starters : Start(c)
           \/ \E c \in Stoppers : Stop(c) \/ StopStep(c)
           \/ Render \/ LoopExits
  <2>1. TypeOK' /\ UNCHANGED slotVars
    BY <1>6, LoopFrame
  <2> QED BY <2>1 DEF slotVars
<1>7. CASE UNCHANGED vars
  BY <1>7 DEF vars, slotVars
<1> QED BY <1>1, <1>2, <1>3, <1>4, <1>5, <1>6, <1>7 DEF Next

\* Every slot is always in exactly one place.
THEOREM PoolCorrect == Spec => []PoolInv
<1>1. Init => PoolInv
  <2>1. Init => TypeOK
    BY ZenonT(40), ProgressAssumption DEF Init, TypeOK, Holding, Idle
  <2>2. Init => LinesInv
    BY ProgressAssumption DEF Init, LinesInv, Holding, Idle
  <2> QED BY <2>1, <2>2 DEF PoolInv
<1>2. PoolInv /\ [Next]_vars => PoolInv'
  BY PoolStep
<1> QED BY <1>1, <1>2, PTL DEF Spec

\* No two workers ever share a slot, nor hold one that is in the channel.
THEOREM SlotsNeverShared == Spec => []TypeOK
<1>1. PoolInv => TypeOK
  BY DEF PoolInv
<1> QED BY <1>1, PoolCorrect, PTL

\* A line is never shown idle while its worker works, nor busy in the pool.
THEOREM LinesAlwaysMatch == Spec => []LinesMatchWork
<1>1. PoolInv => LinesMatchWork
  BY DEF PoolInv, LinesInv, LinesMatchWork
<1> QED BY <1>1, PoolCorrect, PTL
=============================================================================
