------------------------------- MODULE Progress -------------------------------
(***************************************************************************)
(* cli.Progress (src/cli/progress.go): a pool of terminal lines handed to  *)
(* workers through a buffered channel, and a render goroutine started and  *)
(* stopped by callers.  A channel operation and a critical section under   *)
(* p.mu are one step each; between them other goroutines run.              *)
(***************************************************************************)
EXTENDS Naturals

CONSTANTS
  Slots,      \* the display lines
  Workers,    \* goroutines that acquire, use and release a slot
  Starters, Stoppers, \* calls of Start and of Stop
  NoSlot

ASSUME ProgressAssumption == NoSlot \notin Slots

VARIABLES
  freeCh,    \* the slots in the channel
  status,    \* slot -> its lineStatus
  wpc, idx,  \* a worker: where it is, and its slot
  once,      \* p.once has run
  loop,      \* the render goroutine: "none", "running", "exited"
  stopCh,    \* "open" or "closed"
  started,   \* a frame has been drawn
  spc,       \* a Start or Stop call: where it is
  panicked   \* a channel was closed twice

slotVars == <<freeCh, status, wpc, idx>>
loopVars == <<once, loop, stopCh, started>>
vars == <<slotVars, loopVars, spc, panicked>>

Idle == "idle"
Init ==
  /\ freeCh = Slots
  /\ status = [s \in Slots |-> Idle]
  /\ wpc = [w \in Workers |-> "out"]
  /\ idx = [w \in Workers |-> NoSlot]
  /\ once = FALSE
  /\ loop = "none"
  /\ stopCh = "open"
  /\ started = FALSE
  /\ spc = [c \in Starters \union Stoppers |-> "idle"]
  /\ panicked = FALSE

WGoto(w, place) == wpc' = [wpc EXCEPT ![w] = place]
Draw(w, st) == status' = [status EXCEPT ![idx[w]] = st]

-----------------------------------------------------------------------------
(* A worker's slot. *)

\* Mutant: the index is read off the channel's head without removing it.
Acquire_Peek(w, s) ==
  /\ wpc[w] = "out" /\ s \in freeCh
  /\ idx' = [idx EXCEPT ![w] = s]
  /\ WGoto(w, "taken")
  /\ UNCHANGED <<freeCh, status, loopVars, spc, panicked>>

\* Acquire, up to the receive from freeCh.
Acquire(w, s) ==
  /\ wpc[w] = "out" /\ s \in freeCh
  /\ freeCh' = freeCh \ {s}
  /\ idx' = [idx EXCEPT ![w] = s]
  /\ WGoto(w, "taken")
  /\ UNCHANGED <<status, loopVars, spc, panicked>>

\* The rest of Acquire, under the lock.
Claim(w) ==
  /\ wpc[w] = "taken"
  /\ Draw(w, "running")
  /\ WGoto(w, "working")
  /\ UNCHANGED <<freeCh, idx, loopVars, spc, panicked>>

\* Done and Fail; Update changes only the message.
Finish(w, st) ==
  /\ wpc[w] = "working" /\ st \in {"done", "failed"}
  /\ Draw(w, st)
  /\ UNCHANGED <<freeCh, wpc, idx, loopVars, spc, panicked>>

\* Mutant: the slot goes back to the pool before it is marked idle.
Release_FreeFirst(w) ==
  /\ wpc[w] = "working"
  /\ freeCh' = freeCh \union {idx[w]}
  /\ WGoto(w, "cleared")
  /\ UNCHANGED <<status, idx, loopVars, spc, panicked>>

\* Mutant: a failed worker's slot is not returned.
Release_Leaks(w) ==
  /\ wpc[w] = "working" /\ status[idx[w]] # "failed"
  /\ Draw(w, Idle)
  /\ WGoto(w, "cleared")
  /\ UNCHANGED <<freeCh, idx, loopVars, spc, panicked>>

\* Release, up to the end of its critical section.
Release(w) ==
  /\ wpc[w] = "working"
  /\ Draw(w, Idle)
  /\ WGoto(w, "cleared")
  /\ UNCHANGED <<freeCh, idx, loopVars, spc, panicked>>

\* The rest of Release: the send on freeCh.
GiveBack(w) ==
  /\ wpc[w] = "cleared"
  /\ freeCh' = freeCh \union {idx[w]}
  /\ idx' = [idx EXCEPT ![w] = NoSlot]
  /\ WGoto(w, "out")
  /\ UNCHANGED <<status, loopVars, spc, panicked>>

-----------------------------------------------------------------------------
(* The render loop. *)

Start(c) ==
  /\ spc[c] = "idle"
  /\ once' = TRUE
  /\ loop' = IF once THEN loop ELSE "running"
  /\ spc' = [spc EXCEPT ![c] = "returned"]
  /\ UNCHANGED <<slotVars, stopCh, started, panicked>>

\* A tick of the ticker; only the first frame changes the state.
Render ==
  /\ loop = "running" /\ ~started
  /\ started' = TRUE
  /\ UNCHANGED <<slotVars, once, loop, stopCh, spc, panicked>>

\* Mutant: the goroutine returns without closing doneCh.
LoopExits_NoClose ==
  /\ loop = "running" /\ stopCh = "closed"
  /\ loop' = "none"
  /\ UNCHANGED <<slotVars, once, stopCh, started, spc, panicked>>

\* The goroutine sees stopCh closed, and closes doneCh as it returns.
LoopExits ==
  /\ loop = "running" /\ stopCh = "closed"
  /\ loop' = "exited"
  /\ UNCHANGED <<slotVars, once, stopCh, started, spc, panicked>>

\* Stop consumes p.once, then tests stopCh in a select with a default.
Stop(c) ==
  /\ spc[c] = "idle"
  /\ once' = TRUE
  /\ spc' = [spc EXCEPT ![c] = IF stopCh = "closed" THEN "wait" ELSE "close"]
  /\ UNCHANGED <<slotVars, loop, stopCh, started, panicked>>

\* The default branch; closing a closed channel panics, and the call never returns.
CloseStop(c) ==
  /\ spc[c] = "close"
  /\ stopCh' = "closed"
  /\ panicked' = (stopCh = "closed")
  /\ spc' = [spc EXCEPT ![c] = IF stopCh = "closed" THEN "panicked" ELSE "wait"]
  /\ UNCHANGED <<slotVars, once, loop, started>>

\* The receive from doneCh, and the final frame.
StopReturns(c) ==
  /\ spc[c] = "wait" /\ loop = "exited"
  /\ started' = TRUE
  /\ spc' = [spc EXCEPT ![c] = "returned"]
  /\ UNCHANGED <<slotVars, once, loop, stopCh, panicked>>

StopStep(c) == CloseStop(c) \/ StopReturns(c)

\* A panic ends the program.
Next ==
  /\ ~panicked
  /\ \/ \E w \in Workers, s \in Slots : Acquire(w, s)
     \/ \E w \in Workers, st \in {"done", "failed"} : Finish(w, st)
     \/ \E w \in Workers : Claim(w) \/ Release(w) \/ GiveBack(w)
     \/ \E c \in Starters : Start(c)
     \/ \E c \in Stoppers : Stop(c) \/ StopStep(c)
     \/ Render \/ LoopExits

Spec == Init /\ [][Next]_vars

\* The goroutines of a program that has not crashed run, and workers that got a
\* slot release it in the end; receivers from freeCh are served in their order.
Fairness ==
  /\ WF_vars(~panicked /\ LoopExits)
  /\ \A c \in Stoppers : WF_vars(~panicked /\ StopStep(c))
  /\ \A w \in Workers :
       /\ WF_vars(~panicked /\ Claim(w)) /\ WF_vars(~panicked /\ Release(w))
       /\ WF_vars(~panicked /\ GiveBack(w))
       /\ SF_vars(~panicked /\ \E s \in Slots : Acquire(w, s))

FairSpec == Spec /\ Fairness

-----------------------------------------------------------------------------
(* Properties. *)

Holding == {"taken", "working", "cleared"}

\* Every variable has its type, and every slot is in exactly one place: in
\* the channel, or with one worker (progress.go:84-102).
TypeOK ==
  /\ freeCh \subseteq Slots
  /\ status \in [Slots -> {"idle", "running", "done", "failed"}]
  /\ wpc \in [Workers -> {"out"} \union Holding]
  /\ idx \in [Workers -> Slots \union {NoSlot}]
  /\ once \in BOOLEAN /\ started \in BOOLEAN /\ panicked \in BOOLEAN
  /\ loop \in {"none", "running", "exited"}
  /\ stopCh \in {"open", "closed"}
  /\ spc \in [Starters \union Stoppers -> {"idle", "close", "wait", "returned", "panicked"}]
  /\ \A w \in Workers : wpc[w] \in Holding => idx[w] \in Slots \ freeCh
  /\ \A v, w \in Workers :
       v # w /\ wpc[v] \in Holding /\ wpc[w] \in Holding => idx[v] # idx[w]

\* A slot is shown as idle while it is in the pool, and never while its worker
\* works: a release does not wipe the line of the worker that takes over.
LinesMatchWork ==
  /\ \A s \in freeCh : status[s] = Idle
  /\ \A w \in Workers : wpc[w] = "working" => status[idx[w]] # Idle

\* Once the render loop was launched, every Stop call under way returns, unless a
\* second close of stopCh has crashed the program first (progress.go:152-167).
LaunchedStopReturns ==
  \A c \in Stoppers :
    (spc[c] \in {"close", "wait"} /\ loop # "none") ~> (spc[c] = "returned" \/ panicked)

\* A worker that wants a slot gets one, unless the program crashes.
WorkersGetSlots ==
  \A w \in Workers : wpc[w] = "out" ~> (wpc[w] = "working" \/ panicked)

-----------------------------------------------------------------------------
(* What the documentation says and the code does not do. *)

\* "Start and Stop are safe to call from multiple goroutines and to call more
\* than once" (cli/README.md:87): no call panics.
StopNeverPanics == ~panicked
=============================================================================
