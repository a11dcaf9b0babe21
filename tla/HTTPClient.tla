----------------------------- MODULE HTTPClient -----------------------------
(***************************************************************************)
(* httpclient.WithRetry (src/httpclient/client.go) over retry.Do           *)
(* (src/retry/retry.go).  A call runs do once per attempt; do, which the   *)
(* application supplies, is the request of a composing module and ends in  *)
(* Answered or Failed.                                                     *)
(*                                                                         *)
(* Time is relative: wait is what is left of a timer, Tick takes one unit  *)
(* off all of them.  A parked select is woken by whichever of its timer    *)
(* and the context comes first; the goroutine may run again much later.    *)
(***************************************************************************)
EXTENDS Integers

CONSTANTS
  Calls,
  MaxAttempts, WaitMin, WaitMax, RetryAfterCap,
  Second,      \* units of time.Duration in a second
  MaxDuration, \* the largest time.Duration
  None

ASSUME HTTPClientAssumption ==
  /\ MaxAttempts \in Nat \ {0} /\ WaitMin \in Nat \ {0} /\ WaitMax \in Nat
  /\ RetryAfterCap \in Nat \ {0} /\ Second \in Nat \ {0} /\ MaxDuration \in Nat
  /\ WaitMin <= WaitMax /\ 2 * WaitMax <= MaxDuration /\ RetryAfterCap <= MaxDuration

VARIABLES
  pc,      \* where a call is
  attempt, \* the attempt it makes, 1-based
  answer,  \* body and status of the last attempt that got an answer, or None
  outcome, \* what WithRetry returned
  done,    \* its context has ended
  chosen,  \* the select it waits in: "parked", or the case that woke it
  wait,    \* what is left of the select's timer
  floor,   \* history: what is left of the wait owed before the next attempt
  late     \* history: attempts begun after the context had ended

retryVars == <<pc, attempt, answer, outcome, done, chosen, wait, floor, late>>

-----------------------------------------------------------------------------
Lesser(a, b) == IF a <= b THEN a ELSE b
Greater(a, b) == IF a <= b THEN b ELSE a

\* Mutant: the doubled delay is not compared with the maximum.
Backoff_Uncapped(n, min, max) == min * 2^(n - 1)

\* retry.backoff: doubled for every attempt but the first, and compared with
\* the maximum only then.
Backoff(n, min, max) ==
  LET delay[i \in 1..n] ==
        IF i = 1 THEN min ELSE Lesser(2 * delay[i - 1], max)
  IN delay[n]

\* A signed product of the width of time.Duration.
Wrapped(d) == ((d + MaxDuration + 1) % (2 * MaxDuration + 2)) - (MaxDuration + 1)

\* A Retry-After header: absent, garbage, whole seconds or a date.
NoHeader == [kind |-> "none", value |-> 0]
Header == [kind : {"seconds", "date"}, value : Int] \union {NoHeader}

\* ParseRetryAfter; a date is given by its distance from now.
ParseRetryAfter(h) ==
  CASE h.kind = "seconds" /\ h.value >= 0 -> Wrapped(h.value * Second)
    [] h.kind = "date" /\ h.value > 0 -> h.value
    [] OTHER -> 0

\* Mutant: every client error counts as transient.
IsTransientHTTPStatus_4xx(status) == status \in 400..599
IsTransientHTTPStatus(status) == status = 429 \/ status \in 500..599

\* WithRetry's shouldRetry: "ctx" stands for the errors that errors.Is matches
\* with context.Canceled or DeadlineExceeded, a client's timeout included.
ShouldRetry(err) == err # "ctx"

\* Mutant: a body that an earlier attempt left behind hides the error.
Outcome_Stale(err, ans) ==
  IF ans = None THEN [err |-> err, ans |-> None] ELSE [err |-> "nil", ans |-> ans]
\* What WithRetry returns once retry.Do returned err.
Outcome(err, ans) ==
  IF err \in {"nil", "transient"} THEN [err |-> "nil", ans |-> ans]
  ELSE [err |-> err, ans |-> None]

RetryInit ==
  /\ pc = [c \in Calls |-> "idle"]
  /\ attempt = [c \in Calls |-> 0]
  /\ answer = [c \in Calls |-> None]
  /\ outcome = [c \in Calls |-> None]
  /\ done = [c \in Calls |-> FALSE]
  /\ chosen = [c \in Calls |-> "parked"]
  /\ wait = [c \in Calls |-> 0]
  /\ floor = [c \in Calls |-> 0]
  /\ late = [c \in Calls |-> 0]

Goto(c, place) == pc' = [pc EXCEPT ![c] = place]

\* The select of sleepCtx and of retry.Do begins.
Park(c, d) ==
  /\ wait' = [wait EXCEPT ![c] = d]
  /\ chosen' = [chosen EXCEPT ![c] = IF done[c] THEN "done" ELSE "parked"]

Return(c, err, ans) ==
  /\ Goto(c, "returned")
  /\ outcome' = [outcome EXCEPT ![c] = Outcome(err, ans)]
  /\ wait' = [wait EXCEPT ![c] = 0]
  /\ chosen' = [chosen EXCEPT ![c] = "parked"]

\* retry.Do calls fn for the n-th time; place is where do begins.
BeginAttempt(c, n, place) ==
  /\ attempt' = [attempt EXCEPT ![c] = n]
  /\ late' = [late EXCEPT ![c] = IF done[c] THEN @ + 1 ELSE @]
  /\ Goto(c, place)

\* fn returned err: give up, or wait for the backoff.
AttemptFailed(c, err, ans) ==
  IF attempt[c] = MaxAttempts \/ ~ShouldRetry(err)
  THEN Return(c, err, ans)
  ELSE /\ Goto(c, "backoff")
       /\ Park(c, Backoff(attempt[c], WaitMin, WaitMax))
       /\ UNCHANGED outcome

-----------------------------------------------------------------------------
\* The application calls WithRetry with a fresh context.
WithRetry(c, place) ==
  /\ pc[c] = "idle"
  /\ BeginAttempt(c, 1, place)
  /\ UNCHANGED <<answer, outcome, done, chosen, wait, floor>>

\* do fails: body and status are overwritten too.
Failed(c, err) ==
  /\ answer' = [answer EXCEPT ![c] = None]
  /\ AttemptFailed(c, err, None)
  /\ floor' = [floor EXCEPT ![c] = 0]
  /\ UNCHANGED <<attempt, done, late>>

\* The wait owed after a transient answer with header h: what it asks for, if
\* a time.Duration can hold that, and the backoff.
Owed(c, h) ==
  LET asked == IF h.kind = "seconds" THEN h.value * Second ELSE h.value IN
  (IF asked \in 0..MaxDuration THEN Lesser(asked, RetryAfterCap) ELSE 0)
    + Backoff(attempt[c], WaitMin, WaitMax)

\* Mutant: the wait the server asks for is left to the backoff.
Answered_NoSleep(c, status, h) ==
  LET ans == [status |-> status, body |-> attempt[c]] IN
  /\ answer' = [answer EXCEPT ![c] = ans]
  /\ IF ~IsTransientHTTPStatus(status) THEN Return(c, "nil", ans)
     ELSE AttemptFailed(c, "transient", ans)
  /\ floor' = [floor EXCEPT ![c] = Owed(c, h)]
  /\ UNCHANGED <<attempt, done, late>>

\* do returns an answer.  A transient one with a delay is slept on, also when
\* no attempt is left.
Answered(c, status, h) ==
  LET ans == [status |-> status, body |-> attempt[c]]
      retryAfter == ParseRetryAfter(h)
  IN
  /\ answer' = [answer EXCEPT ![c] = ans]
  /\ CASE ~IsTransientHTTPStatus(status) -> Return(c, "nil", ans)
       [] IsTransientHTTPStatus(status) /\ retryAfter > 0 ->
            /\ Goto(c, "sleep")
            /\ Park(c, Lesser(retryAfter, RetryAfterCap))
            /\ UNCHANGED outcome
       [] OTHER -> AttemptFailed(c, "transient", ans)
  /\ floor' = [floor EXCEPT ![c] = IF pc'[c] = "returned" THEN 0 ELSE Owed(c, h)]
  /\ UNCHANGED <<attempt, done, late>>

\* sleepCtx returns, cancelled or not.
SleepEnds(c) ==
  /\ pc[c] = "sleep" /\ chosen[c] # "parked"
  /\ AttemptFailed(c, "transient", answer[c])
  /\ UNCHANGED <<attempt, answer, done, floor, late>>

\* Mutant: retry.Do sleeps without an eye on the context.
BackoffEnds_Deaf(c, place) ==
  /\ pc[c] = "backoff" /\ chosen[c] # "parked"
  /\ BeginAttempt(c, attempt[c] + 1, place)
  /\ UNCHANGED <<answer, outcome, done, chosen, wait, floor>>

\* Mutant: the attempts are not counted.
BackoffEnds_NotCounted(c, place) ==
  /\ pc[c] = "backoff" /\ chosen[c] # "parked"
  /\ \/ chosen[c] = "done" /\ Return(c, "ctx", answer[c]) /\ UNCHANGED <<attempt, late>>
     \/ chosen[c] = "timer" /\ BeginAttempt(c, attempt[c], place)
        /\ chosen' = [chosen EXCEPT ![c] = "parked"] /\ UNCHANGED <<outcome, wait>>
  /\ UNCHANGED <<answer, done, floor>>

\* The select of retry.Do: the context's error, or the next attempt.
BackoffEnds(c, place) ==
  /\ pc[c] = "backoff" /\ chosen[c] # "parked"
  /\ \/ chosen[c] = "done" /\ Return(c, "ctx", answer[c]) /\ UNCHANGED <<attempt, late>>
     \/ chosen[c] = "timer" /\ BeginAttempt(c, attempt[c] + 1, place)
        /\ chosen' = [chosen EXCEPT ![c] = "parked"] /\ UNCHANGED <<outcome, wait>>
  /\ UNCHANGED <<answer, done, floor>>

\* The caller cancels, or its deadline passes.
Cancel(c) ==
  /\ pc[c] \notin {"idle", "returned"} /\ ~done[c]
  /\ done' = [done EXCEPT ![c] = TRUE]
  /\ chosen' = [chosen EXCEPT ![c] = IF pc[c] \in {"sleep", "backoff"} /\ @ = "parked"
                                     THEN "done" ELSE @]
  /\ UNCHANGED <<pc, attempt, answer, outcome, wait, floor, late>>

\* One unit of time passes.
TickTimers ==
  /\ wait' = [c \in Calls |-> Greater(wait[c] - 1, 0)]
  /\ floor' = [c \in Calls |-> Greater(floor[c] - 1, 0)]
  /\ chosen' = [c \in Calls |-> IF pc[c] \in {"sleep", "backoff"} /\ chosen[c] = "parked"
                                   /\ wait[c] <= 1
                                THEN "timer" ELSE chosen[c]]
  /\ UNCHANGED <<pc, attempt, answer, outcome, done, late>>

\* The application drops the result; a later call starts over.
Forget(c) ==
  /\ pc[c] = "returned"
  /\ Goto(c, "idle")
  /\ attempt' = [attempt EXCEPT ![c] = 0]
  /\ answer' = [answer EXCEPT ![c] = None]
  /\ outcome' = [outcome EXCEPT ![c] = None]
  /\ done' = [done EXCEPT ![c] = FALSE]
  /\ chosen' = [chosen EXCEPT ![c] = "parked"]
  /\ wait' = [wait EXCEPT ![c] = 0]
  /\ floor' = [floor EXCEPT ![c] = 0]
  /\ late' = [late EXCEPT ![c] = 0]
=============================================================================
