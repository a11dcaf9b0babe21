------------------------------ MODULE Outbound ------------------------------
(***************************************************************************)
(* Outbound calls of an application, composed of HTTPClient, TokenManager  *)
(* and FCM.  A call is of one of three kinds:                              *)
(*   "api"   httpclient.WithRetry around a request that first takes its    *)
(*           token from the TokenManager, under the application's mutex;   *)
(*   "fcm"   a delivery that sends a notification with fcm.Client, and     *)
(*           again as fcm/README.md:61-76 says, up to MaxAttempts times.   *)
(*   "plain" one request stamped by SetAuthorizationHeader.                *)
(* The servers are external: they may answer anything, or their answer may *)
(* be lost.                                                                *)
(***************************************************************************)
EXTENDS HTTPClient, TokenManager, FCM

CONSTANTS
  KindsOf,           \* call -> the kinds it may be
  Statuses, Headers, \* answers of the API
  Replies,           \* answers of FCM, by what FCM did: "ok", "gone", "bad", "busy"
  Messages           \* notifications, one of them without an address

ASSUME OutboundAssumption ==
  /\ KindsOf \in [Calls -> SUBSET {"api", "fcm", "plain"}]
  /\ Headers \subseteq Header
  /\ None \notin {"accepted", "discarded", "failed"}

\* Titles are UTF-8: they begin with the first byte of a character.
ASSUME MessagesAssumption ==
  \A m \in Messages :
    /\ m.title \in Seq({"start", "cont"})
    /\ m.title # <<>> => RuneStart(m.title[1])

\* The first code among the details of a reply is one of these.
Carries(r, codes) ==
  r.parsed /\ \E i \in DOMAIN r.details :
    r.details[i] \in codes /\ \A j \in 1..i - 1 : r.details[j] = ""

\* How FCM words what it did: 200 when it accepted; the first code of the details
\* names a registration that is gone, and no other answer names one; what may be
\* sent again has a status or a first code that says so.
Worded(did, r) ==
  LET gone == {"UNREGISTERED", "SENDER_ID_MISMATCH"}
      busy == {"QUOTA_EXCEEDED", "UNAVAILABLE", "INTERNAL"}
  IN /\ r.status = 200 <=> did = "ok"
     /\ did = "gone" => Carries(r, gone)
     /\ did # "gone" =>
          r.api \notin gone /\ \A i \in DOMAIN r.details : r.details[i] \notin gone
     /\ did = "busy" => r.status = 429 \/ r.status >= 500 \/ Carries(r, busy)

ASSUME RepliesAssumption ==
  \A did \in DOMAIN Replies :
    /\ did \in {"ok", "gone", "bad", "busy"}
    /\ \A r \in Replies[did] : r \in Reply /\ Worded(did, r)

VARIABLES
  kind,     \* what a call is
  scope,    \* the scope it takes its token from
  held,     \* the token its request carries
  holder,   \* who holds the mutex around the TokenManager
  message,  \* the notification of a delivery, and what was sent of it
  verdict,  \* what became of a delivery
  truth     \* history: what FCM did with the last send it answered

callVars == <<kind, scope, message>>
fcmVars == <<verdict, truth>>
attemptVars == <<attempt, answer, outcome, done, chosen, wait, floor, late>>
vars == <<retryVars, tokenVars, callVars, held, holder, fcmVars>>

Encodings == {"gzip", "deflate", "br", "zstd", "identity", "unknown"}

Init ==
  /\ RetryInit /\ TokenInit
  /\ kind = [c \in Calls |-> None]
  /\ scope = [c \in Calls |-> EmptyScope]
  /\ held = [c \in Calls |-> NoToken]
  /\ holder = None
  /\ message = [c \in Calls |-> None]
  /\ verdict = [c \in Calls |-> None]
  /\ truth = [c \in Calls |-> None]

-----------------------------------------------------------------------------
(* Calls of WithRetry. *)

Call(c) ==
  /\ WithRetry(c, "token")
  /\ \E k \in KindsOf[c] \ {"fcm"} : kind' = [kind EXCEPT ![c] = k]
  /\ \E s \in Scopes \union {EmptyScope} : scope' = [scope EXCEPT ![c] = s]
  /\ UNCHANGED <<tokenVars, message, held, holder, fcmVars>>

\* getAccessToken returns an error, or a token for the request.
NoAccessToken(c) ==
  \/ kind[c] = "api" /\ Failed(c, "net")
  \/ kind[c] = "plain" /\ Goto(c, "returned") /\ UNCHANGED attemptVars

AccessToken(c, token) ==
  /\ held' = [held EXCEPT ![c] = token]
  /\ Goto(c, "request")
  /\ UNCHANGED attemptVars

\* getAccessToken under the mutex: refuse an empty scope, serve the cached
\* token, or authenticate, which keeps the mutex.
GetAccessToken(c) ==
  /\ pc[c] = "token" /\ holder = None
  /\ \/ /\ scope[c] = EmptyScope
        /\ NoAccessToken(c)
        /\ UNCHANGED <<tokenVars, held, holder>>
     \/ /\ scope[c] # EmptyScope /\ Valid(scope[c])
        /\ AccessToken(c, cache[scope[c]])
        /\ UNCHANGED <<tokenVars, holder>>
     \/ /\ scope[c] # EmptyScope /\ ~Valid(scope[c])
        /\ Authenticate
        /\ holder' = c
        /\ Goto(c, "auth")
        /\ UNCHANGED <<held, attemptVars>>
  /\ UNCHANGED <<callVars, fcmVars>>

\* authenticate succeeds; the stored token is returned as it is.
Authenticated(c, encoding, magic) ==
  /\ pc[c] = "auth"
  /\ AuthArrives(scope[c], encoding, magic)
  /\ AccessToken(c, cache'[scope[c]])
  /\ holder' = None
  /\ UNCHANGED <<callVars, fcmVars>>

\* It fails: the context's error is formatted, so errors.Is does not find it.
NotAuthenticated(c) ==
  /\ pc[c] = "auth"
  /\ AuthFails
  /\ holder' = None
  /\ NoAccessToken(c)
  /\ UNCHANGED <<callVars, held, fcmVars>>

\* NewRequestWithContext returns the answer ...
Response(c, status, h) ==
  /\ kind[c] = "api" /\ pc[c] = "request"
  /\ held' = [held EXCEPT ![c] = NoToken]
  /\ Answered(c, status, h)
  /\ UNCHANGED <<tokenVars, callVars, holder, fcmVars>>

\* ... or an error: the context's (always, once that has ended, and when the
\* client's own timeout passes) or any other.
RequestFails(c, err) ==
  /\ kind[c] = "api" /\ pc[c] = "request"
  /\ done[c] => err = "ctx"
  /\ held' = [held EXCEPT ![c] = NoToken]
  /\ Failed(c, err)
  /\ UNCHANGED <<tokenVars, callVars, holder, fcmVars>>

\* A plain request is over, whatever its answer.
PlainDone(c) ==
  /\ kind[c] = "plain" /\ pc[c] = "request"
  /\ held' = [held EXCEPT ![c] = NoToken]
  /\ Goto(c, "returned")
  /\ UNCHANGED <<attemptVars, tokenVars, callVars, holder, fcmVars>>

WaitEnds(c) ==
  /\ kind[c] = "api"
  /\ SleepEnds(c) \/ BackoffEnds(c, "token")
  /\ UNCHANGED <<tokenVars, callVars, held, holder, fcmVars>>

-----------------------------------------------------------------------------
(* Deliveries. *)

\* Send refuses a message without an address before it sends anything.
Deliver(c) ==
  /\ pc[c] = "idle" /\ "fcm" \in KindsOf[c]
  /\ \E m \in Messages :
       /\ message' = [message EXCEPT ![c] = [title |-> m.title, sent |-> NewSendRequest(m)]]
       /\ IF m.address
          THEN BeginAttempt(c, 1, "send") /\ UNCHANGED verdict
          ELSE /\ Goto(c, "returned")
               /\ verdict' = [verdict EXCEPT ![c] = "refused"]
               /\ UNCHANGED <<attempt, late>>
  /\ kind' = [kind EXCEPT ![c] = "fcm"]
  /\ UNCHANGED <<answer, outcome, done, chosen, wait, floor, tokenVars, scope, held, holder, truth>>

\* The caller's next step: a verdict, or another send after d.
Settle(c, v, d) ==
  IF v = "retry" /\ attempt[c] < MaxAttempts
  THEN /\ Goto(c, "backoff") /\ Park(c, Greater(d, 1))
       /\ floor' = [floor EXCEPT ![c] = d]
       /\ UNCHANGED verdict
  ELSE /\ Goto(c, "returned")
       /\ verdict' = [verdict EXCEPT ![c] = IF v = "retry" THEN "exhausted" ELSE v]
       /\ UNCHANGED <<wait, chosen, floor>>

\* FCM answers what it did.
FCMAnswers(c, did) ==
  /\ pc[c] = "send"
  /\ \E r \in Replies[did] :
       LET resp == NewSendResponse(r) IN Settle(c, Disposition(resp), resp.retryAfter)
  /\ truth' = [truth EXCEPT ![c] = did]
  /\ UNCHANGED <<attempt, answer, outcome, done, late, tokenVars, callVars, held, holder>>

\* Send fails: FCM was not reached, or its answer is lost.
SendFails(c) ==
  /\ pc[c] = "send"
  /\ Settle(c, "retry", 0)
  /\ UNCHANGED <<attempt, answer, outcome, done, late, tokenVars, callVars, held, holder, truth>>

SendAgain(c) ==
  /\ kind[c] = "fcm" /\ pc[c] = "backoff" /\ chosen[c] = "timer"
  /\ BeginAttempt(c, attempt[c] + 1, "send")
  /\ UNCHANGED <<answer, outcome, done, chosen, wait, floor, tokenVars, callVars, held, holder, fcmVars>>

-----------------------------------------------------------------------------
CancelCall(c) ==
  /\ kind[c] = "api"
  /\ Cancel(c)
  /\ UNCHANGED <<tokenVars, callVars, held, holder, fcmVars>>

ForgetCall(c) ==
  /\ Forget(c)
  /\ message' = [message EXCEPT ![c] = None]
  /\ verdict' = [verdict EXCEPT ![c] = None]
  /\ truth' = [truth EXCEPT ![c] = None]
  /\ kind' = [kind EXCEPT ![c] = None]
  /\ scope' = [scope EXCEPT ![c] = EmptyScope]
  /\ UNCHANGED <<tokenVars, held, holder>>

GrantToken(life) ==
  IssuerGrants(life) /\ UNCHANGED <<retryVars, callVars, held, holder, fcmVars>>

Tick ==
  TickTimers /\ TickTokens /\ UNCHANGED <<callVars, held, holder, fcmVars>>

CallStep(c) ==
  \/ GetAccessToken(c) \/ NotAuthenticated(c) \/ PlainDone(c) \/ WaitEnds(c)
  \/ \E e \in Encodings, magic \in BOOLEAN : Authenticated(c, e, magic)
  \/ \E status \in Statuses, h \in Headers : Response(c, status, h)
  \/ \E err \in {"ctx", "net"} : RequestFails(c, err)
  \/ \E did \in DOMAIN Replies : FCMAnswers(c, did)
  \/ SendFails(c) \/ SendAgain(c)

Next ==
  \/ \E c \in Calls : Call(c) \/ Deliver(c) \/ CallStep(c) \/ CancelCall(c) \/ ForgetCall(c)
  \/ \E life \in Lifetimes : GrantToken(life)
  \/ Tick

Spec == Init /\ [][Next]_vars

\* Goroutines run, requests are answered or time out, time passes.  A mutex is
\* granted to every waiter in the end.
Fairness ==
  /\ \A c \in Calls : WF_vars(CallStep(c)) /\ SF_vars(GetAccessToken(c))
  /\ WF_vars(Tick)

FairSpec == Spec /\ Fairness

-----------------------------------------------------------------------------
(* Properties. *)

\* Every variable has its type; a backoff never exceeds its maximum and a
\* server never makes a call sleep beyond the cap (retry.go:41-51, client.go:217-218).
TypeOK ==
  /\ pc \in [Calls -> {"idle", "token", "auth", "request", "sleep", "backoff", "send", "returned"}]
  /\ attempt \in [Calls -> 0..MaxAttempts]
  /\ \A c \in Calls :
       /\ answer[c] \in [status : Statuses, body : 1..MaxAttempts] \union {None}
       /\ outcome[c] \in [err : {"nil", "net", "ctx"},
                          ans : [status : Statuses, body : 1..MaxAttempts] \union {None}] \union {None}
       /\ kind[c] # "fcm" => wait[c] \in 0..(IF pc[c] = "sleep" THEN RetryAfterCap ELSE WaitMax)
       /\ held[c] \in TokenAccess \union {NoToken}
  /\ done \in [Calls -> BOOLEAN] /\ chosen \in [Calls -> {"parked", "timer", "done"}]
  /\ floor \in [Calls -> Nat] /\ late \in [Calls -> Nat]
  /\ cache \in [Scopes -> TokenAccess \union {NoToken}]
  /\ auth \in [age : 0..AuthTimeout, granted : TokenAccess \union {NoToken}] \union {NoAuth}
  /\ holder \in Calls \union {None}
  /\ kind \in [Calls -> {"api", "fcm", "plain", None}] /\ scope \in [Calls -> Scopes \union {EmptyScope}]

\* After a transient answer the next attempt does not begin before the wait
\* the server asked for (up to the cap) and the backoff have both passed:
\* Retry-After is a floor "in addition to gobox/retry's own backoff"
\* (client.go:180-183).  fcm's caller waits what SendResponse.RetryAfter says.
FloorRespected ==
  \A c \in Calls : pc[c] \in {"token", "auth", "request", "send"} => floor[c] = 0 \/ attempt[c] = 1

\* "Context cancellation is never retried" (client.go:177): at most the attempt
\* whose wait had ended before the cancellation still begins, although a failed
\* authentication hides the context's error from shouldRetry.
AtMostOneLateAttempt == \A c \in Calls : late[c] <= 1

\* "validation errors and definitive authentication failures are never retried"
\* (client.go:175): an answer other than 429 and 5xx ends the call.
DefinitiveIsFinal ==
  \A c \in Calls :
    answer[c] # None /\ answer[c].status \notin {429} \union 500..599 => pc[c] = "returned"

\* The last attempt decides: a body that WithRetry returns is that attempt's,
\* and a transient answer or a network failure is reported only after all
\* attempts, never as a leftover of an earlier one (client.go:190-227).
LastAttemptDecides ==
  \A c \in Calls : outcome[c] # None =>
    /\ outcome[c].ans # None =>
         /\ outcome[c].ans.body = attempt[c]
         /\ outcome[c].ans.status \in {429} \union 500..599 => attempt[c] = MaxAttempts
    /\ outcome[c].err = "net" => attempt[c] = MaxAttempts

\* The five seconds absorb the latency of the answer (oauth2/README.md, Notes):
\* a token handed out is still valid at the issuer, unless its answer took
\* longer than them (or than the token lives), and then it has expired by no
\* more than the rest of that latency (token_manager.go:199-237).
SkewAbsorbsLatency ==
  \A c \in Calls : held[c] # NoToken =>
    held[c].real >= 1 - Greater(0, held[c].latency - Lesser(Skew, held[c].life - 1))

\* What the caller does with a delivery is what FCM said of it: a registration
\* is removed only when it is gone, a message failed only when it is bad, and "a
\* 200 is an acceptance regardless" (response.go:34-105).
VerdictIsTrue ==
  \A c \in Calls :
    /\ verdict[c] = "accepted" => truth[c] = "ok"
    /\ verdict[c] = "discarded" => truth[c] = "gone"
    /\ verdict[c] = "failed" => truth[c] = "bad"

\* A title is sent whole, or cut to the longest whole characters within the
\* limit (message.go:83-92).
TitlesWhole ==
  \A c \in Calls : message[c] # None =>
    LET full == message[c].title
        sent == message[c].sent.title
        whole(n) == n = Len(full) \/ RuneStart(full[n + 1])
    IN /\ sent = SubSeq(full, 1, Len(sent))
       /\ Len(sent) <= MaxTitleBytes /\ whole(Len(sent))
       /\ \A n \in Len(sent) + 1..Len(full) : whole(n) => n > MaxTitleBytes

\* Every call returns: attempts, sleeps, backoffs, authentications and the wait
\* for the mutex all end.
CallsReturn == \A c \in Calls : pc[c] # "idle" ~> pc[c] = "returned"

\* The contract of a call with retries: it waits what it must and no longer than the
\* caps, stops at a cancellation and at a definitive answer, and reports its last
\* attempt (retry.go:12-52, client.go:170-228).
RetryContract ==
  TypeOK /\ FloorRespected /\ AtMostOneLateAttempt /\ DefinitiveIsFinal /\ LastAttemptDecides

\* A notification is delivered as it was meant and its verdict is FCM's
\* (message.go:56-92, response.go:34-105).
DeliveriesTrue == VerdictIsTrue /\ TitlesWhole
=============================================================================
