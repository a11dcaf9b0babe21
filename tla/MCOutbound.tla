----------------------------- MODULE MCOutbound -----------------------------
(* A bounded instance of Outbound for TLC. *)
EXTENDS Outbound, TLC

CONSTANTS c1, c2

\* One call retries or delivers, the other shares the TokenManager with it.
Kinds == c1 :> {"api", "fcm"} @@ c2 :> {"plain"}

Seconds(n) == [kind |-> "seconds", value |-> n]

\* No delay, one below and one above the cap, and one that wraps.
RetryAfters == {NoHeader, Seconds(1), Seconds(4), Seconds(8), [kind |-> "date", value |-> -1]}

Answer(status, named, parsed, api, details, delay) ==
  [status |-> status, named |-> named, parsed |-> parsed, api |-> api,
   details |-> details, delay |-> delay]

\* What FCM sends when it accepts, knows the device no more, refuses the
\* message, or cannot serve it now.
FCMReplies ==
  [ok   |-> {Answer(200, TRUE, TRUE, "", <<>>, 0), Answer(200, FALSE, TRUE, "", <<>>, 0)},
   gone |-> {Answer(404, FALSE, TRUE, "NOT_FOUND", <<"", "UNREGISTERED">>, 0)},
   bad  |-> {Answer(400, FALSE, TRUE, "INVALID_ARGUMENT", <<>>, 0)},
   busy |-> {Answer(429, FALSE, TRUE, "RESOURCE_EXHAUSTED", <<"QUOTA_EXCEEDED">>, 2),
             Answer(503, FALSE, FALSE, "", <<>>, -1)}]

\* Titles of one and of two characters, the second cut by a limit of three.
Notifications ==
  {[address |-> TRUE, title |-> <<"start">>],
   [address |-> TRUE, title |-> <<"start", "start", "cont", "cont">>],
   [address |-> FALSE, title |-> <<"start">>]}
=============================================================================
