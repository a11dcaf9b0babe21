--------------------------------- MODULE FCM ---------------------------------
(***************************************************************************)
(* fcm.Client.Send (src/fcm): what is sent, and what FCM's answer means.   *)
(***************************************************************************)
EXTENDS Integers, Sequences

CONSTANTS MaxTitleBytes

ASSUME FCMAssumption == MaxTitleBytes \in Nat

\* A text is a sequence of bytes that start a character or continue one.
RuneStart(b) == b = "start"

\* Mutant: the text is cut at the limit.
TruncateBytes_Raw(s, limit) == IF Len(s) <= limit THEN s ELSE SubSeq(s, 1, limit)

\* truncateBytes steps back to a byte that starts a character and drops it.
TruncateBytes(s, limit) ==
  IF Len(s) <= limit THEN s
  ELSE LET cut == CHOOSE l \in 0..limit :
                    /\ l > 0 => RuneStart(s[l + 1])
                    /\ \A k \in l + 1..limit : ~RuneStart(s[k + 1])
       IN SubSeq(s, 1, cut)

\* newSendRequest (the body is cut like the title).
NewSendRequest(msg) == [title |-> TruncateBytes(msg.title, MaxTitleBytes)]

\* An answer of FCM: HTTP status, the message name, and an error with its API
\* status and the codes of its details; parsed is FALSE for any other body.
Reply == [status : 100..599, named : BOOLEAN, parsed : BOOLEAN,
          api : STRING, details : Seq(STRING), delay : Int]

\* Mutant: the API status goes before the details.
ParseErrorCode_StatusFirst(r) == IF r.parsed THEN r.api ELSE ""

\* parseErrorCode: the first detail that carries a code, else the API status.
ParseErrorCode(r) ==
  LET coded == {i \in DOMAIN r.details : r.details[i] # ""} IN
  CASE ~r.parsed -> ""
    [] r.parsed /\ coded # {} -> r.details[CHOOSE i \in coded : \A j \in coded : i <= j]
    [] OTHER -> r.api

\* parseRetryAfter is ParseRetryAfter with negative results cut to zero.
NewSendResponse(r) ==
  IF r.status = 200
  THEN [status |-> 200, name |-> r.parsed /\ r.named, code |-> "", retryAfter |-> 0]
  ELSE [status |-> r.status, name |-> FALSE, code |-> ParseErrorCode(r),
        retryAfter |-> IF r.delay > 0 THEN r.delay ELSE 0]

Accepted(resp) == resp.status = 200

Retryable(resp) ==
  \/ resp.code \in {"QUOTA_EXCEEDED", "UNAVAILABLE", "INTERNAL"}
  \/ resp.status = 429 \/ resp.status >= 500

InvalidToken(resp) == resp.code \in {"UNREGISTERED", "SENDER_ID_MISMATCH"}

\* The caller's decision, in the order of fcm/README.md:64-76.
Disposition(resp) ==
  IF Accepted(resp) THEN "accepted"
  ELSE IF InvalidToken(resp) THEN "discarded"
  ELSE IF Retryable(resp) THEN "retry" ELSE "failed"
=============================================================================
