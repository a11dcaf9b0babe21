--------------------------- MODULE OutboundProofs ---------------------------
(***************************************************************************)
(* Proofs about Outbound, for any calls, any number of attempts, any       *)
(* waits, lifetimes and answers.                                           *)
(***************************************************************************)
EXTENDS Outbound, WellFoundedInduction, TLAPS

-----------------------------------------------------------------------------
(* The inductive invariant. *)

Waiting == {"sleep", "backoff"}
Attempting == {"token", "auth", "request", "send"}
Answer == [status : Statuses, body : 1..MaxAttempts]

\* The variables of a call have their types; a backoff never exceeds its maximum
\* and a sleep never exceeds the cap.
CallType(c) ==
  /\ pc[c] \in {"idle", "token", "auth", "request", "sleep", "backoff", "send", "returned"}
  /\ attempt[c] \in 0..MaxAttempts
  /\ answer[c] \in Answer \union {None}
  /\ outcome[c] \in [err : {"nil", "net", "ctx"}, ans : Answer \union {None}] \union {None}
  /\ done[c] \in BOOLEAN /\ chosen[c] \in {"parked", "timer", "done"}
  /\ wait[c] \in Nat /\ floor[c] \in Nat /\ late[c] \in Nat
  /\ kind[c] # "fcm" => wait[c] <= IF pc[c] = "sleep" THEN RetryAfterCap ELSE WaitMax
  /\ kind[c] \in {"api", "fcm", "plain", None} /\ scope[c] \in Scopes \union {EmptyScope}

\* A call is what its place says, and counts its attempts; there is one more to
\* come while it waits for the backoff.
PlaceOK(c) ==
  /\ pc[c] = "send" => kind[c] = "fcm"
  /\ pc[c] \in {"token", "auth", "request"} => kind[c] \in {"api", "plain"}
  /\ pc[c] = "sleep" => kind[c] = "api"
  /\ pc[c] = "auth" => scope[c] \in Scopes
  /\ pc[c] \in Waiting \union Attempting => attempt[c] \in 1..MaxAttempts
  /\ pc[c] = "backoff" => attempt[c] < MaxAttempts

\* What is owed before the next attempt is still in the timers; a timer that
\* woke its call has run down.
PaceOK(c) ==
  /\ pc[c] \in Attempting => floor[c] = 0
  /\ pc[c] = "idle" => floor[c] = 0 /\ wait[c] = 0
  /\ pc[c] = "sleep" /\ chosen[c] # "done" =>
       floor[c] <= wait[c] + Backoff(attempt[c], WaitMin, WaitMax)
  /\ pc[c] = "backoff" /\ chosen[c] # "done" => floor[c] <= wait[c]
  /\ pc[c] \in Waiting /\ chosen[c] = "timer" => wait[c] = 0

\* A select that may still begin an attempt after the context ended is one
\* whose timer came first, and no attempt was late before.
LateOK(c) ==
  /\ late[c] <= 1
  /\ ~done[c] => late[c] = 0
  /\ pc[c] = "idle" => ~done[c]
  /\ pc[c] \in Waiting /\ chosen[c] = "parked" => ~done[c]
  /\ pc[c] \in Waiting /\ chosen[c] = "timer" => late[c] = 0
  /\ pc[c] \in Waiting /\ chosen[c] = "done" => done[c]

\* An answer that is slept on is this attempt's and transient; a call that has
\* not returned has no outcome.
AnswerOK(c) ==
  /\ pc[c] = "idle" => answer[c] = None
  /\ pc[c] # "returned" => outcome[c] = None
  /\ pc[c] = "sleep" => /\ answer[c] \in Answer
                        /\ answer[c].body = attempt[c]
                        /\ IsTransientHTTPStatus(answer[c].status)

\* A delivery has no verdict before it ends; what was sent is the truncated
\* notification.
DeliveryOK(c) ==
  /\ pc[c] # "returned" => verdict[c] = None
  /\ message[c] # None =>
       \E m \in Messages : message[c] = [title |-> m.title, sent |-> NewSendRequest(m)]

\* By the manager's reckoning a token expires Skew earlier than by the issuer's,
\* less what its answer took.
CachedOK(t) ==
  t.left > 0 => t.left <= t.life - Skew /\ t.real >= t.left + Skew - t.latency

\* A token on its way is as old as its answer.
GrantedOK ==
  auth # NoAuth /\ auth.granted # NoToken =>
    /\ auth.granted.real = auth.granted.life - auth.granted.latency
    /\ auth.granted.latency <= auth.age

\* An answer that is not transient has ended the call; an outcome is the last
\* attempt's.
FinalOK(c) ==
  /\ answer[c] # None /\ ~IsTransientHTTPStatus(answer[c].status) => pc[c] = "returned"
  /\ outcome[c] # None =>
       /\ outcome[c].ans # None =>
            /\ outcome[c].ans.body = attempt[c]
            /\ IsTransientHTTPStatus(outcome[c].ans.status) => attempt[c] = MaxAttempts
       /\ outcome[c].err = "net" => attempt[c] = MaxAttempts

VerdictOK(c) ==
  /\ verdict[c] = "accepted" => truth[c] = "ok"
  /\ verdict[c] = "discarded" => truth[c] = "gone"
  /\ verdict[c] = "failed" => truth[c] = "bad"

\* A token in hand is valid but for the latency beyond the skew.
TokenOK(t) ==
  /\ t \in TokenAccess
  /\ t.real >= 1 - Greater(0, t.latency - Lesser(Skew, t.life - 1))

CallInv(c) ==
  /\ CallType(c) /\ PlaceOK(c) /\ PaceOK(c) /\ LateOK(c)
  /\ AnswerOK(c) /\ FinalOK(c) /\ DeliveryOK(c) /\ VerdictOK(c)

\* One entry for every call.
Fun(f) == f = [c \in Calls |-> f[c]]
Shape ==
  /\ Fun(pc) /\ Fun(attempt) /\ Fun(answer) /\ Fun(outcome) /\ Fun(done)
  /\ Fun(chosen) /\ Fun(wait) /\ Fun(floor) /\ Fun(late) /\ Fun(kind)
  /\ Fun(scope) /\ Fun(message) /\ Fun(verdict) /\ Fun(truth)

TokenInv ==
  /\ cache \in [Scopes -> TokenAccess \union {NoToken}]
  /\ auth \in [age : 0..AuthTimeout, granted : TokenAccess \union {NoToken}] \union {NoAuth}
  /\ \A s \in Scopes : cache[s] # NoToken => CachedOK(cache[s])
  /\ GrantedOK
  /\ Fun(held) /\ \A c \in Calls : held[c] # NoToken => TokenOK(held[c])
  /\ holder \in Calls \union {None}

OInv ==
  /\ Shape /\ TokenInv
  /\ \A c \in Calls : CallInv(c)

-----------------------------------------------------------------------------
(* Waits. *)

\* Induction on the natural numbers, for a set of them.
LEMMA NatSets ==
  ASSUME NEW P, 0 \in P, \A n \in Nat : n \in P => n + 1 \in P
  PROVE  Nat \subseteq P
<1> SUFFICES ASSUME ~(Nat \subseteq P) PROVE FALSE
  OBVIOUS
<1> DEFINE S == Nat \ P
<1> DEFINE R == {ss \in Nat \X Nat : ss[1] < ss[2]}
<1>1. R = OpToRel(<, Nat)
  BY DEF OpToRel
<1>2. IsWellFoundedOn(R, Nat)
  BY NatLessThanWellFounded, <1>1
<1> HIDE DEF R
<1>3. PICK x \in S : \A y \in S : ~ (<<y, x>> \in R)
  <2>1. S # {} /\ S \subseteq Nat
    OBVIOUS
  <2> QED BY <1>2, <2>1, WFMin
<1>4. x # 0 /\ x \in Nat
  OBVIOUS
<1>5. x - 1 \in Nat /\ x - 1 < x /\ (x - 1) + 1 = x
  BY <1>4
<1>6. x - 1 \notin P
  BY <1>3, <1>5
<1>7. x - 1 \in S
  BY <1>5, <1>6
<1>8. <<x - 1, x>> \in Nat \X Nat /\ <<x - 1, x>>[1] < <<x - 1, x>>[2]
  BY <1>4, <1>5
<1>9. <<x - 1, x>> \in R
  BY <1>8 DEF R
<1> QED BY <1>3, <1>7, <1>9

\* A set of natural numbers has a least element.
LEMMA LeastExists ==
  ASSUME NEW S, S \subseteq Nat, S # {}
  PROVE  \E k \in S : \A j \in S : k <= j
<1> DEFINE P == {n \in Nat : \A k \in 0..n : k \notin S}
<1> SUFFICES ASSUME ~\E k \in S : \A j \in S : k <= j PROVE FALSE
  OBVIOUS
<1>1. 0 \in P
  OBVIOUS
<1>2. ASSUME NEW n \in Nat, n \in P PROVE n + 1 \in P
  <2>1. \A j \in S : n + 1 <= j
    BY <1>2
  <2>2. n + 1 \notin S
    BY <2>1
  <2>3. \A k \in 0..n + 1 : k \in 0..n \/ k = n + 1
    OBVIOUS
  <2> QED BY <1>2, <2>2, <2>3
<1> HIDE DEF P
<1>3. Nat \subseteq P
  BY <1>1, <1>2, NatSets
<1>4. PICK x \in S : TRUE
  OBVIOUS
<1> QED BY <1>3, <1>4 DEF P

\* d holds the delays of the first n attempts, as the loop of backoff computes them.
Delays(d, n) ==
  d = [i \in 1..n |-> IF i = 1 THEN WaitMin ELSE Lesser(2 * d[i - 1], WaitMax)]

LEMMA DelaysExist ==
  ASSUME NEW n \in Nat
  PROVE  \E d : Delays(d, n)
<1> DEFINE P == {m \in Nat : \E d : Delays(d, m)}
<1>1. 0 \in P
  <2> DEFINE d == [i \in 1..0 |-> 0]
  <2>1. Delays(d, 0)
    BY DEF Delays
  <2> QED BY <2>1
<1>2. ASSUME NEW m \in Nat, m \in P
      PROVE  m + 1 \in P
  <2>1. PICK g : Delays(g, m)
    BY <1>2
  <2> DEFINE d == [i \in 1..(m + 1) |-> IF i = m + 1 /\ i # 1 THEN Lesser(2 * g[m], WaitMax)
                                        ELSE IF i = 1 THEN WaitMin ELSE g[i]]
  <2>2. \A i \in 1..m : g[i] = IF i = 1 THEN WaitMin ELSE Lesser(2 * g[i - 1], WaitMax)
    BY <2>1 DEF Delays
  <2>3. \A i \in 1..(m + 1) :
          d[i] = IF i = 1 THEN WaitMin ELSE Lesser(2 * d[i - 1], WaitMax)
    <3> TAKE i \in 1..(m + 1)
    <3>1. CASE i = 1
      BY <3>1
    <3>2. CASE i # 1
      <4>1. i - 1 \in 1..m /\ i - 1 \in 1..(m + 1) /\ i - 1 # m + 1
        BY <3>2
      <4>2. d[i - 1] = g[i - 1]
        BY <2>2, <4>1
      <4>3. CASE i = m + 1
        BY <3>2, <4>2, <4>3
      <4>4. CASE i # m + 1
        <5>1. i \in 1..m /\ d[i] = g[i]
          BY <3>2, <4>4
        <5> QED BY <2>2, <3>2, <4>2, <5>1
      <4> QED BY <4>3, <4>4
    <3> QED BY <3>1, <3>2
  <2>4. d = [i \in 1..(m + 1) |-> d[i]]
    OBVIOUS
  <2> HIDE DEF d
  <2>5. Delays(d, m + 1)
    BY <2>3, <2>4 DEF Delays
  <2> QED BY <2>5
<1> HIDE DEF P
<1>3. n \in P
  BY <1>1, <1>2, NatSets
<1> QED BY <1>3 DEF P

\* The delay before any further attempt lies between the two waits of the
\* configuration, and doubling it stays within a time.Duration (retry.go:41-52).
LEMMA BackoffBounds ==
  ASSUME NEW n \in Nat \ {0}
  PROVE  /\ Backoff(n, WaitMin, WaitMax) \in WaitMin..WaitMax
         /\ Backoff(n, WaitMin, WaitMax) \in Nat
         /\ 2 * Backoff(n, WaitMin, WaitMax) <= MaxDuration
<1> DEFINE d == CHOOSE d : Delays(d, n)
<1>1. Delays(d, n)
  BY DelaysExist
<1>2. Backoff(n, WaitMin, WaitMax) = d[n]
  BY DEF Backoff, Delays
<1> HIDE DEF d
<1>3. \A i \in 1..n : d[i] = IF i = 1 THEN WaitMin ELSE Lesser(2 * d[i - 1], WaitMax)
  BY <1>1 DEF Delays
<1> DEFINE P == {m \in Nat : m + 1 \in 1..n => d[m + 1] \in WaitMin..WaitMax}
<1>4. 0 \in P
  BY <1>3, HTTPClientAssumption
<1>5. ASSUME NEW m \in Nat, m \in P
      PROVE  m + 1 \in P
  <2> SUFFICES ASSUME (m + 1) + 1 \in 1..n
               PROVE  d[(m + 1) + 1] \in WaitMin..WaitMax
    OBVIOUS
  <2>1. m + 1 \in 1..n /\ (m + 1) + 1 # 1 /\ ((m + 1) + 1) - 1 = m + 1
    OBVIOUS
  <2>2. d[m + 1] \in WaitMin..WaitMax
    BY <1>5, <2>1
  <2>3. d[(m + 1) + 1] = Lesser(2 * d[m + 1], WaitMax)
    BY <1>3, <2>1
  <2> QED BY <2>2, <2>3, HTTPClientAssumption DEF Lesser
<1> HIDE DEF P
<1>6. n - 1 \in P
  BY <1>4, <1>5, NatSets
<1>7. d[n] \in WaitMin..WaitMax
  BY <1>6 DEF P
<1> QED BY <1>2, <1>7, HTTPClientAssumption

\* A product that fits into a time.Duration is not changed by its width.
LEMMA WrappedFits ==
  /\ \A d \in 0..MaxDuration : Wrapped(d) = d
  /\ \A d \in Int : Wrapped(d) \in Int
<1> DEFINE w == 2 * MaxDuration + 2
<1>1. w \in Nat \ {0} /\ MaxDuration \in Nat
  BY HTTPClientAssumption
<1>2. ASSUME NEW d \in 0..MaxDuration
      PROVE  Wrapped(d) = d
  <2>1. d + MaxDuration + 1 \in 0..(w - 1)
    BY <1>1
  <2>2. \A a \in Nat, b \in Nat \ {0} : a < b => a % b = a
    OBVIOUS
  <2> HIDE DEF w
  <2>3. (d + MaxDuration + 1) % w = d + MaxDuration + 1
    BY <1>1, <2>1, <2>2
  <2> QED BY <1>1, <2>3 DEF Wrapped, w
<1>3. ASSUME NEW d \in Int
      PROVE  Wrapped(d) \in Int
  <2>1. \A a \in Int, b \in Nat \ {0} : a % b \in Int
    OBVIOUS
  <2>2. d + MaxDuration + 1 \in Int
    BY <1>1
  <2>3. (d + MaxDuration + 1) % w \in Int
    BY <1>1, <2>1, <2>2
  <2> QED BY <1>1, <2>3 DEF Wrapped
<1> QED BY <1>2, <1>3

\* What a header asks for and a time.Duration can hold is what ParseRetryAfter
\* returns (client.go:233-249).
LEMMA AskedIsParsed ==
  ASSUME NEW h \in Headers
  PROVE  LET asked == IF h.kind = "seconds" THEN h.value * Second ELSE h.value IN
         /\ asked \in Int /\ ParseRetryAfter(h) \in Int
         /\ asked \in 0..MaxDuration => ParseRetryAfter(h) = asked
<1> USE HTTPClientAssumption, OutboundAssumption
<1>1. h \in Header /\ h.value \in Int /\ h.kind \in {"none", "seconds", "date"}
  BY DEF Header, NoHeader
<1>2. \A v \in Int, s \in Nat \ {0} : v < 0 => v * s < 0
  OBVIOUS
<1>3. \A v \in Int, s \in Nat \ {0} : v * s \in Int
  OBVIOUS
<1>4. CASE h.kind = "seconds"
  <2> DEFINE p == h.value * Second
  <2>1. p \in Int /\ (h.value < 0 => p < 0)
    BY <1>1, <1>2, <1>3
  <2>2. ParseRetryAfter(h) = IF h.value >= 0 THEN Wrapped(p) ELSE 0
    BY <1>4 DEF ParseRetryAfter
  <2> HIDE DEF p
  <2>3. /\ ParseRetryAfter(h) \in Int
        /\ p \in 0..MaxDuration => ParseRetryAfter(h) = p
    BY <1>1, <2>1, <2>2, WrappedFits
  <2> QED BY <1>4, <2>1, <2>3 DEF p
<1>5. CASE h.kind = "date"
  <2>1. ParseRetryAfter(h) = IF h.value > 0 THEN h.value ELSE 0
    BY <1>5 DEF ParseRetryAfter
  <2> QED BY <1>1, <1>5, <2>1
<1>6. CASE h.kind = "none"
  <2>1. h.value = 0 /\ ParseRetryAfter(h) = 0
    BY <1>1, <1>6 DEF ParseRetryAfter, Header, NoHeader
  <2> QED BY <1>6, <2>1
<1> QED BY <1>1, <1>4, <1>5, <1>6

-----------------------------------------------------------------------------
(* What FCM says and what is sent to it. *)

\* truncateBytes finds a place to cut: the last byte within the limit that
\* starts a character, or the beginning.
LEMMA CutExists ==
  ASSUME NEW s, NEW limit \in Nat
  PROVE  \E l \in 0..limit : /\ l > 0 => RuneStart(s[l + 1])
                             /\ \A k \in l + 1..limit : ~RuneStart(s[k + 1])
<1> DEFINE Cut(n, l) == /\ l > 0 => RuneStart(s[l + 1])
                        /\ \A k \in l + 1..n : ~RuneStart(s[k + 1])
<1> DEFINE P == {n \in Nat : \E l \in 0..n : Cut(n, l)}
<1>1. 0 \in P
  OBVIOUS
<1>2. ASSUME NEW n \in Nat, n \in P
      PROVE  n + 1 \in P
  <2>1. PICK l \in 0..n : Cut(n, l)
    BY <1>2
  <2>2. CASE RuneStart(s[(n + 1) + 1])
    <3>1. n + 1 \in 0..n + 1 /\ Cut(n + 1, n + 1)
      BY <2>2
    <3> QED BY <3>1
  <2>3. CASE ~RuneStart(s[(n + 1) + 1])
    <3>1. \A k \in l + 1..n + 1 : k \in l + 1..n \/ k = n + 1
      OBVIOUS
    <3>2. l \in 0..n + 1 /\ Cut(n + 1, l)
      BY <2>1, <2>3, <3>1
    <3> QED BY <3>2
  <2> QED BY <2>2, <2>3
<1> HIDE DEF P
<1>3. limit \in P
  BY <1>1, <1>2, NatSets
<1> QED BY <1>3 DEF P

\* A title is cut to the longest whole characters within the limit.
LEMMA Truncated ==
  ASSUME NEW m \in Messages
  PROVE  LET full == m.title
             sent == TruncateBytes(full, MaxTitleBytes)
             whole(n) == n = Len(full) \/ RuneStart(full[n + 1])
         IN /\ sent = SubSeq(full, 1, Len(sent))
            /\ Len(sent) <= MaxTitleBytes /\ whole(Len(sent))
            /\ \A n \in Len(sent) + 1..Len(full) : whole(n) => n > MaxTitleBytes
<1> DEFINE full == m.title
           sent == TruncateBytes(full, MaxTitleBytes)
           whole(n) == n = Len(full) \/ RuneStart(full[n + 1])
<1>1. full \in Seq({"start", "cont"}) /\ (full # <<>> => RuneStart(full[1]))
  BY MessagesAssumption
<1>2. MaxTitleBytes \in Nat /\ Len(full) \in Nat
  BY <1>1, FCMAssumption
<1>3. CASE Len(full) <= MaxTitleBytes
  <2>1. sent = full
    BY <1>3 DEF TruncateBytes
  <2>2. SubSeq(full, 1, Len(full)) = full
    BY <1>1
  <2> QED BY <1>2, <1>3, <2>1, <2>2
<1>4. CASE Len(full) > MaxTitleBytes
  <2> DEFINE cut == CHOOSE l \in 0..MaxTitleBytes :
                      /\ l > 0 => RuneStart(full[l + 1])
                      /\ \A k \in l + 1..MaxTitleBytes : ~RuneStart(full[k + 1])
  <2>1. /\ cut \in 0..MaxTitleBytes
        /\ cut > 0 => RuneStart(full[cut + 1])
        /\ \A k \in cut + 1..MaxTitleBytes : ~RuneStart(full[k + 1])
    <3> HIDE DEF full
    <3> QED BY <1>2, CutExists
  <2>2. sent = SubSeq(full, 1, cut)
    <3>1. ~(Len(full) <= MaxTitleBytes)
      BY <1>2, <1>4
    <3> QED BY <3>1 DEF TruncateBytes
  <2> HIDE DEF cut
  <2>3. Len(sent) = cut
    <3> HIDE DEF full, sent
    <3> QED BY <1>1, <1>2, <1>4, <2>1, <2>2
  <2>4. full # <<>>
    BY <1>1, <1>2, <1>4
  <2>5. whole(cut)
    BY <1>1, <2>1, <2>4
  <2>6. ASSUME NEW n \in cut + 1..Len(full), whole(n)
        PROVE  n > MaxTitleBytes
    BY <1>2, <1>4, <2>1, <2>6
  <2>7. Len(sent) <= MaxTitleBytes
    <3> HIDE DEF full, sent
    <3> QED BY <1>2, <2>1, <2>3
  <2>8. sent = SubSeq(full, 1, Len(sent))
    <3> HIDE DEF full, sent
    <3> QED BY <2>2, <2>3
  <2>9. whole(Len(sent))
    BY <2>3, <2>5
  <2>10. \A n \in Len(sent) + 1..Len(full) : whole(n) => n > MaxTitleBytes
    BY <2>3, <2>6
  <2> HIDE DEF full, sent, whole
  <2> QED BY <2>7, <2>8, <2>9, <2>10 DEF full, sent, whole
<1> QED BY <1>2, <1>3, <1>4

\* The details of a reply are numbered from 1.
LEMMA SeqDomain ==
  ASSUME NEW d \in Seq(STRING)
  PROVE  DOMAIN d \subseteq Nat \ {0}
OBVIOUS

LEMMA NatOrder ==
  /\ \A a, b \in Nat : b # 0 /\ b \notin 1..a - 1 => a <= b
  /\ \A a, b \in Nat : a <= b /\ b <= a => a = b
OBVIOUS

\* A first code among the details is what parseErrorCode returns.
LEMMA FirstCode ==
  ASSUME NEW r \in Reply, NEW codes, "" \notin codes, Carries(r, codes)
  PROVE  ParseErrorCode(r) \in codes
<1>1. PICK i \in DOMAIN r.details :
        r.details[i] \in codes /\ \A j \in 1..i - 1 : r.details[j] = ""
  BY DEF Carries
<1> DEFINE coded == {j \in DOMAIN r.details : r.details[j] # ""}
           first == CHOOSE k \in coded : \A j \in coded : k <= j
<1>2. r.details \in Seq(STRING)
  BY DEF Reply
<1>3. DOMAIN r.details \subseteq Nat \ {0}
  BY <1>2, SeqDomain
<1>4. i \in coded /\ coded \subseteq Nat \ {0}
  BY <1>1, <1>3
<1>5. ASSUME NEW j \in coded PROVE i <= j
  <2>1. j \in Nat \ {0} /\ i \in Nat /\ r.details[j] # ""
    BY <1>4
  <2>2. j \notin 1..i - 1
    BY <1>1, <2>1
  <2> QED BY <2>1, <2>2, NatOrder
<1>6. r.parsed
  BY DEF Carries
<1>7. ParseErrorCode(r) = r.details[first]
  <2>1. coded # {}
    BY <1>4
  <2> QED BY <1>6, <2>1 DEF ParseErrorCode
<1>8. first \in coded /\ \A j \in coded : first <= j
  <2> HIDE DEF coded
  <2> QED BY <1>4, <1>5
<1> HIDE DEF first, coded
<1>9. first <= i /\ i <= first /\ first \in Nat /\ i \in Nat
  BY <1>4, <1>5, <1>8
<1>10. first = i
  BY <1>9, NatOrder
<1> QED BY <1>1, <1>7, <1>10

\* A reply that carries no code of a set has none for parseErrorCode either.
LEMMA OtherCode ==
  ASSUME NEW r \in Reply, NEW codes, "" \notin codes,
         r.api \notin codes, \A i \in DOMAIN r.details : r.details[i] \notin codes
  PROVE  ParseErrorCode(r) \notin codes
<1> DEFINE coded == {j \in DOMAIN r.details : r.details[j] # ""}
           first == CHOOSE k \in coded : \A j \in coded : k <= j
<1>1. CASE ~r.parsed
  BY <1>1 DEF ParseErrorCode
<1>2. CASE r.parsed /\ coded = {}
  BY <1>2 DEF ParseErrorCode
<1>3. CASE r.parsed /\ coded # {}
  <2>1. coded \subseteq Nat
    <3>1. r.details \in Seq(STRING)
      BY DEF Reply
    <3>2. DOMAIN r.details \subseteq Nat \ {0}
      BY <3>1, SeqDomain
    <3> QED BY <3>2
  <2>2. \E k \in coded : \A j \in coded : k <= j
    <3> HIDE DEF coded
    <3> QED BY <1>3, <2>1, LeastExists
  <2>3. first \in coded
    BY <2>2
  <2>4. ParseErrorCode(r) = r.details[first]
    BY <1>3 DEF ParseErrorCode
  <2> QED BY <2>3, <2>4
<1> QED BY <1>1, <1>2, <1>3

\* What the caller decides is what FCM did, for every answer FCM may word.
LEMMA DispositionTrue ==
  ASSUME NEW did \in DOMAIN Replies, NEW r \in Replies[did]
  PROVE  LET resp == NewSendResponse(r) IN
         /\ resp.retryAfter \in Nat
         /\ Disposition(resp) \in {"accepted", "discarded", "failed", "retry"}
         /\ Disposition(resp) = "accepted" => did = "ok"
         /\ Disposition(resp) = "discarded" => did = "gone"
         /\ Disposition(resp) = "failed" => did = "bad"
<1> DEFINE resp == NewSendResponse(r)
           code == ParseErrorCode(r)
           gone == {"UNREGISTERED", "SENDER_ID_MISMATCH"}
           busy == {"QUOTA_EXCEEDED", "UNAVAILABLE", "INTERNAL"}
<1>1. did \in {"ok", "gone", "bad", "busy"} /\ r \in Reply /\ Worded(did, r)
  BY RepliesAssumption
<1>2. r.status \in Nat /\ r.delay \in Int
  <2>1. r.status \in 100..599 /\ r.delay \in Int
    BY <1>1 DEF Reply
  <2> QED BY <2>1
<1>3. "" \notin gone /\ "" \notin busy /\ gone \intersect busy = {}
  OBVIOUS
<1>4. r.status = 200 <=> did = "ok"
  BY <1>1 DEF Worded
<1>5. did # "gone" => code \notin gone
  <2>1. did # "gone" =>
          r.api \notin gone /\ \A i \in DOMAIN r.details : r.details[i] \notin gone
    BY <1>1 DEF Worded
  <2> HIDE DEF gone, busy
  <2> QED BY <1>1, <1>3, <2>1, OtherCode
<1>6. did = "gone" => code \in gone
  <2>1. did = "gone" => Carries(r, gone)
    BY <1>1 DEF Worded
  <2> HIDE DEF gone, busy
  <2> QED BY <1>1, <1>3, <2>1, FirstCode
<1>7. did = "busy" => r.status = 429 \/ r.status >= 500 \/ code \in busy
  <2>1. did = "busy" => r.status = 429 \/ r.status >= 500 \/ Carries(r, busy)
    BY <1>1 DEF Worded
  <2> HIDE DEF gone, busy
  <2> QED BY <1>1, <1>3, <2>1, FirstCode
<1>8. CASE did = "ok"
  <2>1. resp.status = 200 /\ resp.retryAfter = 0
    BY <1>4, <1>8 DEF NewSendResponse
  <2>2. Disposition(resp) = "accepted"
    <3> HIDE DEF resp
    <3> QED BY <2>1 DEF Disposition, Accepted
  <2> HIDE DEF resp
  <2>3. resp.retryAfter \in Nat
    BY <2>1
  <2> QED BY <1>8, <2>2, <2>3 DEF resp
<1>9. CASE did # "ok"
  <2>1. /\ resp.status = r.status /\ resp.code = code
        /\ resp.retryAfter = IF r.delay > 0 THEN r.delay ELSE 0
    <3>1. r.status # 200
      BY <1>4, <1>9
    <3> HIDE DEF code
    <3> QED BY <3>1 DEF NewSendResponse, code
  <2>2. resp.retryAfter \in Nat
    BY <1>2, <2>1
  <2>3. Disposition(resp) =
          IF code \in gone THEN "discarded"
          ELSE IF code \in busy \/ r.status = 429 \/ r.status >= 500 THEN "retry"
          ELSE "failed"
    <3> HIDE DEF resp, code
    <3> QED BY <1>4, <1>9, <2>1 DEF Disposition, Accepted, InvalidToken, Retryable
  <2> HIDE DEF resp, code, gone, busy
  <2>4. CASE did = "gone"
    <3>1. Disposition(resp) = "discarded"
      BY <1>6, <2>3, <2>4
    <3> QED BY <2>2, <2>4, <3>1 DEF resp
  <2>5. CASE did = "busy"
    <3>1. Disposition(resp) = "retry"
      BY <1>5, <1>7, <2>3, <2>5
    <3> QED BY <2>2, <2>5, <3>1 DEF resp
  <2>6. CASE did = "bad"
    <3>1. Disposition(resp) \in {"retry", "failed"}
      BY <1>5, <2>3, <2>6
    <3> QED BY <2>2, <2>6, <3>1 DEF resp
  <2> QED BY <1>1, <1>9, <2>4, <2>5, <2>6
<1> QED BY <1>8, <1>9

-----------------------------------------------------------------------------
(* Steps of one call. *)

\* Everything about call d stays.
Same(d) ==
  /\ pc'[d] = pc[d] /\ attempt'[d] = attempt[d] /\ answer'[d] = answer[d]
  /\ outcome'[d] = outcome[d] /\ done'[d] = done[d] /\ chosen'[d] = chosen[d]
  /\ wait'[d] = wait[d] /\ floor'[d] = floor[d] /\ late'[d] = late[d]
  /\ kind'[d] = kind[d] /\ scope'[d] = scope[d] /\ message'[d] = message[d]
  /\ verdict'[d] = verdict[d] /\ truth'[d] = truth[d]

\* Only call c moves.
Only(c) == Shape' /\ \A d \in Calls \ {c} : Same(d)

LEMMA SameKeeps ==
  ASSUME NEW d \in Calls, CallInv(d), Same(d)
  PROVE  CallInv(d)'
<1> USE DEF Same
<1>1. CallType(d)' /\ PlaceOK(d)'
  BY DEF CallInv, CallType, PlaceOK
<1>2. PaceOK(d)' /\ LateOK(d)'
  BY DEF CallInv, PaceOK, LateOK
<1>3. AnswerOK(d)' /\ FinalOK(d)'
  BY DEF CallInv, AnswerOK, FinalOK
<1>4. DeliveryOK(d)' /\ VerdictOK(d)'
  BY DEF CallInv, DeliveryOK, VerdictOK
<1> QED BY <1>1, <1>2, <1>3, <1>4 DEF CallInv

\* A step of one call keeps the invariant if it keeps the call's and the tokens'.
LEMMA OneMoves ==
  ASSUME OInv, NEW c \in Calls, Only(c), CallInv(c)', TokenInv'
  PROVE  OInv'
<1>1. \A d \in Calls : CallInv(d)'
  BY SameKeeps DEF OInv, Only
<1> QED BY <1>1 DEF OInv, Only

\* The call c parks or returns after a failed attempt, whose answer is ans.
Settled(c, err, ans) ==
  IF attempt[c] = MaxAttempts \/ err = "ctx"
  THEN /\ pc'[c] = "returned" /\ outcome'[c] = Outcome(err, ans)
       /\ wait'[c] = 0 /\ chosen'[c] = "parked"
  ELSE /\ pc'[c] = "backoff" /\ outcome'[c] = outcome[c]
       /\ wait'[c] = Backoff(attempt[c], WaitMin, WaitMax)
       /\ chosen'[c] = IF done[c] THEN "done" ELSE "parked"

\* Nobody else's place, outcome or timer changes.
Timers(c) ==
  /\ Fun(pc)' /\ Fun(outcome)' /\ Fun(wait)' /\ Fun(chosen)'
  /\ \A d \in Calls \ {c} : /\ pc'[d] = pc[d] /\ outcome'[d] = outcome[d]
                            /\ wait'[d] = wait[d] /\ chosen'[d] = chosen[d]

LEMMA AttemptFailedIs ==
  ASSUME Shape, NEW c \in Calls, NEW err, NEW ans, AttemptFailed(c, err, ans)
  PROVE  Timers(c) /\ Settled(c, err, ans)
<1> USE DEF Shape, Fun, Timers, Settled
<1>1. CASE attempt[c] = MaxAttempts \/ err = "ctx"
  BY <1>1 DEF AttemptFailed, ShouldRetry, Return, Goto
<1>2. CASE ~(attempt[c] = MaxAttempts \/ err = "ctx")
  BY <1>2 DEF AttemptFailed, ShouldRetry, Park, Goto
<1> QED BY <1>1, <1>2

\* The parts of call c that an attempt's end leaves alone.
Rest(c) ==
  /\ attempt'[c] = attempt[c] /\ done'[c] = done[c] /\ late'[c] = late[c]
  /\ kind'[c] = kind[c] /\ scope'[c] = scope[c] /\ message'[c] = message[c]
  /\ verdict'[c] = verdict[c] /\ truth'[c] = truth[c]

\* The end of an attempt: an error, or a transient answer whose wait has passed.
LEMMA SettledKeeps ==
  ASSUME NEW c \in Calls, CallInv(c), Rest(c), kind[c] = "api",
         pc[c] \in {"token", "auth", "request", "sleep"},
         NEW err, NEW ans, Settled(c, err, ans), answer'[c] = ans,
         \/ err \in {"net", "ctx"} /\ ans = None
         \/ /\ err = "transient" /\ ans \in Answer /\ ans.body = attempt[c]
            /\ IsTransientHTTPStatus(ans.status),
         floor'[c] \in Nat,
         done[c] \/ floor'[c] <= Backoff(attempt[c], WaitMin, WaitMax)
            \/ attempt[c] = MaxAttempts \/ err = "ctx"
  PROVE  CallInv(c)'
<1> DEFINE B == Backoff(attempt[c], WaitMin, WaitMax)
<1>1. attempt[c] \in 1..MaxAttempts /\ MaxAttempts \in Nat
  BY HTTPClientAssumption DEF CallInv, PlaceOK, Waiting, Attempting
<1>2. B \in Nat /\ B <= WaitMax /\ WaitMax \in Nat
  <2>1. attempt[c] \in Nat \ {0}
    BY <1>1
  <2> QED BY <2>1, BackoffBounds, HTTPClientAssumption
<1> HIDE DEF B
<1>3. CASE attempt[c] = MaxAttempts \/ err = "ctx"
  <2>1. /\ pc'[c] = "returned" /\ outcome'[c] = Outcome(err, ans)
        /\ wait'[c] = 0 /\ chosen'[c] = "parked"
    BY <1>3 DEF Settled
  <2>2. CallType(c)'
    BY <1>2, <2>1 DEF CallInv, CallType, Rest, Outcome
  <2>3. PlaceOK(c)' /\ PaceOK(c)' /\ LateOK(c)'
    BY <2>1 DEF CallInv, PlaceOK, PaceOK, LateOK, Rest, Waiting, Attempting
  <2>4. AnswerOK(c)' /\ DeliveryOK(c)' /\ VerdictOK(c)'
    BY <2>1 DEF CallInv, AnswerOK, DeliveryOK, VerdictOK, Rest
  <2>5. FinalOK(c)'
    BY <1>3, <2>1 DEF FinalOK, Rest, Outcome
  <2> QED BY <2>2, <2>3, <2>4, <2>5 DEF CallInv
<1>4. CASE ~(attempt[c] = MaxAttempts \/ err = "ctx")
  <2>1. /\ pc'[c] = "backoff" /\ outcome'[c] = outcome[c] /\ wait'[c] = B
        /\ chosen'[c] = IF done[c] THEN "done" ELSE "parked"
    BY <1>4 DEF Settled, B
  <2>2. outcome[c] = None
    BY DEF CallInv, AnswerOK
  <2>3. CallType(c)'
    BY <1>2, <2>1, <2>2 DEF CallInv, CallType, Rest
  <2>4. PlaceOK(c)'
    BY <1>1, <1>4, <2>1 DEF PlaceOK, Rest, Waiting, Attempting
  <2>5. PaceOK(c)'
    BY <1>4, <2>1 DEF PaceOK, Rest, Waiting, Attempting, B
  <2>6. LateOK(c)'
    BY <2>1 DEF CallInv, LateOK, Rest, Waiting
  <2>7. AnswerOK(c)' /\ FinalOK(c)'
    BY <2>1, <2>2 DEF CallInv, AnswerOK, FinalOK, Rest
  <2>8. DeliveryOK(c)' /\ VerdictOK(c)'
    BY <2>1 DEF CallInv, DeliveryOK, VerdictOK, Rest
  <2> QED BY <2>3, <2>4, <2>5, <2>6, <2>7, <2>8 DEF CallInv
<1> QED BY <1>3, <1>4

\* do fails.
LEMMA FailedKeeps ==
  ASSUME Shape, NEW c \in Calls, CallInv(c), kind[c] = "api",
         pc[c] \in {"token", "auth", "request"},
         NEW err \in {"net", "ctx"}, Failed(c, err), UNCHANGED <<callVars, fcmVars>>
  PROVE  Only(c) /\ CallInv(c)'
<1>1. Timers(c) /\ Settled(c, err, None)
  BY AttemptFailedIs DEF Failed
<1>2. /\ Fun(answer)' /\ Fun(floor)' /\ answer'[c] = None /\ floor'[c] = 0
      /\ \A d \in Calls \ {c} : answer'[d] = answer[d] /\ floor'[d] = floor[d]
  BY DEF Shape, Fun, Failed
<1>3. Only(c)
  BY <1>1, <1>2 DEF Only, Same, Shape, Fun, Timers, Failed, callVars, fcmVars
<1>4. Rest(c)
  BY DEF Rest, Failed, callVars, fcmVars
<1>5. attempt[c] \in Nat \ {0}
  BY HTTPClientAssumption DEF CallInv, PlaceOK, Waiting, Attempting
<1>6. floor'[c] \in Nat /\ floor'[c] <= Backoff(attempt[c], WaitMin, WaitMax)
  BY <1>2, <1>5, BackoffBounds
<1>7. CallInv(c)'
  BY <1>1, <1>2, <1>4, <1>6, SettledKeeps
<1> QED BY <1>3, <1>7

\* What is owed after a transient answer is what the call will sleep and the backoff.
LEMMA OwedIs ==
  ASSUME NEW c \in Calls, attempt[c] \in Nat \ {0}, NEW h \in Headers
  PROVE  /\ Owed(c, h) \in Nat
         /\ ParseRetryAfter(h) \in Int
         /\ ParseRetryAfter(h) > 0 =>
              Owed(c, h) <= Lesser(ParseRetryAfter(h), RetryAfterCap)
                              + Backoff(attempt[c], WaitMin, WaitMax)
         /\ ~(ParseRetryAfter(h) > 0) => Owed(c, h) = Backoff(attempt[c], WaitMin, WaitMax)
<1> DEFINE asked == IF h.kind = "seconds" THEN h.value * Second ELSE h.value
           p == ParseRetryAfter(h)
           B == Backoff(attempt[c], WaitMin, WaitMax)
<1>1. /\ asked \in Int /\ p \in Int
      /\ asked \in 0..MaxDuration => p = asked
  BY AskedIsParsed
<1>2. Owed(c, h) = (IF asked \in 0..MaxDuration THEN Lesser(asked, RetryAfterCap) ELSE 0) + B
  BY DEF Owed
<1>3. B \in Nat
  BY BackoffBounds
<1>4. RetryAfterCap \in Nat \ {0} /\ MaxDuration \in Nat
  BY HTTPClientAssumption
<1> HIDE DEF asked, p, B
<1>5. Owed(c, h) \in Nat
  BY <1>1, <1>2, <1>3, <1>4 DEF Lesser
<1>6. p > 0 => Owed(c, h) <= Lesser(p, RetryAfterCap) + B
  BY <1>1, <1>2, <1>3, <1>4 DEF Lesser
<1>7. ~(p > 0) => Owed(c, h) = B
  BY <1>1, <1>2, <1>3, <1>4 DEF Lesser
<1> QED BY <1>1, <1>5, <1>6, <1>7 DEF p, B

\* do returns an answer: the call returns it, sleeps on it, or backs off.
LEMMA AnsweredKeeps ==
  ASSUME Shape, NEW c \in Calls, CallInv(c), kind[c] = "api", pc[c] = "request",
         NEW status \in Statuses, NEW h \in Headers, Answered(c, status, h),
         UNCHANGED <<callVars, fcmVars>>
  PROVE  Only(c) /\ CallInv(c)'
<1> DEFINE ans == [status |-> status, body |-> attempt[c]]
           p == ParseRetryAfter(h)
           B == Backoff(attempt[c], WaitMin, WaitMax)
<1>1. attempt[c] \in 1..MaxAttempts /\ attempt[c] \in Nat \ {0} /\ MaxAttempts \in Nat
  BY HTTPClientAssumption DEF CallInv, PlaceOK, Waiting, Attempting
<1>2. ans \in Answer /\ ans.body = attempt[c] /\ ans.status = status
  BY <1>1 DEF Answer
<1>3. /\ Owed(c, h) \in Nat /\ p \in Int
      /\ p > 0 => Owed(c, h) <= Lesser(p, RetryAfterCap) + B
      /\ ~(p > 0) => Owed(c, h) = B
  BY <1>1, OwedIs
<1>4. /\ answer' = [answer EXCEPT ![c] = ans]
      /\ floor' = [floor EXCEPT ![c] = IF pc'[c] = "returned" THEN 0 ELSE Owed(c, h)]
      /\ UNCHANGED <<attempt, done, late>>
  BY DEF Answered
<1>5. /\ Fun(answer)' /\ Fun(floor)' /\ answer'[c] = ans
      /\ floor'[c] = IF pc'[c] = "returned" THEN 0 ELSE Owed(c, h)
      /\ \A d \in Calls \ {c} : answer'[d] = answer[d] /\ floor'[d] = floor[d]
  BY <1>4 DEF Shape, Fun
<1>6. Rest(c)
  BY <1>4 DEF Rest, callVars, fcmVars
<1>7. ASSUME Timers(c)
      PROVE  Only(c)
  BY <1>4, <1>5, <1>7 DEF Only, Same, Shape, Fun, Timers, callVars, fcmVars
<1>8. CASE ~IsTransientHTTPStatus(status)
  <2>1. Return(c, "nil", ans)
    BY <1>8 DEF Answered
  <2>2. /\ Timers(c) /\ pc'[c] = "returned" /\ wait'[c] = 0 /\ chosen'[c] = "parked"
        /\ outcome'[c] = [err |-> "nil", ans |-> ans]
    BY <2>1 DEF Return, Goto, Outcome, Timers, Shape, Fun
  <2> HIDE DEF ans
  <2>3. CallType(c)'
    BY <1>2, <1>5, <1>6, <2>2, HTTPClientAssumption DEF CallInv, CallType, Rest
  <2>4. PlaceOK(c)' /\ PaceOK(c)' /\ LateOK(c)'
    BY <1>6, <2>2 DEF CallInv, PlaceOK, PaceOK, LateOK, Rest, Waiting, Attempting
  <2>5. AnswerOK(c)' /\ DeliveryOK(c)' /\ VerdictOK(c)'
    BY <1>6, <2>2 DEF CallInv, AnswerOK, DeliveryOK, VerdictOK, Rest
  <2>6. FinalOK(c)'
    BY <1>2, <1>6, <1>8, <2>2 DEF FinalOK, Rest
  <2> QED BY <1>7, <2>2, <2>3, <2>4, <2>5, <2>6 DEF CallInv
<1>9. CASE IsTransientHTTPStatus(status) /\ p > 0
  <2>1. Goto(c, "sleep") /\ Park(c, Lesser(p, RetryAfterCap)) /\ UNCHANGED outcome
    BY <1>9 DEF Answered
  <2>2. /\ Timers(c) /\ pc'[c] = "sleep" /\ wait'[c] = Lesser(p, RetryAfterCap)
        /\ chosen'[c] = (IF done[c] THEN "done" ELSE "parked") /\ outcome'[c] = outcome[c]
    BY <2>1 DEF Goto, Park, Timers, Shape, Fun
  <2> HIDE DEF ans, p, B
  <2>3. wait'[c] \in Nat /\ wait'[c] <= RetryAfterCap
    BY <1>3, <1>9, <2>2, HTTPClientAssumption DEF Lesser
  <2>4. outcome[c] = None /\ floor'[c] = Owed(c, h)
    BY <1>5, <2>2 DEF CallInv, AnswerOK
  <2>5. CallType(c)'
    BY <1>2, <1>3, <1>5, <1>6, <2>2, <2>3, <2>4 DEF CallInv, CallType, Rest
  <2>6. PlaceOK(c)'
    BY <1>1, <1>6, <2>2 DEF PlaceOK, Rest, Waiting, Attempting
  <2>7. PaceOK(c)'
    BY <1>3, <1>6, <1>9, <2>2, <2>4 DEF PaceOK, Rest, Waiting, Attempting, B
  <2>8. LateOK(c)'
    BY <1>6, <2>2 DEF CallInv, LateOK, Rest, Waiting
  <2>9. AnswerOK(c)' /\ FinalOK(c)'
    BY <1>2, <1>5, <1>6, <1>9, <2>2, <2>4 DEF AnswerOK, FinalOK, Rest
  <2>10. DeliveryOK(c)' /\ VerdictOK(c)'
    BY <1>6, <2>2 DEF CallInv, DeliveryOK, VerdictOK, Rest
  <2> QED BY <1>7, <2>2, <2>5, <2>6, <2>7, <2>8, <2>9, <2>10 DEF CallInv
<1>10. CASE IsTransientHTTPStatus(status) /\ ~(p > 0)
  <2>1. AttemptFailed(c, "transient", ans)
    BY <1>10 DEF Answered
  <2> HIDE DEF ans
  <2>2. Timers(c) /\ Settled(c, "transient", ans)
    BY <2>1, AttemptFailedIs
  <2>3. floor'[c] \in Nat /\ (floor'[c] <= B \/ attempt[c] = MaxAttempts)
    <3>1. pc'[c] = "returned" => attempt[c] = MaxAttempts
      BY <2>2 DEF Settled
    <3>2. B \in Nat
      BY <1>1, BackoffBounds
    <3> HIDE DEF p, B
    <3> QED BY <1>3, <1>5, <1>10, <3>1, <3>2
  <2>4. CallInv(c)'
    BY <1>2, <1>5, <1>6, <1>10, <2>2, <2>3, SettledKeeps
  <2> QED BY <1>7, <2>2, <2>4
<1> QED BY <1>8, <1>9, <1>10

\* sleepCtx returns.
LEMMA SleepEndsKeeps ==
  ASSUME Shape, NEW c \in Calls, CallInv(c), kind[c] = "api", SleepEnds(c),
         UNCHANGED <<callVars, fcmVars>>
  PROVE  Only(c) /\ CallInv(c)'
<1>1. pc[c] = "sleep" /\ chosen[c] \in {"timer", "done"}
  BY DEF SleepEnds, CallInv, CallType
<1>2. Timers(c) /\ Settled(c, "transient", answer[c])
  BY AttemptFailedIs DEF SleepEnds
<1>3. Only(c)
  BY <1>2 DEF Only, Same, Shape, Fun, Timers, SleepEnds, callVars, fcmVars
<1>4. Rest(c) /\ answer'[c] = answer[c] /\ floor'[c] = floor[c]
  BY DEF Rest, SleepEnds, callVars, fcmVars
<1>5. /\ answer[c] \in Answer /\ answer[c].body = attempt[c]
      /\ IsTransientHTTPStatus(answer[c].status)
  BY <1>1 DEF CallInv, AnswerOK
<1>6. floor'[c] \in Nat
  BY <1>4 DEF CallInv, CallType
<1>7. done[c] \/ floor'[c] <= Backoff(attempt[c], WaitMin, WaitMax)
  <2>1. CASE chosen[c] = "done"
    BY <1>1, <2>1 DEF CallInv, LateOK, Waiting
  <2>2. CASE chosen[c] = "timer"
    <3>1. wait[c] = 0 /\ floor[c] <= wait[c] + Backoff(attempt[c], WaitMin, WaitMax)
      BY <1>1, <2>2 DEF CallInv, PaceOK, Waiting
    <3>2. attempt[c] \in Nat \ {0}
      BY <1>1, HTTPClientAssumption DEF CallInv, PlaceOK, Waiting
    <3>3. Backoff(attempt[c], WaitMin, WaitMax) \in Nat
      BY <3>2, BackoffBounds
    <3> QED BY <1>4, <3>1, <3>3
  <2> QED BY <1>1, <2>1, <2>2
<1>8. CallInv(c)'
  <2>1. PICK ans : ans = answer[c]
    OBVIOUS
  <2> QED BY <1>1, <1>2, <1>4, <1>5, <1>6, <1>7, <2>1, SettledKeeps
<1> QED BY <1>3, <1>8

\* The select of retry.Do returns the context's error or begins the next attempt.
LEMMA BackoffEndsKeeps ==
  ASSUME Shape, NEW c \in Calls, CallInv(c), kind[c] = "api", BackoffEnds(c, "token"),
         UNCHANGED <<callVars, fcmVars>>
  PROVE  Only(c) /\ CallInv(c)'
<1>1. /\ pc[c] = "backoff" /\ answer'[c] = answer[c] /\ done'[c] = done[c]
      /\ floor'[c] = floor[c] /\ kind'[c] = kind[c] /\ scope'[c] = scope[c]
      /\ message'[c] = message[c] /\ verdict'[c] = verdict[c] /\ truth'[c] = truth[c]
  BY DEF BackoffEnds, callVars, fcmVars
<1>2. CASE chosen[c] = "done" /\ Return(c, "ctx", answer[c]) /\ UNCHANGED <<attempt, late>>
  <2>1. /\ Timers(c) /\ pc'[c] = "returned" /\ wait'[c] = 0 /\ chosen'[c] = "parked"
        /\ outcome'[c] = [err |-> "ctx", ans |-> None]
        /\ attempt'[c] = attempt[c] /\ late'[c] = late[c]
    BY <1>2 DEF Return, Goto, Outcome, Timers, Shape, Fun
  <2>2. Only(c)
    BY <1>2, <2>1 DEF Only, Same, Shape, Fun, Timers, BackoffEnds, callVars, fcmVars
  <2>3. CallType(c)'
    BY <1>1, <2>1, HTTPClientAssumption DEF CallInv, CallType
  <2>4. PlaceOK(c)' /\ PaceOK(c)' /\ LateOK(c)'
    BY <1>1, <2>1 DEF CallInv, PlaceOK, PaceOK, LateOK, Waiting, Attempting
  <2>5. AnswerOK(c)' /\ DeliveryOK(c)' /\ VerdictOK(c)'
    BY <1>1, <2>1 DEF CallInv, AnswerOK, DeliveryOK, VerdictOK
  <2>6. FinalOK(c)'
    BY <2>1 DEF FinalOK
  <2> QED BY <2>2, <2>3, <2>4, <2>5, <2>6 DEF CallInv
<1>3. CASE /\ chosen[c] = "timer" /\ BeginAttempt(c, attempt[c] + 1, "token")
           /\ chosen' = [chosen EXCEPT ![c] = "parked"] /\ UNCHANGED <<outcome, wait>>
  <2>1. /\ pc'[c] = "token" /\ attempt'[c] = attempt[c] + 1
        /\ late'[c] = (IF done[c] THEN late[c] + 1 ELSE late[c])
        /\ chosen'[c] = "parked" /\ outcome'[c] = outcome[c] /\ wait'[c] = wait[c]
    BY <1>3 DEF BeginAttempt, Goto, Shape, Fun
  <2>2. Only(c)
    BY <1>3 DEF Only, Same, Shape, Fun, BeginAttempt, Goto, BackoffEnds, callVars, fcmVars
  <2>3. /\ wait[c] = 0 /\ floor[c] = 0 /\ late[c] = 0 /\ outcome[c] = None
        /\ attempt[c] + 1 \in 1..MaxAttempts
    BY <1>1, <1>3, HTTPClientAssumption
       DEF CallInv, CallType, PlaceOK, PaceOK, LateOK, AnswerOK, Waiting, Attempting
  <2>4. CallType(c)'
    BY <1>1, <2>1, <2>3, HTTPClientAssumption DEF CallInv, CallType
  <2>5. PlaceOK(c)' /\ PaceOK(c)' /\ LateOK(c)'
    BY <1>1, <2>1, <2>3 DEF CallInv, PlaceOK, PaceOK, LateOK, Waiting, Attempting
  <2>6. AnswerOK(c)' /\ FinalOK(c)'
    BY <1>1, <2>1, <2>3 DEF CallInv, AnswerOK, FinalOK
  <2>7. DeliveryOK(c)' /\ VerdictOK(c)'
    BY <1>1, <2>1 DEF CallInv, DeliveryOK, VerdictOK
  <2> QED BY <2>2, <2>4, <2>5, <2>6, <2>7 DEF CallInv
<1> QED BY <1>2, <1>3 DEF BackoffEnds

\* A call that has its token, waits for it, or ends without one, only changes place.
LEMMA PlaceKeeps ==
  ASSUME Shape, NEW c \in Calls, CallInv(c), pc[c] \in {"token", "auth", "request"},
         NEW place \in {"auth", "request", "returned"}, Goto(c, place),
         place = "auth" => scope[c] \in Scopes,
         UNCHANGED <<attemptVars, callVars, fcmVars>>
  PROVE  Only(c) /\ CallInv(c)'
<1>1. pc'[c] = place
  BY DEF Goto, Shape, Fun
<1>2. Only(c)
  BY DEF Only, Same, Shape, Fun, Goto, attemptVars, callVars, fcmVars
<1>3. /\ attempt'[c] = attempt[c] /\ answer'[c] = answer[c] /\ outcome'[c] = outcome[c]
      /\ done'[c] = done[c] /\ chosen'[c] = chosen[c] /\ wait'[c] = wait[c]
      /\ floor'[c] = floor[c] /\ late'[c] = late[c] /\ kind'[c] = kind[c]
      /\ scope'[c] = scope[c] /\ message'[c] = message[c]
      /\ verdict'[c] = verdict[c] /\ truth'[c] = truth[c]
  BY DEF attemptVars, callVars, fcmVars
<1>4. CallType(c)' /\ PlaceOK(c)'
  BY <1>1, <1>3 DEF CallInv, CallType, PlaceOK, Waiting, Attempting
<1>5. PaceOK(c)' /\ LateOK(c)'
  BY <1>1, <1>3 DEF CallInv, PaceOK, LateOK, Waiting, Attempting
<1>6. AnswerOK(c)' /\ FinalOK(c)' /\ DeliveryOK(c)' /\ VerdictOK(c)'
  BY <1>1, <1>3 DEF CallInv, AnswerOK, FinalOK, DeliveryOK, VerdictOK
<1> QED BY <1>2, <1>4, <1>5, <1>6 DEF CallInv

LEMMA NoAccessTokenKeeps ==
  ASSUME Shape, NEW c \in Calls, CallInv(c), pc[c] \in {"token", "auth"},
         NoAccessToken(c), UNCHANGED <<callVars, fcmVars>>
  PROVE  Only(c) /\ CallInv(c)'
<1>1. CASE kind[c] = "api" /\ Failed(c, "net")
  BY <1>1, FailedKeeps
<1>2. CASE kind[c] = "plain" /\ Goto(c, "returned") /\ UNCHANGED attemptVars
  BY <1>2, PlaceKeeps
<1> QED BY <1>1, <1>2 DEF NoAccessToken

\* WithRetry begins.
LEMMA CallKeeps ==
  ASSUME Shape, NEW c \in Calls, CallInv(c), Call(c)
  PROVE  Only(c) /\ CallInv(c)'
<1>1. pc[c] = "idle" /\ BeginAttempt(c, 1, "token")
      /\ UNCHANGED <<answer, outcome, done, chosen, wait, floor, message, fcmVars>>
  BY DEF Call, WithRetry
<1>2. PICK k \in KindsOf[c] \ {"fcm"} : kind' = [kind EXCEPT ![c] = k]
  BY DEF Call
<1>3. PICK s \in Scopes \union {EmptyScope} : scope' = [scope EXCEPT ![c] = s]
  BY DEF Call
<1>4. k \in {"api", "plain"}
  BY OutboundAssumption
<1>5. ~done[c] /\ late[c] = 0 /\ wait[c] = 0 /\ floor[c] = 0 /\ answer[c] = None
  BY <1>1 DEF CallInv, LateOK, PaceOK, AnswerOK
<1>6. Only(c)
  BY <1>1, <1>2, <1>3 DEF Only, Same, Shape, Fun, BeginAttempt, Goto, fcmVars
<1>7. /\ pc'[c] = "token" /\ attempt'[c] = 1 /\ late'[c] = 0 /\ kind'[c] = k /\ scope'[c] = s
      /\ answer'[c] = answer[c] /\ outcome'[c] = outcome[c] /\ done'[c] = done[c]
      /\ chosen'[c] = chosen[c] /\ wait'[c] = 0 /\ floor'[c] = 0
      /\ message'[c] = message[c] /\ verdict'[c] = verdict[c] /\ truth'[c] = truth[c]
  BY <1>1, <1>2, <1>3, <1>5 DEF BeginAttempt, Goto, Shape, Fun, fcmVars
<1>8. CallType(c)'
  BY <1>3, <1>4, <1>7, HTTPClientAssumption DEF CallInv, CallType
<1>9. PlaceOK(c)'
  BY <1>4, <1>7, HTTPClientAssumption DEF PlaceOK, Waiting, Attempting
<1>10. PaceOK(c)' /\ LateOK(c)'
  BY <1>5, <1>7 DEF PaceOK, LateOK, Waiting, Attempting
<1>11. AnswerOK(c)' /\ FinalOK(c)' /\ DeliveryOK(c)' /\ VerdictOK(c)'
  BY <1>1, <1>5, <1>7 DEF CallInv, AnswerOK, FinalOK, DeliveryOK, VerdictOK
<1> QED BY <1>6, <1>8, <1>9, <1>10, <1>11 DEF CallInv

\* The caller cancels: a parked select is woken.
LEMMA CancelKeeps ==
  ASSUME Shape, NEW c \in Calls, CallInv(c), CancelCall(c)
  PROVE  Only(c) /\ CallInv(c)'
<1>1. /\ pc[c] \notin {"idle", "returned"} /\ ~done[c]
      /\ done' = [done EXCEPT ![c] = TRUE]
      /\ chosen' = [chosen EXCEPT ![c] = IF pc[c] \in {"sleep", "backoff"} /\ @ = "parked"
                                         THEN "done" ELSE @]
      /\ UNCHANGED <<pc, attempt, answer, outcome, wait, floor, late, callVars, fcmVars>>
  BY DEF CancelCall, Cancel
<1>2. Only(c)
  BY <1>1 DEF Only, Same, Shape, Fun, callVars, fcmVars
<1>3. /\ done'[c] = TRUE
      /\ chosen'[c] = IF pc[c] \in {"sleep", "backoff"} /\ chosen[c] = "parked"
                      THEN "done" ELSE chosen[c]
      /\ pc'[c] = pc[c] /\ attempt'[c] = attempt[c] /\ answer'[c] = answer[c]
      /\ outcome'[c] = outcome[c] /\ wait'[c] = wait[c] /\ floor'[c] = floor[c]
      /\ late'[c] = late[c] /\ kind'[c] = kind[c] /\ scope'[c] = scope[c]
      /\ message'[c] = message[c] /\ verdict'[c] = verdict[c] /\ truth'[c] = truth[c]
  BY <1>1 DEF Shape, Fun, callVars, fcmVars
<1>4. CallType(c)' /\ PlaceOK(c)'
  BY ZenonT(40), <1>1, <1>3 DEF CallInv, CallType, PlaceOK, Waiting, Attempting
<1>5. PaceOK(c)'
  BY <1>1, <1>3 DEF CallInv, CallType, PaceOK, Waiting, Attempting
<1>6. LateOK(c)'
  BY <1>1, <1>3 DEF CallInv, CallType, LateOK, Waiting
<1>7. AnswerOK(c)' /\ FinalOK(c)' /\ DeliveryOK(c)' /\ VerdictOK(c)'
  BY <1>3 DEF CallInv, AnswerOK, FinalOK, DeliveryOK, VerdictOK
<1> QED BY <1>2, <1>4, <1>5, <1>6, <1>7 DEF CallInv

\* The result is dropped.
LEMMA ForgetKeeps ==
  ASSUME Shape, NEW c \in Calls, CallInv(c), ForgetCall(c)
  PROVE  Only(c) /\ CallInv(c)'
<1>1. Only(c)
  BY DEF ForgetCall, Forget, Goto, Only, Same, Shape, Fun
<1>2. /\ pc'[c] = "idle" /\ attempt'[c] = 0 /\ answer'[c] = None /\ outcome'[c] = None
      /\ done'[c] = FALSE /\ chosen'[c] = "parked" /\ wait'[c] = 0 /\ floor'[c] = 0
      /\ late'[c] = 0 /\ kind'[c] = None /\ scope'[c] = EmptyScope /\ message'[c] = None
      /\ verdict'[c] = None /\ truth'[c] = None
  BY DEF ForgetCall, Forget, Goto, Shape, Fun
<1>3. CallType(c)'
  <2>1. done'[c] \in BOOLEAN
    BY <1>2
  <2>2. 0 <= WaitMax /\ 0 \in 0..MaxAttempts
    BY HTTPClientAssumption
  <2> QED BY <1>2, <2>1, <2>2 DEF CallType
<1>4. PlaceOK(c)' /\ PaceOK(c)' /\ LateOK(c)'
  BY <1>2 DEF PlaceOK, PaceOK, LateOK, Waiting, Attempting
<1>5. AnswerOK(c)' /\ FinalOK(c)' /\ DeliveryOK(c)' /\ VerdictOK(c)'
  BY <1>2, OutboundAssumption DEF AnswerOK, FinalOK, DeliveryOK, VerdictOK
<1> QED BY <1>1, <1>3, <1>4, <1>5 DEF CallInv

-----------------------------------------------------------------------------
(* Deliveries. *)

\* Send refuses the message or sends it.
LEMMA DeliverKeeps ==
  ASSUME Shape, NEW c \in Calls, CallInv(c), Deliver(c)
  PROVE  Only(c) /\ CallInv(c)'
<1>1. /\ pc[c] = "idle"
      /\ kind' = [kind EXCEPT ![c] = "fcm"]
      /\ UNCHANGED <<answer, outcome, done, chosen, wait, floor, scope, truth>>
  BY DEF Deliver
<1>2. PICK m \in Messages :
        /\ message' = [message EXCEPT ![c] = [title |-> m.title, sent |-> NewSendRequest(m)]]
        /\ IF m.address
           THEN BeginAttempt(c, 1, "send") /\ UNCHANGED verdict
           ELSE /\ Goto(c, "returned")
                /\ verdict' = [verdict EXCEPT ![c] = "refused"]
                /\ UNCHANGED <<attempt, late>>
  BY DEF Deliver
<1>3. /\ ~done[c] /\ late[c] = 0 /\ wait[c] = 0 /\ floor[c] = 0 /\ answer[c] = None
      /\ outcome[c] = None /\ verdict[c] = None
  BY <1>1 DEF CallInv, LateOK, PaceOK, AnswerOK, DeliveryOK
<1>4. /\ answer'[c] = None /\ outcome'[c] = None /\ done'[c] = done[c] /\ chosen'[c] = chosen[c]
      /\ wait'[c] = 0 /\ floor'[c] = 0 /\ kind'[c] = "fcm" /\ scope'[c] = scope[c]
      /\ message'[c] = [title |-> m.title, sent |-> NewSendRequest(m)]
  BY <1>1, <1>2, <1>3 DEF Shape, Fun
<1>5. DeliveryOK(c)' <=> (pc'[c] # "returned" => verdict'[c] = None)
  BY <1>4 DEF DeliveryOK
<1>6. CASE m.address
  <2>1. BeginAttempt(c, 1, "send") /\ UNCHANGED verdict
    BY <1>2, <1>6
  <2>2. Only(c)
    BY <1>1, <1>2, <2>1 DEF Only, Same, Shape, Fun, BeginAttempt, Goto
  <2>3. pc'[c] = "send" /\ attempt'[c] = 1 /\ late'[c] = 0 /\ verdict'[c] = None
    BY <1>3, <2>1 DEF Shape, Fun, BeginAttempt, Goto
  <2>4. CallType(c)'
    BY <1>4, <2>3, HTTPClientAssumption DEF CallInv, CallType
  <2>5. PlaceOK(c)' /\ PaceOK(c)' /\ LateOK(c)'
    BY <1>3, <1>4, <2>3, HTTPClientAssumption
       DEF PlaceOK, PaceOK, LateOK, Waiting, Attempting
  <2>6. AnswerOK(c)' /\ FinalOK(c)' /\ DeliveryOK(c)' /\ VerdictOK(c)'
    BY <1>4, <1>5, <2>3, OutboundAssumption DEF AnswerOK, FinalOK, VerdictOK
  <2> QED BY <2>2, <2>4, <2>5, <2>6 DEF CallInv
<1>7. CASE ~m.address
  <2>1. /\ Goto(c, "returned")
        /\ verdict' = [verdict EXCEPT ![c] = "refused"]
        /\ UNCHANGED <<attempt, late>>
    BY <1>2, <1>7
  <2>2. Only(c)
    BY <1>1, <1>2, <2>1 DEF Only, Same, Shape, Fun, Goto
  <2>3. /\ pc'[c] = "returned" /\ attempt'[c] = attempt[c] /\ late'[c] = 0
        /\ verdict'[c] = "refused"
    BY <1>3, <2>1 DEF Shape, Fun, Goto
  <2>4. CallType(c)'
    BY <1>4, <2>3, HTTPClientAssumption DEF CallInv, CallType
  <2>5. PlaceOK(c)' /\ PaceOK(c)' /\ LateOK(c)'
    BY <1>3, <1>4, <2>3 DEF PlaceOK, PaceOK, LateOK, Waiting, Attempting
  <2>6. AnswerOK(c)' /\ FinalOK(c)' /\ DeliveryOK(c)' /\ VerdictOK(c)'
    BY <1>4, <1>5, <2>3 DEF AnswerOK, FinalOK, VerdictOK
  <2> QED BY <2>2, <2>4, <2>5, <2>6 DEF CallInv
<1> QED BY <1>6, <1>7

\* The caller settles a delivery, or waits what it was asked to.
LEMMA SettleKeeps ==
  ASSUME Shape, NEW c \in Calls, CallInv(c), pc[c] = "send",
         NEW v \in {"accepted", "discarded", "failed", "retry"}, NEW d \in Nat,
         Settle(c, v, d), Fun(truth)', \A e \in Calls \ {c} : truth'[e] = truth[e],
         v = "accepted" => truth'[c] = "ok",
         v = "discarded" => truth'[c] = "gone",
         v = "failed" => truth'[c] = "bad",
         UNCHANGED <<attempt, answer, outcome, done, late, callVars>>
  PROVE  Only(c) /\ CallInv(c)'
<1>1. /\ attempt'[c] = attempt[c] /\ answer'[c] = answer[c] /\ outcome'[c] = outcome[c]
      /\ done'[c] = done[c] /\ late'[c] = late[c] /\ kind'[c] = kind[c]
      /\ scope'[c] = scope[c] /\ message'[c] = message[c]
  BY DEF callVars
<1>2. /\ kind[c] = "fcm" /\ floor[c] = 0 /\ outcome[c] = None /\ verdict[c] = None
      /\ attempt[c] \in 1..MaxAttempts
  BY DEF CallInv, PlaceOK, PaceOK, AnswerOK, DeliveryOK, Waiting, Attempting
<1>3. CASE v = "retry" /\ attempt[c] < MaxAttempts
  <2>1. /\ Goto(c, "backoff") /\ Park(c, Greater(d, 1))
        /\ floor' = [floor EXCEPT ![c] = d] /\ UNCHANGED verdict
    BY <1>3 DEF Settle
  <2>2. Only(c)
    BY <2>1 DEF Only, Same, Shape, Fun, Goto, Park, callVars
  <2>3. /\ pc'[c] = "backoff" /\ wait'[c] = Greater(d, 1) /\ floor'[c] = d
        /\ chosen'[c] = (IF done[c] THEN "done" ELSE "parked") /\ verdict'[c] = None
    BY <1>2, <2>1 DEF Goto, Park, Shape, Fun
  <2>4. wait'[c] \in Nat /\ floor'[c] <= wait'[c] /\ floor'[c] \in Nat
    BY <2>3 DEF Greater
  <2>5. CallType(c)'
    BY <1>1, <1>2, <2>3, <2>4 DEF CallInv, CallType
  <2>6. PlaceOK(c)'
    BY <1>1, <1>2, <1>3, <2>3 DEF PlaceOK, Waiting, Attempting
  <2>7. PaceOK(c)' /\ LateOK(c)'
    BY <1>1, <2>3, <2>4 DEF CallInv, PaceOK, LateOK, Waiting, Attempting
  <2>8. AnswerOK(c)' /\ FinalOK(c)' /\ DeliveryOK(c)'
    BY <1>1, <1>2, <2>3 DEF CallInv, AnswerOK, FinalOK, DeliveryOK
  <2>9. VerdictOK(c)'
    BY <2>3, OutboundAssumption DEF VerdictOK
  <2> QED BY <2>2, <2>5, <2>6, <2>7, <2>8, <2>9 DEF CallInv
<1>4. CASE ~(v = "retry" /\ attempt[c] < MaxAttempts)
  <2>1. /\ Goto(c, "returned")
        /\ verdict' = [verdict EXCEPT ![c] = IF v = "retry" THEN "exhausted" ELSE v]
        /\ UNCHANGED <<wait, chosen, floor>>
    BY <1>4 DEF Settle
  <2>2. Only(c)
    BY <2>1 DEF Only, Same, Shape, Fun, Goto, callVars
  <2>3. /\ pc'[c] = "returned" /\ wait'[c] = wait[c] /\ floor'[c] = floor[c]
        /\ chosen'[c] = chosen[c]
        /\ verdict'[c] = (IF v = "retry" THEN "exhausted" ELSE v)
    BY <2>1 DEF Goto, Shape, Fun
  <2>4. CallType(c)' /\ PlaceOK(c)'
    BY <1>1, <1>2, <2>3 DEF CallInv, CallType, PlaceOK, Waiting, Attempting
  <2>5. PaceOK(c)' /\ LateOK(c)'
    BY <1>1, <2>3 DEF CallInv, PaceOK, LateOK, Waiting, Attempting
  <2>6. AnswerOK(c)' /\ FinalOK(c)' /\ DeliveryOK(c)'
    BY <1>1, <1>2, <2>3 DEF CallInv, AnswerOK, FinalOK, DeliveryOK
  <2>7. VerdictOK(c)'
    BY <2>3 DEF VerdictOK
  <2> QED BY <2>2, <2>4, <2>5, <2>6, <2>7 DEF CallInv
<1> QED BY <1>3, <1>4

LEMMA FCMAnswersKeeps ==
  ASSUME Shape, NEW c \in Calls, CallInv(c), NEW did \in DOMAIN Replies, FCMAnswers(c, did)
  PROVE  Only(c) /\ CallInv(c)'
<1>1. PICK r \in Replies[did] :
        Settle(c, Disposition(NewSendResponse(r)), NewSendResponse(r).retryAfter)
  BY DEF FCMAnswers
<1>2. PICK v : v = Disposition(NewSendResponse(r))
  OBVIOUS
<1>3. PICK d : d = NewSendResponse(r).retryAfter
  OBVIOUS
<1>4. /\ d \in Nat /\ v \in {"accepted", "discarded", "failed", "retry"}
      /\ v = "accepted" => did = "ok"
      /\ v = "discarded" => did = "gone"
      /\ v = "failed" => did = "bad"
  BY <1>2, <1>3, DispositionTrue
<1>5. Settle(c, v, d)
  BY <1>1, <1>2, <1>3
<1>6. /\ Fun(truth)' /\ truth'[c] = did
      /\ \A e \in Calls \ {c} : truth'[e] = truth[e]
  BY DEF FCMAnswers, Shape, Fun
<1>7. pc[c] = "send" /\ UNCHANGED <<attempt, answer, outcome, done, late, callVars>>
  BY DEF FCMAnswers
<1> QED BY <1>4, <1>5, <1>6, <1>7, SettleKeeps

LEMMA SendFailsKeeps ==
  ASSUME Shape, NEW c \in Calls, CallInv(c), SendFails(c)
  PROVE  Only(c) /\ CallInv(c)'
<1>1. /\ pc[c] = "send" /\ Settle(c, "retry", 0)
      /\ UNCHANGED <<attempt, answer, outcome, done, late, callVars, truth>>
  BY DEF SendFails
<1>2. Fun(truth)' /\ \A e \in Calls \ {c} : truth'[e] = truth[e]
  BY <1>1 DEF Shape, Fun
<1> QED BY <1>1, <1>2, SettleKeeps

LEMMA SendAgainKeeps ==
  ASSUME Shape, NEW c \in Calls, CallInv(c), SendAgain(c)
  PROVE  Only(c) /\ CallInv(c)'
<1>1. /\ kind[c] = "fcm" /\ pc[c] = "backoff" /\ chosen[c] = "timer"
      /\ BeginAttempt(c, attempt[c] + 1, "send")
      /\ UNCHANGED <<answer, outcome, done, chosen, wait, floor, callVars, fcmVars>>
  BY DEF SendAgain
<1>2. Only(c)
  BY <1>1 DEF Only, Same, Shape, Fun, BeginAttempt, Goto, callVars, fcmVars
<1>3. /\ pc'[c] = "send" /\ attempt'[c] = attempt[c] + 1
      /\ late'[c] = (IF done[c] THEN late[c] + 1 ELSE late[c])
      /\ answer'[c] = answer[c] /\ outcome'[c] = outcome[c] /\ done'[c] = done[c]
      /\ chosen'[c] = chosen[c] /\ wait'[c] = wait[c] /\ floor'[c] = floor[c]
      /\ kind'[c] = kind[c] /\ scope'[c] = scope[c] /\ message'[c] = message[c]
      /\ verdict'[c] = verdict[c] /\ truth'[c] = truth[c]
  BY <1>1 DEF BeginAttempt, Goto, Shape, Fun, callVars, fcmVars
<1>4. /\ wait[c] = 0 /\ floor[c] = 0 /\ late[c] = 0 /\ outcome[c] = None
      /\ attempt[c] + 1 \in 1..MaxAttempts
  BY <1>1, HTTPClientAssumption
     DEF CallInv, CallType, PlaceOK, PaceOK, LateOK, AnswerOK, Waiting, Attempting
<1>5. CallType(c)'
  BY <1>1, <1>3, <1>4, HTTPClientAssumption DEF CallInv, CallType
<1>6. PlaceOK(c)' /\ PaceOK(c)' /\ LateOK(c)'
  BY <1>1, <1>3, <1>4 DEF CallInv, PlaceOK, PaceOK, LateOK, Waiting, Attempting
<1>7. AnswerOK(c)' /\ FinalOK(c)'
  BY <1>1, <1>3, <1>4 DEF CallInv, AnswerOK, FinalOK
<1>8. DeliveryOK(c)' /\ VerdictOK(c)'
  BY <1>1, <1>3 DEF CallInv, DeliveryOK, VerdictOK
<1> QED BY <1>2, <1>5, <1>6, <1>7, <1>8 DEF CallInv

-----------------------------------------------------------------------------
(* Tokens. *)

LEMMA TokenFields ==
  ASSUME NEW t \in TokenAccess
  PROVE  /\ t.life \in Lifetimes /\ t.life \in Nat /\ t.left \in Int /\ t.real \in Int
         /\ t.latency \in 0..AuthTimeout /\ t.latency \in Nat
         /\ Skew \in Nat /\ AuthTimeout \in Nat
<1>1. /\ t.life \in Lifetimes /\ t.left \in Int /\ t.real \in Int
      /\ t.latency \in 0..AuthTimeout
  BY DEF TokenAccess
<1>2. Skew \in Nat /\ AuthTimeout \in Nat /\ Lifetimes \subseteq Nat
  BY TokenManagerAssumption
<1>3. PICK life, latency : life = t.life /\ latency = t.latency
  OBVIOUS
<1>4. life \in Lifetimes /\ latency \in 0..AuthTimeout
  BY <1>1, <1>3
<1>5. life \in Nat
  BY <1>2, <1>4
<1>6. latency \in Nat
  BY <1>2, <1>4
<1> QED BY <1>1, <1>2, <1>3, <1>5, <1>6

\* The fields of a token may change one by one.
LEMMA TokenFrom ==
  ASSUME NEW life \in Lifetimes, NEW left \in Int, NEW real \in Int,
         NEW latency \in 0..AuthTimeout
  PROVE  [life |-> life, left |-> left, real |-> real, latency |-> latency] \in TokenAccess
BY DEF TokenAccess

\* A cached token that the manager takes for valid may be handed out.
LEMMA CachedIsUsable ==
  ASSUME NEW t \in TokenAccess, CachedOK(t), t.left > 0
  PROVE  TokenOK(t)
<1>1. /\ t.life \in Nat /\ t.left \in Int /\ t.real \in Int /\ t.latency \in Nat
      /\ Skew \in Nat
  BY TokenFields
<1>2. t.left <= t.life - Skew /\ t.real >= t.left + Skew - t.latency
  BY DEF CachedOK
<1> QED BY <1>1, <1>2 DEF TokenOK, Greater, Lesser

\* So may a token that has just been stored, whatever is left of it.
LEMMA StoredIsUsable ==
  ASSUME TokenInv, auth # NoAuth, auth.granted # NoToken
  PROVE  CachedOK(Stored(auth.granted)) /\ TokenOK(Stored(auth.granted))
<1> PICK g : g = auth.granted
  OBVIOUS
<1> PICK t : t = Stored(g)
  OBVIOUS
<1>1. g \in TokenAccess /\ g.real = g.life - g.latency
  BY DEF TokenInv, GrantedOK
<1>2. /\ g.life \in Lifetimes /\ g.life \in Nat /\ g.latency \in 0..AuthTimeout
      /\ g.real \in Int /\ Skew \in Nat /\ AuthTimeout \in Nat
  BY <1>1, TokenManagerAssumption DEF TokenAccess
<1>3. /\ t \in TokenAccess /\ t.life = g.life /\ t.left = g.life - Skew
      /\ t.real = g.real /\ t.latency = g.latency
  BY <1>1, <1>2 DEF Stored, TokenAccess
<1>4. t.real >= 1 - Greater(0, t.latency - Lesser(Skew, t.life - 1))
  BY <1>1, <1>2, <1>3 DEF Greater, Lesser
<1>5. CachedOK(t)
  BY <1>1, <1>2, <1>3 DEF CachedOK
<1> QED BY <1>3, <1>4, <1>5 DEF TokenOK

\* A cached token one unit of time later.
Aged(t) == [t EXCEPT !.left = IF @ > 0 THEN @ - 1 ELSE 0,
                     !.real = IF @ > -AuthTimeout THEN @ - 1 ELSE @]

\* A token that ages stays within its bounds: the issuer's reckoning never
\* falls faster than the manager's.
LEMMA AgedIsOK ==
  ASSUME NEW t \in TokenAccess, CachedOK(t), NEW u, u = Aged(t)
  PROVE  u \in TokenAccess /\ CachedOK(u)
<1>1. /\ t.life \in Lifetimes /\ t.life \in Nat /\ t.left \in Int /\ t.real \in Int
      /\ t.latency \in 0..AuthTimeout /\ t.latency \in Nat
      /\ Skew \in Nat /\ AuthTimeout \in Nat
  BY TokenFields
<1> DEFINE left == IF t.left > 0 THEN t.left - 1 ELSE 0
           real == IF t.real > -AuthTimeout THEN t.real - 1 ELSE t.real
<1>2. left \in Int /\ real \in Int
  BY <1>1
<1>3. u = [life |-> t.life, left |-> left, real |-> real, latency |-> t.latency]
  <2>1. t = [life |-> t.life, left |-> t.left, real |-> t.real, latency |-> t.latency]
    BY DEF TokenAccess
  <2>2. PICK a, b, c, d : a = t.life /\ b = t.left /\ c = t.real /\ d = t.latency
    OBVIOUS
  <2>3. t = [life |-> a, left |-> b, real |-> c, latency |-> d]
    BY <2>1, <2>2
  <2>4. [t EXCEPT !.left = left] = [life |-> a, left |-> left, real |-> c, latency |-> d]
    <3> HIDE DEF left
    <3> QED BY <2>3
  <2> HIDE DEF left, real
  <2>5. u = [[t EXCEPT !.left = left] EXCEPT !.real = real]
    BY <2>2, <2>4 DEF left, real, Aged
  <2> QED BY <2>2, <2>4, <2>5
<1> HIDE DEF left, real
<1>4. PICK life, latency : life = t.life /\ latency = t.latency
  OBVIOUS
<1>5. /\ u = [life |-> life, left |-> left, real |-> real, latency |-> latency]
      /\ life \in Lifetimes /\ latency \in 0..AuthTimeout
  BY <1>1, <1>3, <1>4
<1>6. u \in TokenAccess
  BY <1>2, <1>5, TokenFrom
<1>7. u.life = life /\ u.left = left /\ u.real = real /\ u.latency = latency
  BY <1>5
<1>8. ASSUME left > 0
      PROVE  left <= life - Skew /\ real >= left + Skew - latency
  <2>1. PICK l, r : l = t.left /\ r = t.real
    OBVIOUS
  <2>2. l > 0 => l <= life - Skew /\ r >= l + Skew - latency
    BY <1>4, <2>1 DEF CachedOK
  <2>3. /\ left = (IF l > 0 THEN l - 1 ELSE 0)
        /\ real = (IF r > -AuthTimeout THEN r - 1 ELSE r)
    BY <2>1 DEF left, real
  <2>4. life \in Nat /\ latency \in Nat /\ l \in Int /\ r \in Int /\ Skew \in Nat /\ AuthTimeout \in Nat
    BY <1>1, <1>4, <2>1
  <2> QED BY <1>8, <2>2, <2>3, <2>4
<1> QED BY <1>6, <1>7, <1>8 DEF CachedOK

\* A token on its way ages with its answer.
LEMMA GrantedAges ==
  ASSUME TokenInv, TickTokens
  PROVE  /\ auth' \in [age : 0..AuthTimeout, granted : TokenAccess \union {NoToken}] \union {NoAuth}
         /\ GrantedOK'
<1> DEFINE Auths == [age : 0..AuthTimeout, granted : TokenAccess \union {NoToken}]
<1>0. AuthTimeout \in Nat
  BY TokenManagerAssumption
<1>1. CASE auth = NoAuth
  <2>1. auth' = NoAuth
    BY <1>1 DEF TickTokens
  <2> QED BY <2>1 DEF GrantedOK
<1>2. CASE auth # NoAuth /\ auth.granted = NoToken
  <2>1. auth' = [auth EXCEPT !.age = @ + 1] /\ auth.age < AuthTimeout
    BY <1>2 DEF TickTokens
  <2>2. auth \in Auths /\ auth.age \in 0..AuthTimeout
    BY <1>2 DEF TokenInv
  <2>3. auth' \in Auths /\ auth'.granted = NoToken
    BY <1>0, <1>2, <2>1, <2>2
  <2> QED BY <2>3 DEF GrantedOK
<1>3. CASE auth # NoAuth /\ auth.granted # NoToken
  <2> PICK g : g = auth.granted
    OBVIOUS
  <2> DEFINE h == [g EXCEPT !.real = IF @ > -AuthTimeout THEN @ - 1 ELSE @, !.latency = @ + 1]
  <2>1. auth.age < AuthTimeout /\ auth \in Auths /\ auth.age \in 0..AuthTimeout
    BY <1>3 DEF TickTokens, TokenInv
  <2>2. g \in TokenAccess /\ g.real = g.life - g.latency /\ g.latency <= auth.age
    BY <1>3 DEF TokenInv, GrantedOK
  <2>3. g.life \in Nat /\ g.latency \in 0..AuthTimeout /\ g.real \in Int /\ g.left \in Int
    BY <2>2, TokenManagerAssumption DEF TokenAccess
  <2>4. /\ h \in TokenAccess /\ h.life = g.life /\ h.latency = g.latency + 1
        /\ h.real = g.real - 1
    <3>1. g.real > -AuthTimeout /\ g.latency + 1 \in 0..AuthTimeout
      BY <1>0, <2>1, <2>2, <2>3
    <3>2. h = [life |-> g.life, left |-> g.left, real |-> g.real - 1, latency |-> g.latency + 1]
      <4>1. PICK a, b, c, d : a = g.life /\ b = g.left /\ c = g.real /\ d = g.latency
        OBVIOUS
      <4>2. g = [life |-> a, left |-> b, real |-> c, latency |-> d]
        BY <2>2, <4>1 DEF TokenAccess
      <4>3. [g EXCEPT !.real = c - 1] = [life |-> a, left |-> b, real |-> c - 1, latency |-> d]
        BY <4>2
      <4>4. h = [[g EXCEPT !.real = c - 1] EXCEPT !.latency = d + 1]
        BY <3>1, <4>1, <4>3
      <4>5. PICK x, y : x = c - 1 /\ y = d + 1
        OBVIOUS
      <4>6. [[life |-> a, left |-> b, real |-> x, latency |-> d] EXCEPT !.latency = y]
              = [life |-> a, left |-> b, real |-> x, latency |-> y]
        OBVIOUS
      <4> HIDE DEF h
      <4>7. h = [life |-> a, left |-> b, real |-> x, latency |-> y]
        BY <4>3, <4>4, <4>5, <4>6
      <4> QED BY <4>1, <4>5, <4>7
    <3> HIDE DEF h
    <3>3. PICK a, b, c, d : a = g.life /\ b = g.left /\ c = g.real - 1 /\ d = g.latency + 1
      OBVIOUS
    <3>4. h = [life |-> a, left |-> b, real |-> c, latency |-> d]
      BY <3>2, <3>3
    <3>5. a \in Lifetimes /\ b \in Int /\ c \in Int /\ d \in 0..AuthTimeout
      <4>1. g.life \in Lifetimes
        BY <2>2, TokenFields
      <4> QED BY <2>3, <3>1, <3>3, <4>1
    <3>6. h \in TokenAccess
      BY <3>4, <3>5, TokenFrom
    <3>7. h.life = a /\ h.latency = d /\ h.real = c
      BY <3>4
    <3> QED BY <3>3, <3>6, <3>7
  <2>5. auth' = [auth EXCEPT !.age = @ + 1,
                             !.granted.real = IF @ > -AuthTimeout THEN @ - 1 ELSE @,
                             !.granted.latency = @ + 1]
    BY <1>3 DEF TickTokens
  <2>6. auth'.age = auth.age + 1 /\ auth'.granted = h /\ auth' \in Auths
    <3>1. auth' = [age |-> auth.age + 1, granted |-> h]
      BY <2>1, <2>5
    <3> HIDE DEF h
    <3> QED BY <1>0, <2>1, <2>4, <3>1
  <2> HIDE DEF h
  <2> QED BY <2>1, <2>2, <2>3, <2>4, <2>6 DEF GrantedOK
<1> QED BY <1>1, <1>2, <1>3

LEMMA TokensAge ==
  ASSUME TokenInv, TickTokens, UNCHANGED <<held, holder>>
  PROVE  TokenInv'
<1>1. cache' = [s \in Scopes |-> IF cache[s] = NoToken THEN NoToken ELSE Aged(cache[s])]
  BY DEF TickTokens, Aged
<1>2. ASSUME NEW s \in Scopes, cache[s] # NoToken
      PROVE  Aged(cache[s]) \in TokenAccess /\ CachedOK(Aged(cache[s]))
  <2>1. PICK t : t = cache[s]
    OBVIOUS
  <2>2. t \in TokenAccess /\ CachedOK(t)
    BY <1>2, <2>1 DEF TokenInv
  <2>3. PICK u : u = Aged(t)
    OBVIOUS
  <2>4. u \in TokenAccess /\ CachedOK(u)
    BY <2>2, <2>3, AgedIsOK
  <2> QED BY <2>1, <2>3, <2>4
<1>3. /\ cache' \in [Scopes -> TokenAccess \union {NoToken}]
      /\ \A s \in Scopes : cache'[s] # NoToken => CachedOK(cache'[s])
  BY <1>1, <1>2
<1>4. /\ auth' \in [age : 0..AuthTimeout, granted : TokenAccess \union {NoToken}] \union {NoAuth}
      /\ GrantedOK'
  BY GrantedAges
<1>5. \A s \in Scopes : cache'[s] # NoToken => CachedOK(cache[s])'
  BY <1>3 DEF CachedOK
<1> QED BY <1>3, <1>4, <1>5 DEF TokenInv, TokenOK, Fun

-----------------------------------------------------------------------------
(* Steps. *)

\* A unit of time passes for a call: what is owed and the timers run down together.
LEMMA TimersKeep ==
  ASSUME Shape, NEW c \in Calls, CallInv(c), TickTimers, UNCHANGED <<callVars, fcmVars>>
  PROVE  CallInv(c)'
<1>1. /\ wait'[c] = Greater(wait[c] - 1, 0) /\ floor'[c] = Greater(floor[c] - 1, 0)
      /\ chosen'[c] = IF pc[c] \in {"sleep", "backoff"} /\ chosen[c] = "parked" /\ wait[c] <= 1
                      THEN "timer" ELSE chosen[c]
  BY DEF TickTimers
<1>2. /\ pc'[c] = pc[c] /\ attempt'[c] = attempt[c] /\ answer'[c] = answer[c]
      /\ outcome'[c] = outcome[c] /\ done'[c] = done[c] /\ late'[c] = late[c]
      /\ kind'[c] = kind[c] /\ scope'[c] = scope[c] /\ message'[c] = message[c]
      /\ verdict'[c] = verdict[c] /\ truth'[c] = truth[c]
  BY DEF TickTimers, callVars, fcmVars
<1>3. wait[c] \in Nat /\ floor[c] \in Nat
  BY DEF CallInv, CallType
<1>4. /\ wait'[c] \in Nat /\ floor'[c] \in Nat /\ wait'[c] <= wait[c]
      /\ wait[c] = 0 => wait'[c] = 0
      /\ floor[c] = 0 => floor'[c] = 0
      /\ wait[c] <= 1 => wait'[c] = 0
      /\ floor[c] <= wait[c] => floor'[c] <= wait'[c]
      /\ \A b \in Nat : floor[c] <= wait[c] + b => floor'[c] <= wait'[c] + b
  BY <1>1, <1>3 DEF Greater
<1>5. CallType(c)'
  BY <1>1, <1>2, <1>3, <1>4, HTTPClientAssumption DEF CallInv, CallType
<1>6. PlaceOK(c)'
  BY <1>2 DEF CallInv, PlaceOK
<1>7. PaceOK(c)'
  <2> DEFINE B == Backoff(attempt[c], WaitMin, WaitMax)
  <2>1. pc[c] = "sleep" => B \in Nat
    <3>1. pc[c] = "sleep" => attempt[c] \in Nat \ {0}
      BY HTTPClientAssumption DEF CallInv, PlaceOK, Waiting
    <3> QED BY <3>1, BackoffBounds
  <2>2. B' = B
    BY <1>2
  <2> HIDE DEF B
  <2>3. /\ pc[c] \in Attempting => floor[c] = 0
        /\ pc[c] = "idle" => floor[c] = 0 /\ wait[c] = 0
        /\ pc[c] = "sleep" /\ chosen[c] # "done" => floor[c] <= wait[c] + B
        /\ pc[c] = "backoff" /\ chosen[c] # "done" => floor[c] <= wait[c]
        /\ pc[c] \in Waiting /\ chosen[c] = "timer" => wait[c] = 0
    BY DEF CallInv, PaceOK, B
  <2>4. chosen'[c] # "done" => chosen[c] # "done"
    BY <1>1
  <2>5. chosen'[c] = "timer" => chosen[c] = "timer" \/ wait'[c] = 0
    BY <1>1, <1>4
  <2>6. /\ pc'[c] \in Attempting => floor'[c] = 0
        /\ pc'[c] = "idle" => floor'[c] = 0 /\ wait'[c] = 0
        /\ pc'[c] = "sleep" /\ chosen'[c] # "done" => floor'[c] <= wait'[c] + B
        /\ pc'[c] = "backoff" /\ chosen'[c] # "done" => floor'[c] <= wait'[c]
        /\ pc'[c] \in Waiting /\ chosen'[c] = "timer" => wait'[c] = 0
    BY <1>2, <1>4, <2>1, <2>3, <2>4, <2>5
  <2> QED BY <1>2, <2>6 DEF PaceOK, B, Waiting, Attempting
<1>8. LateOK(c)'
  BY <1>1, <1>2 DEF CallInv, CallType, LateOK, Waiting
<1>9. AnswerOK(c)' /\ FinalOK(c)' /\ DeliveryOK(c)' /\ VerdictOK(c)'
  BY <1>2 DEF CallInv, AnswerOK, FinalOK, DeliveryOK, VerdictOK
<1> QED BY <1>5, <1>6, <1>7, <1>8, <1>9 DEF CallInv

LEMMA TickKeeps ==
  ASSUME OInv, Tick
  PROVE  OInv'
<1>1. \A c \in Calls : CallInv(c)'
  BY TimersKeep DEF OInv, Tick
<1>2. TokenInv'
  BY TokensAge DEF OInv, Tick
<1>3. Shape'
  BY DEF OInv, Tick, TickTimers, Shape, Fun, callVars, fcmVars
<1> QED BY <1>1, <1>2, <1>3 DEF OInv

\* The tokens are left alone, or a request's is given back.
LEMMA TokensStay ==
  ASSUME TokenInv, NEW c \in Calls, UNCHANGED tokenVars,
         holder' \in Calls \union {None},
         held' = held \/ held' = [held EXCEPT ![c] = NoToken]
  PROVE  TokenInv'
<1>1. Fun(held)' /\ \A d \in Calls : held'[d] = held[d] \/ held'[d] = NoToken
  BY DEF TokenInv, Fun
<1>2. \A d \in Calls : held'[d] # NoToken => TokenOK(held'[d])
  BY <1>1 DEF TokenInv
<1>3. \A d \in Calls : held'[d] # NoToken => TokenOK(held[d])'
  BY <1>2 DEF TokenOK
<1> QED BY <1>1, <1>3 DEF TokenInv, tokenVars, CachedOK, GrantedOK, Fun

\* A request gets a token.
LEMMA TokenHandedOut ==
  ASSUME TokenInv, NEW c \in Calls, NEW t, t # NoToken => TokenOK(t),
         held' = [held EXCEPT ![c] = t]
  PROVE  Fun(held)' /\ \A d \in Calls : held'[d] # NoToken => TokenOK(held[d])'
<1>1. /\ Fun(held)' /\ held'[c] = t
      /\ \A d \in Calls \ {c} : held'[d] = held[d]
  BY DEF TokenInv, Fun
<1>2. \A d \in Calls : held'[d] # NoToken => TokenOK(held'[d])
  BY <1>1 DEF TokenInv
<1> QED BY <1>1, <1>2 DEF TokenOK

LEMMA GetAccessTokenKeeps ==
  ASSUME OInv, NEW c \in Calls, GetAccessToken(c)
  PROVE  OInv'
<1>1. Shape /\ CallInv(c) /\ TokenInv
  BY DEF OInv
<1>2. pc[c] = "token" /\ holder = None /\ UNCHANGED <<callVars, fcmVars>>
  BY DEF GetAccessToken
<1>3. CASE NoAccessToken(c) /\ UNCHANGED <<tokenVars, held, holder>>
  <2>1. Only(c) /\ CallInv(c)'
    BY <1>1, <1>2, <1>3, NoAccessTokenKeeps
  <2>2. TokenInv'
    BY <1>1, <1>3, TokensStay DEF TokenInv
  <2> QED BY <2>1, <2>2, OneMoves
<1>4. CASE /\ scope[c] # EmptyScope /\ Valid(scope[c])
           /\ AccessToken(c, cache[scope[c]])
           /\ UNCHANGED <<tokenVars, holder>>
  <2>1. Only(c) /\ CallInv(c)'
    BY <1>1, <1>2, <1>4, PlaceKeeps DEF AccessToken
  <2>2. scope[c] \in Scopes
    BY <1>1, <1>4 DEF CallInv, CallType
  <2>3. PICK t : t = cache[scope[c]]
    OBVIOUS
  <2>4. t \in TokenAccess /\ CachedOK(t) /\ t.left > 0
    BY <1>1, <1>4, <2>2, <2>3 DEF TokenInv, Valid
  <2>5. TokenOK(t)
    BY <2>4, CachedIsUsable
  <2>6. held' = [held EXCEPT ![c] = t]
    BY <1>4, <2>3 DEF AccessToken
  <2>7. Fun(held)' /\ \A d \in Calls : held'[d] # NoToken => TokenOK(held[d])'
    BY <1>1, <2>5, <2>6, TokenHandedOut
  <2>8. TokenInv'
    BY <1>1, <1>4, <2>7 DEF TokenInv, tokenVars, CachedOK, GrantedOK
  <2> QED BY <2>1, <2>8, OneMoves
<1>5. CASE /\ scope[c] # EmptyScope /\ Authenticate /\ holder' = c
           /\ Goto(c, "auth") /\ UNCHANGED <<held, attemptVars>>
  <2>1. scope[c] \in Scopes
    BY <1>1, <1>5 DEF CallInv, CallType
  <2>2. Only(c) /\ CallInv(c)'
    BY <1>1, <1>2, <1>5, <2>1, PlaceKeeps
  <2>3. auth' = [age |-> 0, granted |-> NoToken] /\ UNCHANGED cache
    BY <1>5 DEF Authenticate
  <2>4. /\ auth' \in [age : 0..AuthTimeout, granted : TokenAccess \union {NoToken}]
        /\ GrantedOK'
    BY <2>3, TokenManagerAssumption DEF GrantedOK
  <2>5. TokenInv'
    BY <1>1, <1>5, <2>3, <2>4 DEF TokenInv, CachedOK, TokenOK, Fun
  <2> QED BY <2>2, <2>5, OneMoves
<1> QED BY <1>3, <1>4, <1>5 DEF GetAccessToken

LEMMA AuthenticatedKeeps ==
  ASSUME OInv, NEW c \in Calls, NEW e, NEW magic, Authenticated(c, e, magic)
  PROVE  OInv'
<1>1. Shape /\ CallInv(c) /\ TokenInv
  BY DEF OInv
<1>2. /\ pc[c] = "auth" /\ AccessToken(c, cache'[scope[c]]) /\ holder' = None
      /\ UNCHANGED <<callVars, fcmVars>>
  BY DEF Authenticated
<1>3. /\ auth # NoAuth /\ auth.granted # NoToken /\ auth' = NoAuth
      /\ cache' = [cache EXCEPT ![scope[c]] = Stored(auth.granted)]
  BY DEF Authenticated, AuthArrives
<1>4. Only(c) /\ CallInv(c)'
  BY <1>1, <1>2, PlaceKeeps DEF AccessToken
<1>5. scope[c] \in Scopes
  BY <1>1, <1>2 DEF CallInv, PlaceOK
<1>6. PICK t : t = Stored(auth.granted)
  OBVIOUS
<1>7. CachedOK(t) /\ TokenOK(t) /\ t \in TokenAccess
  BY <1>1, <1>3, <1>6, StoredIsUsable DEF TokenOK
<1>8. /\ cache' \in [Scopes -> TokenAccess \union {NoToken}] /\ cache'[scope[c]] = t
      /\ \A s \in Scopes : cache'[s] = cache[s] \/ cache'[s] = t
  BY <1>1, <1>3, <1>5, <1>6, <1>7 DEF TokenInv
<1>9. \A s \in Scopes : cache'[s] # NoToken => CachedOK(cache'[s])
  BY <1>1, <1>7, <1>8 DEF TokenInv
<1>10. \A s \in Scopes : cache'[s] # NoToken => CachedOK(cache[s])'
  BY <1>9 DEF CachedOK
<1>11. held' = [held EXCEPT ![c] = t]
  BY <1>2, <1>8 DEF AccessToken
<1>12. Fun(held)' /\ \A d \in Calls : held'[d] # NoToken => TokenOK(held[d])'
  BY <1>1, <1>7, <1>11, TokenHandedOut
<1>13. TokenInv'
  BY <1>1, <1>2, <1>3, <1>8, <1>10, <1>12 DEF TokenInv, GrantedOK
<1> QED BY <1>4, <1>13, OneMoves

LEMMA NotAuthenticatedKeeps ==
  ASSUME OInv, NEW c \in Calls, NotAuthenticated(c)
  PROVE  OInv'
<1>1. Shape /\ CallInv(c) /\ TokenInv
  BY DEF OInv
<1>2. /\ pc[c] = "auth" /\ NoAccessToken(c) /\ UNCHANGED <<callVars, held, fcmVars>>
      /\ auth' = NoAuth /\ UNCHANGED cache /\ holder' = None
  BY DEF NotAuthenticated, AuthFails
<1>3. Only(c) /\ CallInv(c)'
  BY <1>1, <1>2, NoAccessTokenKeeps
<1>4. TokenInv'
  BY <1>1, <1>2 DEF TokenInv, GrantedOK, CachedOK, TokenOK, Fun
<1> QED BY <1>3, <1>4, OneMoves

LEMMA GrantKeeps ==
  ASSUME OInv, NEW life \in Lifetimes, GrantToken(life)
  PROVE  OInv'
<1>1. /\ Shape /\ TokenInv /\ UNCHANGED <<retryVars, callVars, held, holder, fcmVars, cache>>
      /\ auth # NoAuth
      /\ auth' = [auth EXCEPT !.granted =
                   [life |-> life, left |-> life, real |-> life, latency |-> 0]]
  BY DEF OInv, GrantToken, IssuerGrants
<1>2. \A c \in Calls : Same(c)
  BY <1>1 DEF Same, retryVars, callVars, fcmVars
<1>3. \A c \in Calls : CallInv(c)'
  BY <1>2, SameKeeps DEF OInv
<1>4. life \in Nat /\ AuthTimeout \in Nat
  BY TokenManagerAssumption
<1>5. PICK t : t = [life |-> life, left |-> life, real |-> life, latency |-> 0]
  OBVIOUS
<1>6. t \in TokenAccess /\ t.life = life /\ t.real = life /\ t.latency = 0
  BY <1>4, <1>5 DEF TokenAccess
<1>7. auth \in [age : 0..AuthTimeout, granted : TokenAccess \union {NoToken}]
  BY <1>1 DEF TokenInv
<1>8. auth' = [auth EXCEPT !.granted = t]
  BY <1>1, <1>5
<1>9. /\ auth' \in [age : 0..AuthTimeout, granted : TokenAccess \union {NoToken}]
      /\ auth'.granted = t /\ auth'.age \in 0..AuthTimeout
  BY <1>6, <1>7, <1>8
<1>10. GrantedOK'
  BY <1>4, <1>6, <1>9 DEF GrantedOK
<1>11. TokenInv'
  BY <1>1, <1>9, <1>10 DEF TokenInv, CachedOK, TokenOK, Fun
<1>12. Shape'
  BY <1>1 DEF Shape, Fun, retryVars, callVars, fcmVars
<1> QED BY <1>3, <1>11, <1>12 DEF OInv

LEMMA RequestStepKeeps ==
  ASSUME OInv, NEW c \in Calls,
         \/ Call(c) \/ Deliver(c) \/ PlainDone(c) \/ WaitEnds(c)
         \/ \E status \in Statuses, h \in Headers : Response(c, status, h)
         \/ \E err \in {"ctx", "net"} : RequestFails(c, err)
         \/ \E did \in DOMAIN Replies : FCMAnswers(c, did)
         \/ SendFails(c) \/ SendAgain(c) \/ CancelCall(c) \/ ForgetCall(c)
  PROVE  OInv'
<1>1. Shape /\ CallInv(c) /\ TokenInv
  BY DEF OInv
<1>2. ASSUME UNCHANGED tokenVars, UNCHANGED holder,
             held' = held \/ held' = [held EXCEPT ![c] = NoToken],
             Only(c), CallInv(c)'
      PROVE  OInv'
  <2>1. holder' \in Calls \union {None}
    BY <1>1, <1>2 DEF TokenInv
  <2>2. TokenInv'
    BY <1>1, <1>2, <2>1, TokensStay
  <2> QED BY <1>2, <2>2, OneMoves
<1>3. CASE Call(c)
  BY <1>1, <1>2, <1>3, CallKeeps DEF Call
<1>4. CASE Deliver(c)
  BY <1>1, <1>2, <1>4, DeliverKeeps DEF Deliver, tokenVars
<1>5. CASE PlainDone(c)
  <2>1. /\ pc[c] = "request" /\ Goto(c, "returned")
        /\ UNCHANGED <<attemptVars, callVars, fcmVars>>
        /\ UNCHANGED tokenVars /\ UNCHANGED holder /\ held' = [held EXCEPT ![c] = NoToken]
    BY <1>5 DEF PlainDone
  <2>2. Only(c) /\ CallInv(c)'
    BY <1>1, <2>1, PlaceKeeps
  <2> QED BY <1>2, <2>1, <2>2
<1>6. CASE WaitEnds(c)
  <2>1. /\ kind[c] = "api" /\ (SleepEnds(c) \/ BackoffEnds(c, "token"))
        /\ UNCHANGED <<callVars, fcmVars>> /\ UNCHANGED tokenVars /\ UNCHANGED holder /\ held' = held
    BY <1>6 DEF WaitEnds
  <2>2. Only(c) /\ CallInv(c)'
    BY <1>1, <2>1, SleepEndsKeeps, BackoffEndsKeeps
  <2> QED BY <1>2, <2>1, <2>2
<1>7. ASSUME NEW status \in Statuses, NEW h \in Headers, Response(c, status, h)
      PROVE  OInv'
  <2>1. /\ kind[c] = "api" /\ pc[c] = "request" /\ Answered(c, status, h)
        /\ UNCHANGED <<callVars, fcmVars>>
        /\ UNCHANGED tokenVars /\ UNCHANGED holder /\ held' = [held EXCEPT ![c] = NoToken]
    BY <1>7 DEF Response
  <2>2. Only(c) /\ CallInv(c)'
    BY <1>1, <2>1, AnsweredKeeps
  <2> QED BY <1>2, <2>1, <2>2
<1>8. ASSUME NEW err \in {"ctx", "net"}, RequestFails(c, err)
      PROVE  OInv'
  <2>1. /\ kind[c] = "api" /\ pc[c] = "request" /\ Failed(c, err)
        /\ UNCHANGED <<callVars, fcmVars>>
        /\ UNCHANGED tokenVars /\ UNCHANGED holder /\ held' = [held EXCEPT ![c] = NoToken]
    BY <1>8 DEF RequestFails
  <2>2. Only(c) /\ CallInv(c)'
    BY <1>1, <2>1, FailedKeeps
  <2> QED BY <1>2, <2>1, <2>2
<1>9. ASSUME NEW did \in DOMAIN Replies, FCMAnswers(c, did)
      PROVE  OInv'
  BY <1>1, <1>2, <1>9, FCMAnswersKeeps DEF FCMAnswers, tokenVars
<1>10. CASE SendFails(c)
  BY <1>1, <1>2, <1>10, SendFailsKeeps DEF SendFails, tokenVars
<1>11. CASE SendAgain(c)
  BY <1>1, <1>2, <1>11, SendAgainKeeps DEF SendAgain, tokenVars
<1>12. CASE CancelCall(c)
  BY <1>1, <1>2, <1>12, CancelKeeps DEF CancelCall, tokenVars
<1>13. CASE ForgetCall(c)
  BY <1>1, <1>2, <1>13, ForgetKeeps DEF ForgetCall, tokenVars
<1> QED
  BY <1>3, <1>4, <1>5, <1>6, <1>7, <1>8, <1>9, <1>10, <1>11, <1>12, <1>13

LEMMA OInvInit == Init => OInv
<1> SUFFICES ASSUME Init PROVE OInv
  OBVIOUS
<1>1. Shape
  BY DEF Init, RetryInit, Shape, Fun
<1>2. TokenInv
  BY DEF Init, TokenInit, TokenInv, GrantedOK, Fun
<1>3. ASSUME NEW c \in Calls
      PROVE  CallInv(c)
  <2>1. /\ pc[c] = "idle" /\ attempt[c] = 0 /\ answer[c] = None /\ outcome[c] = None
        /\ done[c] = FALSE /\ chosen[c] = "parked" /\ wait[c] = 0 /\ floor[c] = 0
        /\ late[c] = 0 /\ kind[c] = None /\ scope[c] = EmptyScope /\ message[c] = None
        /\ verdict[c] = None /\ truth[c] = None
    BY DEF Init, RetryInit
  <2>2. done[c] \in BOOLEAN
    BY <2>1
  <2>3. 0 <= WaitMax /\ 0 \in 0..MaxAttempts
    BY HTTPClientAssumption
  <2>4. CallType(c)
    BY <2>1, <2>2, <2>3 DEF CallType
  <2>5. PlaceOK(c) /\ PaceOK(c) /\ LateOK(c)
    BY <2>1 DEF PlaceOK, PaceOK, LateOK, Waiting, Attempting
  <2>6. AnswerOK(c) /\ FinalOK(c) /\ DeliveryOK(c) /\ VerdictOK(c)
    BY <2>1, OutboundAssumption DEF AnswerOK, FinalOK, DeliveryOK, VerdictOK
  <2> QED BY <2>4, <2>5, <2>6 DEF CallInv
<1> QED BY <1>1, <1>2, <1>3 DEF OInv

LEMMA OInvStep == OInv /\ [Next]_vars => OInv'
<1> SUFFICES ASSUME OInv, [Next]_vars PROVE OInv'
  OBVIOUS
<1>1. ASSUME NEW c \in Calls,
             Call(c) \/ Deliver(c) \/ CallStep(c) \/ CancelCall(c) \/ ForgetCall(c)
      PROVE  OInv'
  <2>1. CASE GetAccessToken(c)
    BY <2>1, GetAccessTokenKeeps
  <2>2. CASE NotAuthenticated(c)
    BY <2>2, NotAuthenticatedKeeps
  <2>3. ASSUME NEW e, NEW magic, Authenticated(c, e, magic)
        PROVE  OInv'
    BY <2>3, AuthenticatedKeeps
  <2> QED BY <1>1, <2>1, <2>2, <2>3, RequestStepKeeps DEF CallStep
<1>2. CASE \E life \in Lifetimes : GrantToken(life)
  BY <1>2, GrantKeeps
<1>3. CASE Tick
  BY <1>3, TickKeeps
<1>4. CASE UNCHANGED vars
  <2>1. /\ \A c \in Calls : Same(c)
        /\ UNCHANGED <<tokenVars, held, holder>>
    BY <1>4 DEF vars, Same, retryVars, callVars, fcmVars
  <2>2. \A c \in Calls : CallInv(c)'
    BY <2>1, SameKeeps DEF OInv
  <2>3. Shape'
    BY <1>4 DEF OInv, Shape, Fun, vars, retryVars, callVars, fcmVars
  <2>4. TokenInv'
    BY <2>1 DEF OInv, TokenInv, tokenVars, CachedOK, GrantedOK, TokenOK, Fun
  <2> QED BY <2>2, <2>3, <2>4 DEF OInv
<1> QED BY <1>1, <1>2, <1>3, <1>4 DEF Next

\* The inductive invariant of calls with retries, of the tokens they carry and of
\* deliveries.
THEOREM OutboundInvariant == Spec => []OInv
BY OInvInit, OInvStep, PTL DEF Spec

-----------------------------------------------------------------------------
(* What follows. *)

\* For any waits, headers, cancellations and number of attempts: the next attempt
\* of WithRetry waits for both the server and the backoff but never beyond their
\* caps, at most one begins after a cancellation, a definitive answer is final, and
\* what is returned is the last attempt's (retry.go:12-52, client.go:170-228).
THEOREM RetriesKeepTheirContract == Spec => []RetryContract
<1>1. OInv => RetryContract
  <2> SUFFICES ASSUME OInv PROVE RetryContract
    OBVIOUS
  <2>1. \A c \in Calls : CallInv(c)
    BY DEF OInv
  <2>2. \A c \in Calls : CallType(c)
    BY <2>1 DEF CallInv
  <2>3. TypeOK
    <3>1. /\ pc \in [Calls -> {"idle", "token", "auth", "request", "sleep", "backoff", "send",
                                "returned"}]
          /\ attempt \in [Calls -> 0..MaxAttempts]
      BY <2>2 DEF OInv, Shape, Fun, CallType
    <3>2. /\ done \in [Calls -> BOOLEAN] /\ chosen \in [Calls -> {"parked", "timer", "done"}]
          /\ floor \in [Calls -> Nat] /\ late \in [Calls -> Nat]
      BY <2>2 DEF OInv, Shape, Fun, CallType
    <3>3. /\ kind \in [Calls -> {"api", "fcm", "plain", None}]
          /\ scope \in [Calls -> Scopes \union {EmptyScope}]
      BY <2>2 DEF OInv, Shape, Fun, CallType
    <3>4. ASSUME NEW c \in Calls
          PROVE  /\ answer[c] \in [status : Statuses, body : 1..MaxAttempts] \union {None}
                 /\ outcome[c] \in [err : {"nil", "net", "ctx"},
                                    ans : [status : Statuses, body : 1..MaxAttempts]
                                            \union {None}] \union {None}
                 /\ kind[c] # "fcm" =>
                      wait[c] \in 0..(IF pc[c] = "sleep" THEN RetryAfterCap ELSE WaitMax)
      BY <2>2, HTTPClientAssumption DEF CallType, Answer
    <3>5. /\ cache \in [Scopes -> TokenAccess \union {NoToken}]
          /\ auth \in [age : 0..AuthTimeout, granted : TokenAccess \union {NoToken}] \union {NoAuth}
          /\ holder \in Calls \union {None}
          /\ \A c \in Calls : held[c] \in TokenAccess \union {NoToken}
      BY DEF OInv, TokenInv, TokenOK
    <3> QED BY <3>1, <3>2, <3>3, <3>4, <3>5 DEF TypeOK
  <2>4. FloorRespected
    BY <2>1 DEF CallInv, PaceOK, FloorRespected, Attempting
  <2>5. AtMostOneLateAttempt
    BY <2>1 DEF CallInv, LateOK, AtMostOneLateAttempt
  <2>6. \A status : IsTransientHTTPStatus(status) <=> status \in {429} \union 500..599
    BY DEF IsTransientHTTPStatus
  <2>7. DefinitiveIsFinal /\ LastAttemptDecides
    BY <2>1, <2>6 DEF CallInv, FinalOK, DefinitiveIsFinal, LastAttemptDecides
  <2> QED BY <2>3, <2>4, <2>5, <2>7 DEF RetryContract
<1> QED BY <1>1, OutboundInvariant, PTL

\* For any skew, timeout, lifetimes and scopes a token that getAccessToken hands out
\* has expired by no more than its answer took beyond the skew (token_manager.go:199-237).
THEOREM TokensAreFresh == Spec => []SkewAbsorbsLatency
<1>1. OInv => SkewAbsorbsLatency
  BY DEF OInv, TokenInv, TokenOK, SkewAbsorbsLatency
<1> QED BY <1>1, OutboundInvariant, PTL

\* However FCM words its answers and whichever are lost, a registration is given up
\* only if it is gone, a message only if it is bad, and a title of any length is cut
\* between characters (message.go:56-92, response.go:34-105).
THEOREM DeliveriesAreTrue == Spec => []DeliveriesTrue
<1>1. OInv => DeliveriesTrue
  <2> SUFFICES ASSUME OInv PROVE DeliveriesTrue
    OBVIOUS
  <2>1. VerdictIsTrue
    BY DEF OInv, CallInv, VerdictOK, VerdictIsTrue
  <2>2. ASSUME NEW c \in Calls, message[c] # None
        PROVE  LET full == message[c].title
                   sent == message[c].sent.title
                   whole(n) == n = Len(full) \/ RuneStart(full[n + 1])
               IN /\ sent = SubSeq(full, 1, Len(sent))
                  /\ Len(sent) <= MaxTitleBytes /\ whole(Len(sent))
                  /\ \A n \in Len(sent) + 1..Len(full) : whole(n) => n > MaxTitleBytes
    <3>1. PICK m \in Messages : message[c] = [title |-> m.title, sent |-> NewSendRequest(m)]
      BY <2>2 DEF OInv, CallInv, DeliveryOK
    <3>2. /\ message[c].title = m.title
          /\ message[c].sent.title = TruncateBytes(m.title, MaxTitleBytes)
      BY <3>1 DEF NewSendRequest
    <3> QED BY <3>2, Truncated
  <2>3. TitlesWhole
    BY <2>2 DEF TitlesWhole
  <2> QED BY <2>1, <2>3 DEF DeliveriesTrue
<1> QED BY <1>1, OutboundInvariant, PTL
=============================================================================
