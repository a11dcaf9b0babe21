---------------------------- MODULE WebAuthProofs ----------------------------
(***************************************************************************)
(* Machine-checked proofs about WebAuth: any number of tabs, logins and    *)
(* sessions, any routes, roles and CORS policies, any lifetimes.           *)
(***************************************************************************)
EXTENDS WebAuth, WellFoundedInduction, TLAPS

-----------------------------------------------------------------------------
(* The key-value pairs that applyRoleContexts stages. *)

\* Induction on the natural numbers, for a set of them.
LEMMA Induction ==
  ASSUME NEW P, 0 \in P, \A n \in Nat : n \in P => n + 1 \in P
  PROVE  Nat \subseteq P
<1> SUFFICES ASSUME ~(Nat \subseteq P) PROVE FALSE
  OBVIOUS
<1> DEFINE S == Nat \ P
<1> DEFINE R == {ss \in Nat \X Nat : ss[1] < ss[2]}
<1>1. R = OpToRel(<, Nat)
  BY DEF OpToRel
<1>2. IsWellFoundedOn(R, Nat)
  BY NatLessThanWellFounded, <1>1
<1> HIDE DEF R
<1>3. PICK x \in S : \A y \in S : ~ (<<y, x>> \in R)
  <2>1. S # {} /\ S \subseteq Nat
    OBVIOUS
  <2> QED BY <1>2, <2>1, WFMin
<1>4. x # 0 /\ x \in Nat
  OBVIOUS
<1>5. x - 1 \in Nat /\ x - 1 < x /\ (x - 1) + 1 = x
  BY <1>4
<1>6. x - 1 \notin P
  BY <1>3, <1>5
<1>7. x - 1 \in S
  BY <1>5, <1>6
<1>8. <<x - 1, x>> \in Nat \X Nat /\ <<x - 1, x>>[1] < <<x - 1, x>>[2]
  BY <1>4, <1>5
<1>9. <<x - 1, x>> \in R
  BY <1>8 DEF R
<1> QED BY <1>3, <1>7, <1>9

\* One entry more.
Stage(roles, e, staged) ==
  IF staged = None \/ ~HasRole(roles, e.role) THEN staged
  ELSE IF \E kv \in staged, n \in e.values : kv[1] = n[1] /\ kv[2] # n[2] THEN None
  ELSE staged \union e.values

\* f stages the first n entries one after the other.
Stages(f, roles, extras, n) ==
  f = [i \in 0..n |-> IF i = 0 THEN {} ELSE Stage(roles, extras[i], f[i - 1])]

\* There is such a function for every n.
LEMMA StagesExist ==
  ASSUME NEW roles, NEW extras, NEW n \in Nat
  PROVE  \E f : Stages(f, roles, extras, n)
<1> DEFINE P == {m \in Nat : \E f : Stages(f, roles, extras, m)}
<1>1. 0 \in P
  <2> DEFINE f == [i \in 0..0 |-> {}]
  <2>1. Stages(f, roles, extras, 0)
    BY DEF Stages
  <2> QED BY <2>1
<1>2. ASSUME NEW m \in Nat, m \in P
      PROVE  m + 1 \in P
  <2>1. PICK g : Stages(g, roles, extras, m)
    BY <1>2
  <2> DEFINE f == [i \in 0..(m + 1) |-> IF i = m + 1 THEN Stage(roles, extras[i], g[m]) ELSE g[i]]
  <2>2. \A i \in 0..m : g[i] = IF i = 0 THEN {} ELSE Stage(roles, extras[i], g[i - 1])
    BY <2>1 DEF Stages
  <2>3. \A i \in 0..(m + 1) : f[i] = IF i = 0 THEN {} ELSE Stage(roles, extras[i], f[i - 1])
    <3> TAKE i \in 0..(m + 1)
    <3>1. CASE i = 0
      BY <2>2, <3>1
    <3>2. CASE i = m + 1
      BY <3>2
    <3>3. CASE i # 0 /\ i # m + 1
      <4>1. i \in 0..m /\ i - 1 \in 0..m /\ i - 1 # m + 1
        BY <3>3
      <4>2. f[i] = g[i] /\ f[i - 1] = g[i - 1]
        BY <3>3, <4>1
      <4> QED BY <2>2, <3>3, <4>1, <4>2
    <3> QED BY <3>1, <3>2, <3>3
  <2>4. f = [i \in 0..(m + 1) |-> f[i]]
    OBVIOUS
  <2> HIDE DEF f
  <2>5. Stages(f, roles, extras, m + 1)
    BY <2>3, <2>4 DEF Stages
  <2> QED BY <2>5
<1> HIDE DEF P
<1>3. n \in P
  BY <1>1, <1>2, Induction
<1> QED BY <1>3 DEF P

\* What applyRoleContexts returns is the last value of such a function.
LEMMA StagesReturned ==
  ASSUME NEW roles, NEW extras, Len(extras) \in Nat
  PROVE  \E f : /\ Stages(f, roles, extras, Len(extras))
                /\ ApplyRoleContexts(roles, extras) = f[Len(extras)]
<1> DEFINE f == CHOOSE f : Stages(f, roles, extras, Len(extras))
<1>1. Stages(f, roles, extras, Len(extras))
  BY StagesExist
<1>2. ApplyRoleContexts(roles, extras) = f[Len(extras)]
  BY DEF ApplyRoleContexts, Stages, Stage
<1> QED BY <1>1, <1>2

\* The pairs of the first n entries whose role is held, and whether they agree.
Pairs(roles, extras, n) ==
  UNION {extras[i].values : i \in {j \in 1..n : extras[j].role \in roles}}
Agree(pairs) == \A a, b \in pairs : a[1] = b[1] => a = b

\* applyRoleContexts, one entry after the other and up to the first conflict,
\* finds all pairs of the entries whose role is held, unless two of them disagree.
LEMMA RoleContexts ==
  ASSUME NEW route \in Routes, NEW roles
  PROVE  LET all == Pairs(roles, route.extras, Len(route.extras))
         IN  /\ ApplyRoleContexts(roles, route.extras) = IF Agree(all) THEN all ELSE None
             /\ all # None
<1> DEFINE extras == route.extras
<1> DEFINE N == Len(extras)
<1> DEFINE all(n) == Pairs(roles, extras, n)
<1>1. N \in Nat /\ DOMAIN extras = 1..N
  BY RoutesAssumption
<1>2. ASSUME NEW i \in 1..N, NEW a \in extras[i].values
      PROVE  a = <<a[1], a[2]>> /\ \A b \in extras[i].values : a[1] = b[1] => a = b
  <2>1. i \in DOMAIN route.extras
    BY <1>1
  <2>2. /\ route.extras \in Seq({route.extras[j] : j \in DOMAIN route.extras})
        /\ \A j \in DOMAIN route.extras : \A x, y \in route.extras[j].values :
             x = <<x[1], x[2]>> /\ (x[1] = y[1] => x = y)
    BY RoutesAssumption, Zenon
  <2>3. \A x, y \in route.extras[i].values : x = <<x[1], x[2]>> /\ (x[1] = y[1] => x = y)
    BY <2>1, <2>2, Zenon
  <2> QED BY <2>3, Zenon
<1>3. PICK f : /\ Stages(f, roles, extras, N)
               /\ ApplyRoleContexts(roles, extras) = f[N]
  BY <1>1, StagesReturned
<1>4. ASSUME NEW n \in 0..N
      PROVE  all(n) # None
  <2>1. \A i \in 1..n : i \in DOMAIN extras
    BY <1>1
  <2>2. all(n) \subseteq UNION {extras[i].values : i \in DOMAIN extras}
    BY <2>1 DEF Pairs
  <2> QED BY <2>2, NoneAssumption
<1>5. ASSUME NEW n \in 0..N
      PROVE  \A a \in all(n) : a = <<a[1], a[2]>>
  <2>1. \A i \in 1..n : i \in 1..N
    BY <1>1
  <2> QED BY <1>2, <2>1 DEF Pairs
<1> DEFINE P == {n \in Nat : n <= N => f[n] = IF Agree(all(n)) THEN all(n) ELSE None}
<1>6. 0 \in P
  <2>1. f[0] = {}
    BY <1>1, <1>3 DEF Stages
  <2>2. all(0) = {}
    BY DEF Pairs
  <2>3. Agree({})
    BY DEF Agree
  <2> QED BY <2>1, <2>2, <2>3
<1>7. ASSUME NEW n \in Nat, n \in P
      PROVE  n + 1 \in P
  <2> SUFFICES ASSUME n + 1 <= N
               PROVE  f[n + 1] = IF Agree(all(n + 1)) THEN all(n + 1) ELSE None
    OBVIOUS
  <2>1. n \in 0..N /\ n + 1 \in 0..N /\ n + 1 \in 1..N /\ n + 1 # 0 /\ (n + 1) - 1 = n
    BY <1>1
  <2>2. f[n] = IF Agree(all(n)) THEN all(n) ELSE None
    BY <1>7, <2>1
  <2> DEFINE e == extras[n + 1]
  <2>3. f[n + 1] = Stage(roles, e, f[n])
    BY <1>3, <2>1 DEF Stages
  <2>4. all(n + 1) = IF e.role \in roles THEN all(n) \union e.values ELSE all(n)
    <3>1. 1..(n + 1) = (1..n) \union {n + 1}
      OBVIOUS
    <3>2. {j \in 1..(n + 1) : extras[j].role \in roles} =
            IF e.role \in roles THEN {j \in 1..n : extras[j].role \in roles} \union {n + 1}
            ELSE {j \in 1..n : extras[j].role \in roles}
      BY <3>1
    <3> QED BY <3>2 DEF Pairs
  <2>5. all(n) # None /\ all(n + 1) # None
    BY <1>4, <2>1
  <2>6. \A a, b \in e.values : a = <<a[1], a[2]>> /\ (a[1] = b[1] => a = b)
    BY <1>2, <2>1
  <2>7. \A a \in all(n) : a = <<a[1], a[2]>>
    BY <1>5, <2>1
  <2> HIDE DEF all, e
  <2>8. CASE ~Agree(all(n))
    <3>1. f[n + 1] = None
      BY <2>2, <2>3, <2>8 DEF Stage
    <3>2. ~Agree(all(n + 1))
      BY <2>4, <2>8 DEF Agree
    <3> QED BY <3>1, <3>2
  <2>9. CASE Agree(all(n)) /\ e.role \notin roles
    BY <2>2, <2>3, <2>4, <2>5, <2>9 DEF Stage, HasRole
  <2>10. CASE Agree(all(n)) /\ e.role \in roles
    <3>1. CASE \E kv \in all(n), m \in e.values : kv[1] = m[1] /\ kv[2] # m[2]
      <4>1. f[n + 1] = None
        BY <2>2, <2>3, <2>5, <2>10, <3>1 DEF Stage, HasRole
      <4>2. ~Agree(all(n + 1))
        BY <2>4, <2>10, <3>1 DEF Agree
      <4> QED BY <4>1, <4>2
    <3>2. CASE \A kv \in all(n), m \in e.values : kv[1] = m[1] => kv[2] = m[2]
      <4>1. f[n + 1] = all(n) \union e.values
        BY <2>2, <2>3, <2>5, <2>10, <3>2 DEF Stage, HasRole
      <4>2. \A kv \in all(n), m \in e.values : kv[1] = m[1] => kv = m
        BY <2>6, <2>7, <3>2
      <4>3. Agree(all(n) \union e.values)
        BY <2>6, <2>10, <4>2 DEF Agree
      <4> QED BY <2>4, <2>10, <4>1, <4>3
    <3> QED BY <3>1, <3>2
  <2> QED BY <2>8, <2>9, <2>10
<1> HIDE DEF P
<1>8. N \in P
  BY <1>1, <1>6, <1>7, Induction
<1>9. f[N] = IF Agree(all(N)) THEN all(N) ELSE None
  BY <1>1, <1>8 DEF P
<1> QED BY <1>1, <1>3, <1>4, <1>9

-----------------------------------------------------------------------------
(* Whole seconds. *)

\* Division with a remainder.
LEMMA WholeSeconds ==
  ASSUME NEW a \in Nat
  PROVE  /\ a \div Second \in Nat
         /\ (a \div Second) * Second <= a
         /\ a < (a \div Second) * Second + Second
<1>1. Second \in Nat /\ Second > 0
  BY WebAuthAssumption
<1> QED BY <1>1

\* A login state that decodes is younger than its time to live and a second.
LEMMA StateAge ==
  ASSUME NEW at \in Nat, NEW time \in Nat,
         Unix(time) <= Unix(at + LoginStateTTL * Second)
  PROVE  time < at + (LoginStateTTL + 1) * Second
<1>1. Second \in Nat /\ Second > 0 /\ LoginStateTTL \in Nat
  BY WebAuthAssumption
<1> DEFINE end == at + LoginStateTTL * Second
<1>2. end \in Nat /\ end + Second = at + (LoginStateTTL + 1) * Second
  BY <1>1
<1> HIDE DEF end
<1> DEFINE p == time \div Second
<1> DEFINE q == end \div Second
<1>3. p \in Nat /\ q \in Nat /\ q * Second <= end /\ time < p * Second + Second
  BY <1>2, WholeSeconds
<1>4. p <= q
  BY DEF Unix, end
<1> HIDE DEF p, q
<1>5. p * Second <= q * Second
  BY <1>1, <1>3, <1>4
<1>6. p * Second \in Nat /\ q * Second \in Nat
  BY <1>1, <1>3
<1>7. time < end + Second
  BY <1>1, <1>2, <1>3, <1>5, <1>6
<1> QED BY <1>2, <1>7

-----------------------------------------------------------------------------
(* The inductive invariant. *)

SessionRow == [state : {"unused", "live", "deleted"}, ends : Nat,
               code : Codes \union {None}, roles : RoleSets \union {{}}]
CodeRow == [login : Logins \union {None}, spent : BOOLEAN]
CallRow == [step : {"start", "exchange", "verify", "create"}, checked : Nat, ends : Nat,
            roles : RoleSets \union {{}}]
Cookies(values) == [value : values, until : Nat]

\* A session that a callback has created.
Used(s) == s \in Sessions /\ store[s].state # "unused"

LoginInv ==
  /\ clock \in 0..MaxTime
  /\ login \in [Logins -> LoginState \union {None}]
  /\ \A l \in Logins : login[l] # None =>
       /\ login[l].exp = Unix(login[l].at + LoginStateTTL * Second)
       /\ login[l].returnTo = SanitizeReturnTo(login[l].asked)
  /\ code \in [Codes -> CodeRow]

\* A session comes from a code that it has spent, so no other does; one that a
\* logout has ended stays deleted.
StoreInv ==
  /\ store \in [Sessions -> SessionRow]
  /\ \A s \in Sessions : store[s].ends <= clock + Lifetime
  /\ \A s \in Sessions : Used(s) =>
       /\ store[s].code \in Codes /\ store[s].roles \in RoleSets
       /\ code[store[s].code].spent
  /\ \A s, other \in Sessions :
       s # other /\ Used(s) /\ Used(other) => store[s].code # store[other].code
  /\ dead \subseteq Sessions /\ \A s \in dead : store[s].state = "deleted"

\* The two cookies come and go together, and name a session that exists or did.
JarInv ==
  /\ jar \in [session : Cookies(Sessions \union {None}), csrf : Cookies({"token", None})]
  /\ jar.session.until = jar.csrf.until
  /\ jar.session.value = None <=> jar.csrf.value = None
  /\ jar.session.value # None => Used(jar.session.value)

ReqOK(t) ==
  /\ req[t].session # None => Used(req[t].session)
  /\ req[t].op = "callback" =>
       /\ req[t].login \in Logins /\ login[req[t].login] # None
       /\ req[t].code \in Codes \union {None}
  /\ req[t].op = "api" => req[t].route \in Routes
  /\ req[t].late => req[t].session \in dead

\* What Max-Age is computed from.
CookieOK(r) ==
  /\ Used(r.session) /\ r.csrf = "token"
  /\ r.at \in 0..clock /\ r.ends \in Nat /\ r.ends <= r.at + Lifetime
  /\ r.maxAge = (IF r.ends > r.at THEN r.ends - r.at ELSE 0) \div Second

\* A state was checked in time.
Timely(checked, l) ==
  l \in Logins /\ login[l] # None /\ checked < login[l].at + (LoginStateTTL + 1) * Second

\* A code spent with the verifier of its login.
SpentFor(k, l) == k \in Codes /\ l \in Logins /\ code[k] = [login |-> l, spent |-> TRUE]

ReturnOK(r, q) ==
  /\ Timely(r.checked, q.login) /\ SpentFor(q.code, q.login)
  /\ r.set = "both" /\ store[r.session].code = q.code
  /\ r.to = ResolveReturnTo(Base, login[q.login].returnTo)

\* The roles of the session that the request was served for decide.
RoleOK(r, q) ==
  \E roles \in RoleSets :
    LET all == Pairs(roles, q.route.extras, Len(q.route.extras))
    IN /\ roles \intersect q.route.roles # {}
       /\ q.session # None => store[q.session].roles = roles
       /\ r.status = IF Agree(all) THEN 200 ELSE 500
       /\ Agree(all) => r.values = all

Statuses == {200, 204, 302, 400, 401, 403, 500}
RespOK(t) ==
  /\ req[t] # None /\ resp[t].status \in Statuses
  /\ resp[t].set \in {"none", "clear", "both"}
  /\ resp[t].set = "both" => CookieOK(resp[t])
  /\ resp[t].set # "both" => resp[t].session = None
  /\ resp[t].to # None => ReturnOK(resp[t], req[t])
  /\ resp[t].cors => \E policy \in Policies \ {None} : req[t].origin \in policy
  /\ req[t].op = "api" /\ req[t].late => resp[t].status # 200
  /\ req[t].op = "api" /\ resp[t].status \in {200, 500} => RoleOK(resp[t], req[t])

TabInv ==
  /\ DOMAIN req = Tabs /\ DOMAIN resp = Tabs
  /\ \A t \in Tabs : (req[t] # None => ReqOK(t)) /\ (resp[t] # None => RespOK(t))

\* A Callback holds the tokens it has exchanged a code for.
Holds(t) == call[t].step \in {"verify", "create"}

\* What a Callback under way has found out.
CallOK(t) ==
  /\ call[t].step # "start" =>
       /\ req[t] # None /\ req[t].op = "callback" /\ req[t].code \in Codes
       /\ resp[t] = None /\ Timely(call[t].checked, req[t].login)
  /\ Holds(t) => SpentFor(req[t].code, req[t].login)
  /\ call[t].step = "create" => call[t].roles \in RoleSets /\ call[t].ends <= clock + Lifetime

\* The tokens of a code are held once, and make no session before they are stored.
CallInv ==
  /\ call \in [Tabs -> CallRow]
  /\ \A t \in Tabs : CallOK(t)
  /\ \A t \in Tabs, s \in Sessions : Holds(t) /\ Used(s) => store[s].code # req[t].code
  /\ \A t, u \in Tabs : t # u /\ Holds(t) /\ Holds(u) => req[t].code # req[u].code

WInv == LoginInv /\ StoreInv /\ JarInv /\ TabInv /\ CallInv

-----------------------------------------------------------------------------
(* What no step takes back, and what therefore stays true of the cookies, the *)
(* requests and the responses that it does not touch.                         *)

Onward ==
  /\ clock \in Nat /\ clock' \in Nat /\ clock <= clock'
  /\ \A l \in Logins : login[l] # None =>
       login'[l] # None /\ login'[l].at = login[l].at /\ login'[l].returnTo = login[l].returnTo
  /\ \A k, l : SpentFor(k, l) => SpentFor(k, l)'
  /\ \A s \in Sessions : store[s].state # "unused" =>
       /\ store'[s].state # "unused" /\ store'[s].roles = store[s].roles
       /\ store'[s].code = store[s].code
  /\ dead \subseteq dead'

\* No session is created.
NoneCreated == \A s \in Sessions : Used(s)' => Used(s) /\ store'[s].code = store[s].code

\* The cookies stay.
LEMMA JarStays ==
  ASSUME JarInv, Onward, jar' = jar
  PROVE  JarInv'
BY DEF JarInv, Onward, Used

\* A request stays.
LEMMA ReqStays ==
  ASSUME NEW t \in Tabs, Onward, req'[t] = req[t], ReqOK(t)
  PROVE  ReqOK(t)'
BY DEF ReqOK, Onward, Used

\* A response stays.
LEMMA RespStays ==
  ASSUME NEW t \in Tabs, Onward, req'[t] = req[t], resp'[t] = resp[t], req[t] # None => ReqOK(t),
         RespOK(t)
  PROVE  RespOK(t)'
<1>1. req[t] # None /\ ReqOK(t)
  BY DEF RespOK
<1>2. CookieOK(resp[t]) => CookieOK(resp[t])'
  BY DEF CookieOK, Onward, Used
<1>3. resp[t].to # None => ReturnOK(resp[t], req[t])'
  <2>1. resp[t].to # None => CookieOK(resp[t]) /\ ReturnOK(resp[t], req[t])
    BY DEF RespOK, ReturnOK
  <2> QED BY <2>1 DEF ReturnOK, Onward, Timely, CookieOK, Used
<1>4. req[t].session # None => store'[req[t].session].roles = store[req[t].session].roles
  BY <1>1 DEF ReqOK, Onward, Used
<1>5. RoleOK(resp[t], req[t]) => RoleOK(resp[t], req[t])'
  BY <1>4 DEF RoleOK
<1> QED BY <1>2, <1>3, <1>5 DEF RespOK

\* A tab whose request and response stay.
LEMMA TabsStay ==
  ASSUME TabInv, Onward, UNCHANGED <<req, resp>>
  PROVE  TabInv'
BY ReqStays, RespStays DEF TabInv

\* A handler answers the request of a tab.
LEMMA TabAnswered ==
  ASSUME TabInv, Onward, req' = req, NEW t \in Tabs, NEW r, resp' = [resp EXCEPT ![t] = r],
         RespOK(t)'
  PROVE  TabInv'
<1>1. DOMAIN req' = Tabs /\ DOMAIN resp' = Tabs
  BY DEF TabInv
<1>2. ASSUME NEW u \in Tabs
      PROVE  (req'[u] # None => ReqOK(u)') /\ (resp'[u] # None => RespOK(u)')
  <2>1. req'[u] # None => ReqOK(u)'
    BY ReqStays DEF TabInv
  <2>2. CASE u = t
    BY <2>1, <2>2
  <2>3. CASE u # t
    <3>1. resp'[u] = resp[u]
      BY <2>3 DEF TabInv
    <3> QED BY <2>1, <3>1, RespStays DEF TabInv
  <2> QED BY <2>2, <2>3
<1> QED BY <1>1, <1>2 DEF TabInv

\* What a Callback has found out stays true.
LEMMA CallStays ==
  ASSUME NEW t \in Tabs, Onward, CallOK(t), call'[t] = call[t], req'[t] = req[t],
         call \in [Tabs -> CallRow], resp'[t] = resp[t]
  PROVE  CallOK(t)'
<1>1. call[t].ends <= clock + Lifetime => call[t].ends <= clock' + Lifetime
  <2>1. /\ call[t].ends \in Nat /\ clock \in Nat /\ clock' \in Nat /\ clock <= clock'
        /\ Lifetime \in Nat
    BY WebAuthAssumption DEF Onward, CallRow
  <2> QED BY <2>1
<1>2. \A c, l : Timely(c, l) => Timely(c, l)'
  BY DEF Timely, Onward
<1> QED BY <1>1, <1>2 DEF CallOK, Holds, Onward

\* The Callbacks stay where they are, except those that have returned.
LEMMA CallsStay ==
  ASSUME CallInv, Onward, NoneCreated, call' \in [Tabs -> CallRow],
         \A t \in Tabs : call'[t].step # "start" =>
           call'[t] = call[t] /\ req'[t] = req[t] /\ resp'[t] = resp[t]
  PROVE  CallInv'
<1>1. ASSUME NEW t \in Tabs PROVE CallOK(t)'
  <2>1. CASE call'[t].step # "start"
    BY <2>1, CallStays DEF CallInv
  <2>2. CASE call'[t].step = "start"
    BY <2>2 DEF CallOK, Holds
  <2> QED BY <2>1, <2>2
<1>2. \A t \in Tabs : Holds(t)' => Holds(t) /\ req'[t] = req[t]
  BY DEF Holds
<1>3. \A t \in Tabs, s \in Sessions : Holds(t)' /\ Used(s)' => store'[s].code # req'[t].code
  BY <1>2 DEF CallInv, NoneCreated
<1>4. \A t, u \in Tabs : t # u /\ Holds(t)' /\ Holds(u)' => req'[t].code # req'[u].code
  BY <1>2 DEF CallInv
<1> QED BY <1>1, <1>3, <1>4 DEF CallInv

\* A Callback goes on to its next step.
LEMMA CallMoves ==
  ASSUME CallInv, Onward, NoneCreated, UNCHANGED <<req, resp>>, NEW t \in Tabs, NEW c \in CallRow,
         call' = [call EXCEPT ![t] = c], CallOK(t)',
         Holds(t)' => /\ \A s \in Sessions : Used(s) => store[s].code # req[t].code
                      /\ \A u \in Tabs : u # t /\ Holds(u) => req[u].code # req[t].code
  PROVE  CallInv'
<1>1. call' \in [Tabs -> CallRow] /\ \A u \in Tabs : u # t => call'[u] = call[u]
  BY DEF CallInv
<1>2. ASSUME NEW u \in Tabs PROVE CallOK(u)'
  BY <1>1, CallStays DEF CallInv
<1>3. \A u \in Tabs : u # t /\ Holds(u)' => Holds(u)
  BY <1>1 DEF Holds
<1>4. ASSUME NEW u \in Tabs, NEW s \in Sessions, Holds(u)', Used(s)'
      PROVE  store'[s].code # req'[u].code
  BY <1>3, <1>4 DEF CallInv, NoneCreated
<1>5. ASSUME NEW u \in Tabs, NEW v \in Tabs, u # v, Holds(u)', Holds(v)'
      PROVE  req'[u].code # req'[v].code
  BY <1>3, <1>5 DEF CallInv
<1> QED BY <1>1, <1>2, <1>4, <1>5 DEF CallInv

\* A Callback returns.
LEMMA ReturnsFrame ==
  ASSUME CallInv, NEW t \in Tabs, Returns(t)
  PROVE  /\ call' \in [Tabs -> CallRow] /\ call'[t].step = "start"
         /\ \A u \in Tabs : u # t => call'[u] = call[u]
<1>1. NoCall \in CallRow /\ NoCall.step = "start"
  BY DEF NoCall, CallRow
<1> QED BY <1>1 DEF CallInv, Returns

\* A handler answers without creating a session.
LEMMA Answered ==
  ASSUME WInv, Onward, NoneCreated, LoginInv', StoreInv', UNCHANGED <<jar, req, call>>,
         NEW t \in Tabs, call[t].step = "start", NEW r, resp' = [resp EXCEPT ![t] = r], RespOK(t)'
  PROVE  WInv'
<1>1. JarInv'
  BY JarStays DEF WInv
<1>2. TabInv'
  BY TabAnswered DEF WInv
<1>3. call' \in [Tabs -> CallRow] /\ \A u \in Tabs : u # t => resp'[u] = resp[u]
  BY DEF WInv, CallInv, TabInv
<1>4. CallInv'
  BY <1>3, CallsStay DEF WInv
<1> QED BY <1>1, <1>2, <1>4 DEF WInv

-----------------------------------------------------------------------------
(* The steps. *)

\* Initially it holds.
LEMMA InitKeeps == Init => WInv
<1> SUFFICES ASSUME Init PROVE WInv
  OBVIOUS
<1> USE WebAuthAssumption
<1>1. LoginInv
  BY DEF Init, LoginInv, CodeRow
<1>2. StoreInv
  <2>1. Row("unused", 0, None, {}) \in SessionRow
    BY DEF Row, SessionRow
  <2>2. \A s \in Sessions : store[s].ends = 0 /\ store[s].state = "unused"
    BY DEF Init, Row
  <2>3. store \in [Sessions -> SessionRow]
    BY <2>1 DEF Init
  <2>4. dead = {} /\ clock = 0 /\ Lifetime \in Nat
    BY DEF Init
  <2> QED BY <2>2, <2>3, <2>4 DEF StoreInv, Used
<1>3. JarInv
  <2>1. Never \in Nat
    BY DEF Never
  <2>2. jar = [session |-> [value |-> None, until |-> Never],
               csrf |-> [value |-> None, until |-> Never]]
    BY DEF Init, NoCookie
  <2> QED BY <2>1, <2>2 DEF JarInv, Cookies
<1>4. TabInv
  BY DEF Init, TabInv
<1>5. CallInv
  <2>1. NoCall \in CallRow /\ NoCall.step = "start"
    BY DEF NoCall, CallRow
  <2>2. call \in [Tabs -> CallRow] /\ \A t \in Tabs : call[t].step = "start"
    BY <2>1 DEF Init
  <2> QED BY <2>2 DEF CallInv, CallOK, Holds
<1> QED BY <1>1, <1>2, <1>3, <1>4, <1>5 DEF WInv

\* Nothing is taken back if clock, logins, codes, sessions and dead stay.
LEMMA OnwardFrame ==
  ASSUME LoginInv, UNCHANGED <<clock, login, code, store, dead>>
  PROVE  Onward /\ NoneCreated /\ LoginInv' /\ (StoreInv => StoreInv')
<1>1. clock \in Nat
  BY WebAuthAssumption DEF LoginInv
<1> QED BY <1>1 DEF Onward, NoneCreated, LoginInv, StoreInv, Used, SpentFor

\* A login is begun.
LEMMA LoginKeeps ==
  ASSUME LoginInv, StoreInv, NEW l \in Logins, NEW state \in LoginState, login[l] = None,
         login' = [login EXCEPT ![l] = state], UNCHANGED <<clock, code, store, dead>>,
         state.exp = Unix(state.at + LoginStateTTL * Second),
         state.returnTo = SanitizeReturnTo(state.asked)
  PROVE  Onward /\ NoneCreated /\ LoginInv' /\ StoreInv'
<1>1. state # None
  BY NoneAssumption
<1>2. /\ login' \in [Logins -> LoginState \union {None}] /\ login'[l] = state
      /\ \A m \in Logins : m # l => login'[m] = login[m]
  BY DEF LoginInv
<1>3. LoginInv'
  BY <1>2 DEF LoginInv
<1>4. clock \in Nat
  BY WebAuthAssumption DEF LoginInv
<1>5. Onward
  BY <1>1, <1>2, <1>4 DEF Onward, SpentFor
<1> QED BY <1>3, <1>5 DEF StoreInv, NoneCreated, Used

\* A code is issued for a login, or spent.
LEMMA CodeKeeps ==
  ASSUME LoginInv, StoreInv, NEW k \in Codes, NEW c \in CodeRow,
         code' = [code EXCEPT ![k] = c], UNCHANGED <<clock, login, store, dead>>,
         code[k].spent => c.spent, code[k].login # None => c.login = code[k].login
  PROVE  /\ Onward /\ NoneCreated /\ LoginInv' /\ StoreInv'
         /\ code'[k] = c /\ \A j \in Codes : j # k => code'[j] = code[j]
<1>1. /\ code' \in [Codes -> CodeRow] /\ code'[k] = c
      /\ \A j \in Codes : j # k => code'[j] = code[j]
  BY DEF LoginInv
<1>2. clock \in Nat
  BY WebAuthAssumption DEF LoginInv
<1>3. LoginInv'
  BY <1>1 DEF LoginInv
<1>4. \A j \in Codes : code[j].spent => code'[j].spent
  BY <1>1
<1>5. ASSUME NEW j, NEW l, SpentFor(j, l)
      PROVE  SpentFor(j, l)'
  <2>1. j \in Codes /\ l \in Logins /\ l # None /\ code[j].login = l /\ code[j].spent
    BY <1>5, NoneAssumption DEF SpentFor
  <2>2. code'[j] \in CodeRow /\ code'[j].login = l /\ code'[j].spent
    BY <1>1, <2>1
  <2> QED BY <2>1, <2>2 DEF SpentFor, CodeRow
<1>6. Onward
  BY <1>2, <1>5 DEF Onward
<1>7. StoreInv'
  BY <1>4 DEF StoreInv, Used
<1> QED BY <1>1, <1>3, <1>6, <1>7 DEF NoneCreated, Used

\* A session that was created goes on, or is deleted.
LEMMA RowKeeps ==
  ASSUME LoginInv, StoreInv, NEW s \in Sessions, Used(s), NEW row \in SessionRow,
         store' = [store EXCEPT ![s] = row], UNCHANGED <<clock, login, code>>,
         row.state # "unused", row.code = store[s].code, row.roles = store[s].roles,
         row.ends <= clock + Lifetime,
         dead' = dead \/ dead' = dead \union {s}, s \in dead' => row.state = "deleted"
  PROVE  Onward /\ NoneCreated /\ LoginInv' /\ StoreInv'
<1>1. /\ store' \in [Sessions -> SessionRow] /\ store'[s] = row
      /\ \A x \in Sessions : x # s => store'[x] = store[x]
  BY DEF StoreInv
<1>2. clock \in Nat
  BY WebAuthAssumption DEF LoginInv
<1>3. Onward
  BY <1>1, <1>2 DEF Onward, SpentFor
<1>4. \A x \in Sessions : Used(x)' <=> Used(x)
  BY <1>1 DEF Used
<1>5. \A x \in Sessions : store'[x].code = store[x].code /\ store'[x].roles = store[x].roles
  BY <1>1
<1>6. \A x \in Sessions : store'[x].ends <= clock' + Lifetime
  BY <1>1 DEF StoreInv
<1>7. dead' \subseteq Sessions /\ \A x \in dead' : store'[x].state = "deleted"
  BY <1>1 DEF StoreInv
<1>8. StoreInv'
  BY <1>1, <1>4, <1>5, <1>6, <1>7 DEF StoreInv
<1> QED BY <1>3, <1>4, <1>5, <1>8 DEF LoginInv, NoneCreated

\* SessionManager.Resolve.
LEMMA ResolvesKeeps ==
  ASSUME LoginInv, StoreInv, NEW s, NEW ends \in Nat, Resolves(s, ends),
         UNCHANGED <<clock, login, code, dead>>
  PROVE  /\ Onward /\ NoneCreated /\ LoginInv' /\ StoreInv'
         /\ Used(s)' /\ Used(s) /\ store[s].state = "live"
         /\ ends <= clock + Lifetime /\ store'[s].roles = store[s].roles
<1>1. s \in Sessions /\ store[s].state = "live" /\ store' = [store EXCEPT ![s].ends = ends]
  BY DEF Resolves, Live
<1>2. ends <= clock + Lifetime
  <2>1. ends = store[s].ends \/ ends = clock + Lifetime
    BY DEF Resolves
  <2>2. store[s].ends <= clock + Lifetime
    BY <1>1 DEF StoreInv
  <2>3. clock + Lifetime \in Nat
    BY WebAuthAssumption DEF LoginInv
  <2> QED BY <2>1, <2>2, <2>3
<1> DEFINE row == [store[s] EXCEPT !.ends = ends]
<1>3. /\ row \in SessionRow /\ row.state = "live" /\ row.code = store[s].code
      /\ row.roles = store[s].roles /\ row.ends = ends
  BY <1>1 DEF StoreInv, SessionRow
<1>4. store' = [store EXCEPT ![s] = row] /\ Used(s) /\ s \notin dead
  BY <1>1 DEF Used, StoreInv
<1>5. store'[s] = row
  BY <1>1, <1>4 DEF StoreInv
<1> HIDE DEF row
<1>6. Onward /\ NoneCreated /\ LoginInv' /\ StoreInv'
  BY <1>1, <1>2, <1>3, <1>4, RowKeeps
<1> QED BY <1>1, <1>2, <1>3, <1>4, <1>5, <1>6 DEF Used

\* A session is deleted, by a failed Resolve or a logout.
LEMMA DeleteKeeps ==
  ASSUME LoginInv, StoreInv, NEW s, Used(s), store' = [store EXCEPT ![s].state = "deleted"],
         UNCHANGED <<clock, login, code>>, dead' = dead \/ dead' = dead \union {s}
  PROVE  Onward /\ NoneCreated /\ LoginInv' /\ StoreInv'
<1>1. s \in Sessions
  BY DEF Used
<1> DEFINE row == [store[s] EXCEPT !.state = "deleted"]
<1>2. /\ row \in SessionRow /\ row.state = "deleted" /\ row.code = store[s].code
      /\ row.roles = store[s].roles /\ row.ends = store[s].ends
  BY <1>1 DEF StoreInv, SessionRow
<1>3. store' = [store EXCEPT ![s] = row]
  BY <1>1
<1>4. row.ends <= clock + Lifetime
  BY <1>1, <1>2 DEF StoreInv
<1> HIDE DEF row
<1> QED BY <1>1, <1>2, <1>3, <1>4, RowKeeps

\* A failed Resolve.
LEMMA ResolveFailsKeeps ==
  ASSUME LoginInv, StoreInv, NEW s, ResolveFails(s), UNCHANGED <<clock, login, code, dead>>
  PROVE  Onward /\ NoneCreated /\ LoginInv' /\ StoreInv'
<1>1. CASE UNCHANGED store
  BY <1>1, OnwardFrame
<1>2. CASE Live(s) /\ store' = [store EXCEPT ![s].state = "deleted"]
  <2>1. Used(s)
    BY <1>2 DEF Live, Used
  <2> QED BY <1>2, <2>1, DeleteKeeps
<1> QED BY <1>1, <1>2 DEF ResolveFails

\* A callback stores the session of a code that is spent and has none yet.
LEMMA CreateKeeps ==
  ASSUME LoginInv, StoreInv, NEW k \in Codes, code[k].spent, NEW s \in Sessions,
         NEW roles \in RoleSets, NEW ends \in Nat, ends <= clock + Lifetime,
         \A x \in Sessions : Used(x) => store[x].code # k,
         store[s].state = "unused", store' = [store EXCEPT ![s] = Row("live", ends, k, roles)],
         UNCHANGED <<clock, login, code, dead>>
  PROVE  /\ Onward /\ LoginInv' /\ StoreInv' /\ Used(s)' /\ store'[s].code = k
         /\ \A x \in Sessions : Used(x)' => x = s \/ (Used(x) /\ store'[x].code = store[x].code)
<1>1. clock \in Nat /\ LoginInv'
  BY WebAuthAssumption DEF LoginInv
<1> DEFINE row == Row("live", ends, k, roles)
<1>2. /\ row \in SessionRow /\ row.state = "live" /\ row.ends = ends
      /\ row.code = k /\ row.roles = roles
  BY DEF Row, SessionRow
<1> HIDE DEF row
<1>3. /\ store' \in [Sessions -> SessionRow] /\ store'[s] = row
      /\ \A x \in Sessions : x # s => store'[x] = store[x]
  BY <1>2 DEF StoreInv, row
<1>4. Onward
  BY <1>1, <1>3 DEF Onward, SpentFor
<1>5. \A x \in Sessions : Used(x)' <=> (Used(x) \/ x = s)
  BY <1>2, <1>3 DEF Used
<1>6. ASSUME NEW x \in Sessions, Used(x)'
      PROVE  /\ store'[x].code \in Codes /\ store'[x].roles \in RoleSets
             /\ code'[store'[x].code].spent
  <2>1. CASE x = s
    BY <1>2, <1>3, <2>1
  <2>2. CASE x # s
    BY <1>3, <1>5, <1>6, <2>2 DEF StoreInv
  <2> QED BY <2>1, <2>2
<1>7. ASSUME NEW x \in Sessions, NEW y \in Sessions, x # y, Used(x)', Used(y)'
      PROVE  store'[x].code # store'[y].code
  <2>1. CASE x = s
    BY <1>2, <1>3, <1>5, <1>7, <2>1
  <2>2. CASE y = s
    BY <1>2, <1>3, <1>5, <1>7, <2>2
  <2>3. CASE x # s /\ y # s
    BY <1>3, <1>5, <1>7, <2>3 DEF StoreInv
  <2> QED BY <2>1, <2>2, <2>3
<1>8. \A x \in Sessions : store'[x].ends <= clock' + Lifetime
  BY <1>2, <1>3 DEF StoreInv, SessionRow
<1>9. dead' \subseteq Sessions /\ \A x \in dead' : store'[x].state = "deleted"
  BY <1>3 DEF StoreInv
<1>10. StoreInv'
  BY <1>3, <1>6, <1>7, <1>8, <1>9 DEF StoreInv
<1>11. \A x \in Sessions : Used(x)' => x = s \/ (Used(x) /\ store'[x].code = store[x].code)
  BY <1>3, <1>5
<1>12. Used(s)' /\ store'[s].code = k
  BY <1>2, <1>3, <1>5
<1> QED BY <1>1, <1>4, <1>10, <1>11, <1>12

\* The fields of a response.
IsReply(r) ==
  r = [status |-> r.status, set |-> r.set, session |-> r.session, csrf |-> r.csrf,
       maxAge |-> r.maxAge, at |-> r.at, ends |-> r.ends, to |-> r.to,
       checked |-> r.checked, values |-> r.values, cors |-> r.cors]

\* CORS adds its headers to the response of a handler, and nothing else.
LEMMA RespondFields ==
  ASSUME TabInv, NEW t \in Tabs, NEW r, IsReply(r), Respond(t, r)
  PROVE  /\ resp' = [resp EXCEPT ![t] = resp'[t]]
         /\ resp'[t].status = r.status /\ resp'[t].set = r.set /\ resp'[t].session = r.session
         /\ resp'[t].csrf = r.csrf /\ resp'[t].maxAge = r.maxAge /\ resp'[t].at = r.at
         /\ resp'[t].ends = r.ends /\ resp'[t].to = r.to /\ resp'[t].checked = r.checked
         /\ resp'[t].values = r.values
         /\ resp'[t].cors => \E policy \in Policies \ {None} : req[t].origin \in policy
<1>1. PICK policy \in Policies :
        resp' = [resp EXCEPT ![t] = [r EXCEPT !.cors = CORSHeaders(policy, req[t].origin)]]
  BY DEF Respond
<1> DEFINE c == CORSHeaders(policy, req[t].origin)
<1>2. c => \E p \in Policies \ {None} : req[t].origin \in p
  BY DEF CORSHeaders
<1> DEFINE a == [r EXCEPT !.cors = c]
<1>3. resp' = [resp EXCEPT ![t] = a] /\ resp'[t] = a
  BY <1>1 DEF TabInv
<1>4. c \in BOOLEAN
  BY DEF CORSHeaders
<1> HIDE DEF c
<1>5. /\ a.status = r.status /\ a.set = r.set /\ a.session = r.session /\ a.csrf = r.csrf
      /\ a.maxAge = r.maxAge /\ a.at = r.at /\ a.ends = r.ends /\ a.to = r.to
      /\ a.checked = r.checked /\ a.values = r.values /\ a.cors = c
  BY <1>4 DEF IsReply
<1> HIDE DEF a
<1> QED BY <1>2, <1>3, <1>5

\* A response that sets no cookies and does not come from the API's handlers.
LEMMA PlainReply ==
  ASSUME TabInv, NEW t \in Tabs, req[t] # None, req' = req, NEW status, NEW r, Respond(t, r),
         status \in Statuses, req[t].op = "api" => status \notin {200, 500},
         r = Reply(t, status) \/ r = [Reply(t, status) EXCEPT !.set = "clear"]
  PROVE  resp' = [resp EXCEPT ![t] = resp'[t]] /\ RespOK(t)'
<1>1. /\ IsReply(r) /\ r.status = status /\ r.set \in {"none", "clear"} /\ r.session = None
      /\ r.to = None
  BY DEF IsReply, Reply
<1>2. /\ resp' = [resp EXCEPT ![t] = resp'[t]]
      /\ resp'[t].status = status /\ resp'[t].set \in {"none", "clear"}
      /\ resp'[t].session = None /\ resp'[t].to = None
      /\ resp'[t].cors => \E policy \in Policies \ {None} : req[t].origin \in policy
  BY <1>1, RespondFields
<1>3. RespOK(t)'
  BY <1>2 DEF RespOK
<1> QED BY <1>2, <1>3

\* The fields of the response that applySession makes.
LEMMA SessionReply ==
  ASSUME NEW t, NEW status, NEW s, NEW ends
  PROVE  LET r == ApplySession(Reply(t, status), s, ends)
         IN  /\ IsReply(r) /\ r.status = status /\ r.set = "both" /\ r.session = s
             /\ r.csrf = "token" /\ r.at = clock /\ r.ends = ends /\ r.to = None
             /\ r.maxAge = (IF ends > clock THEN ends - clock ELSE 0) \div Second
<1> DEFINE age == (IF ends > clock THEN ends - clock ELSE 0) \div Second
<1> DEFINE b == Reply(t, status)
<1> DEFINE r == [b EXCEPT !.set = "both", !.session = s, !.at = clock,
                   !.ends = ends, !.csrf = "token", !.maxAge = age]
<1>1. ApplySession(Reply(t, status), s, ends) = r
  BY DEF ApplySession
<1>2. IsReply(b) /\ b.status = status /\ b.to = None
  BY DEF Reply, IsReply
<1> HIDE DEF age, b
<1> DEFINE b1 == [b EXCEPT !.set = "both"]
<1>3. IsReply(b1) /\ b1.status = status /\ b1.to = None /\ b1.set = "both"
  BY <1>2 DEF IsReply
<1> DEFINE b2 == [b1 EXCEPT !.session = s]
<1>4. b2 = [b EXCEPT !.set = "both", !.session = s]
  OBVIOUS
<1> HIDE DEF b1
<1>5. IsReply(b2) /\ b2.status = status /\ b2.to = None /\ b2.set = "both" /\ b2.session = s
  BY <1>3 DEF IsReply
<1> HIDE DEF b2
<1> DEFINE c == [b2 EXCEPT !.at = clock]
<1>6. /\ IsReply(c) /\ c.status = status /\ c.set = "both" /\ c.session = s /\ c.at = clock
      /\ c.to = None
  BY <1>5 DEF IsReply
<1>7. r = [c EXCEPT !.ends = ends, !.csrf = "token", !.maxAge = age]
  BY <1>4
<1> HIDE DEF c, r
<1>8. /\ IsReply(r) /\ r.status = status /\ r.set = "both" /\ r.session = s
      /\ r.csrf = "token" /\ r.at = clock /\ r.ends = ends /\ r.to = None /\ r.maxAge = age
  BY <1>6, <1>7 DEF IsReply
<1> QED BY <1>1, <1>8 DEF age

\* A response of applySession carries the cookies of a session.
LEMMA SessionCookies ==
  ASSUME LoginInv, UNCHANGED clock, NEW r, NEW s, NEW ends \in Nat, Used(s)',
         ends <= clock + Lifetime,
         r.session = s, r.csrf = "token", r.at = clock, r.ends = ends,
         r.maxAge = (IF ends > clock THEN ends - clock ELSE 0) \div Second
  PROVE  CookieOK(r)'
BY WebAuthAssumption DEF LoginInv, CookieOK

-----------------------------------------------------------------------------
(* The browser. *)

\* What is sent of the cookies names a session that exists or did.
LEMMA SentCookies ==
  ASSUME JarInv
  PROVE  Value(jar.session) # None => Used(Value(jar.session))
BY DEF JarInv, Value

\* A request is sent.
LEMMA SendKeeps ==
  ASSUME WInv, NEW t \in Tabs, NEW op, NEW l, NEW k, NEW route, NEW header, NEW api,
         Send(t, op, l, k, route, header, api),
         op = "callback" => l \in Logins /\ login[l] # None /\ k \in Codes \union {None},
         op = "api" => route \in Routes
  PROVE  WInv'
<1> USE DEF WInv
<1>1. UNCHANGED <<clock, login, code, store, jar, resp, call, dead>> /\ req[t] = None
  BY DEF Send
<1>2. Onward /\ NoneCreated /\ LoginInv' /\ StoreInv'
  BY <1>1, OnwardFrame
<1>3. JarInv'
  BY <1>1, <1>2, JarStays
<1> DEFINE v == Value(jar.session)
<1> DEFINE late == op = "api" /\ v \in dead
<1> DEFINE r == [op |-> op, method |-> api.method, login |-> l, code |-> k, route |-> route,
                 origin |-> api.origin, session |-> v, csrf |-> Value(jar.csrf),
                 header |-> header, bearer |-> api.bearer, late |-> late]
<1>4. req' = [req EXCEPT ![t] = r]
  BY DEF Send
<1>5. v # None => Used(v)
  BY SentCookies
<1>6. late => v \in dead
  OBVIOUS
<1>7. /\ r.op = op /\ r.login = l /\ r.code = k /\ r.route = route /\ r.session = v
      /\ r.late => v \in dead
  <2>1. late \in BOOLEAN
    OBVIOUS
  <2> HIDE DEF late, v
  <2> QED BY <1>6, <2>1
<1> HIDE DEF r, v, late
<1>8. /\ DOMAIN req' = Tabs /\ req'[t] = r
      /\ \A u \in Tabs : u # t => req'[u] = req[u]
  BY <1>4 DEF TabInv
<1>9. resp[t] = None
  BY <1>1 DEF TabInv, RespOK
<1>10. ReqOK(t)'
  BY <1>1, <1>5, <1>7, <1>8 DEF ReqOK, Used
<1>11. ASSUME NEW u \in Tabs
       PROVE  (req'[u] # None => ReqOK(u)') /\ (resp'[u] # None => RespOK(u)')
  <2>1. CASE u = t
    BY <1>1, <1>9, <1>10, <2>1
  <2>2. CASE u # t
    BY <1>1, <1>2, <1>8, <2>2, ReqStays, RespStays DEF TabInv
  <2> QED BY <2>1, <2>2
<1>12. TabInv'
  BY <1>1, <1>8, <1>11 DEF TabInv
<1>13. CallInv'
  <2>1. call[t].step = "start" /\ call' = call /\ call \in [Tabs -> CallRow] /\ resp' = resp
    BY <1>1 DEF CallInv, CallOK
  <2> QED BY <1>2, <1>8, <2>1, CallsStay
<1> QED BY <1>2, <1>3, <1>12, <1>13

\* The cookie that the browser makes of a response.
LEMMA CookieKept ==
  ASSUME LoginInv, NEW r, CookieOK(r), NEW value
  PROVE  LET c == CookieOf(value, r.maxAge)
         IN  /\ c.value = value /\ c.until \in Nat
             /\ c = [value |-> value, until |-> c.until]
             /\ c.until = IF r.maxAge = 0 THEN Never ELSE clock + r.maxAge * Second
             /\ IF c.until = Never THEN r.ends < r.at + Second
                ELSE c.until - clock <= r.ends - r.at
<1>1. /\ clock \in Nat /\ clock <= MaxTime /\ MaxTime \in Nat /\ Lifetime \in Nat
      /\ Second \in Nat /\ Second > 0
  BY WebAuthAssumption DEF LoginInv
<1>2. r.at \in Nat /\ r.ends \in Nat /\ r.ends <= r.at + Lifetime
  BY <1>1 DEF CookieOK
<1> DEFINE left == IF r.ends > r.at THEN r.ends - r.at ELSE 0
<1> DEFINE age == r.maxAge
<1>3. left \in Nat /\ left <= Lifetime /\ age = left \div Second
  BY <1>1, <1>2 DEF CookieOK
<1> HIDE DEF left
<1>4. age \in Nat /\ age * Second <= left /\ left < age * Second + Second
  BY <1>3, WholeSeconds
<1> HIDE DEF age
<1> DEFINE p == age * Second
<1>5. p \in Nat
  BY <1>1, <1>4
<1>6. age = 0 => p = 0
  BY <1>1
<1>7. age # 0 => p > 0
  BY <1>1, <1>4
<1> HIDE DEF p
<1> DEFINE until == IF age = 0 THEN Never ELSE clock + p
<1>8. Never \in Nat /\ Never = MaxTime + 2 * Lifetime + 1
  BY <1>1 DEF Never
<1>9. until \in Nat
  BY <1>1, <1>5, <1>8
<1>10. left < p + Second /\ p <= left
  BY <1>4 DEF p
<1>11. CASE age = 0
  <2>1. left < Second
    BY <1>1, <1>3, <1>6, <1>10, <1>11
  <2>2. r.ends < r.at + Second
    BY <1>1, <1>2, <2>1 DEF left
  <2> QED BY <1>8, <1>11, <2>2 DEF CookieOf, age
<1>12. CASE age # 0
  <2>1. clock + p # Never
    BY <1>1, <1>3, <1>5, <1>8, <1>10
  <2>2. left > 0
    BY <1>3, <1>5, <1>7, <1>10, <1>12
  <2>3. left = r.ends - r.at
    BY <2>2 DEF left
  <2>4. (clock + p) - clock <= r.ends - r.at
    BY <1>1, <1>2, <1>3, <1>5, <1>10, <2>3
  <2> QED BY <1>1, <1>5, <1>12, <2>1, <2>4 DEF CookieOf, age, p
<1> QED BY <1>11, <1>12

\* A response arrives.
LEMMA DeliverKeeps ==
  ASSUME WInv, NEW t \in Tabs, Deliver(t)
  PROVE  WInv'
<1> USE DEF WInv
<1>1. /\ UNCHANGED <<clock, login, code, store, call, dead>> /\ resp[t] # None
      /\ req' = [req EXCEPT ![t] = None] /\ resp' = [resp EXCEPT ![t] = None]
  BY DEF Deliver
<1>2. Onward /\ NoneCreated /\ LoginInv' /\ StoreInv'
  BY <1>1, OnwardFrame
<1>3. RespOK(t)
  BY <1>1 DEF TabInv
<1>4. JarInv'
  <2>1. CASE resp[t].set = "none"
    <3>1. jar' = jar
      BY <2>1 DEF Deliver
    <3> QED BY <1>2, <3>1, JarStays
  <2>2. CASE resp[t].set = "clear"
    <3>1. jar' = [jar EXCEPT !.session = NoCookie, !.csrf = NoCookie]
      BY <2>2 DEF Deliver
    <3>2. Never \in Nat
      BY WebAuthAssumption DEF Never
    <3>3. NoCookie \in Cookies(Sessions \union {None}) /\ NoCookie \in Cookies({"token", None})
      BY <3>2 DEF NoCookie, Cookies
    <3>4. NoCookie.value = None
      BY DEF NoCookie
    <3>5. /\ jar' \in [session : Cookies(Sessions \union {None}), csrf : Cookies({"token", None})]
          /\ jar'.session = NoCookie /\ jar'.csrf = NoCookie
      BY <3>1, <3>3 DEF JarInv
    <3> QED BY <3>4, <3>5 DEF JarInv
  <2>3. CASE resp[t].set = "both"
    <3> DEFINE r == resp[t]
    <3> DEFINE a == CookieOf(r.session, r.maxAge)
    <3> DEFINE b == CookieOf(r.csrf, r.maxAge)
    <3>1. CookieOK(r)
      BY <1>3, <2>3 DEF RespOK
    <3>2. jar' = [session |-> a, csrf |-> b]
      BY <2>3 DEF Deliver
    <3>3. a.value = r.session /\ a.until \in Nat /\ a = [value |-> r.session, until |-> a.until]
      BY <3>1, CookieKept
    <3>4. b.value = r.csrf /\ b.until \in Nat /\ b = [value |-> r.csrf, until |-> b.until]
      BY <3>1, CookieKept
    <3>5. a.until = b.until
      BY DEF CookieOf
    <3>6. Used(r.session) /\ r.session \in Sessions /\ r.csrf = "token"
      BY <3>1 DEF CookieOK, Used
    <3>7. PICK s \in Sessions : s = r.session /\ Used(s)'
      BY <1>1, <3>6 DEF Used
    <3> HIDE DEF a, b, r
    <3>8. a \in Cookies(Sessions \union {None}) /\ b \in Cookies({"token", None})
      BY <3>3, <3>4, <3>6 DEF Cookies
    <3>9. /\ jar' \in [session : Cookies(Sessions \union {None}), csrf : Cookies({"token", None})]
          /\ jar'.session = a /\ jar'.csrf = b
      BY <3>2, <3>8
    <3>10. r.session # None /\ r.csrf # None
      BY <3>6, NoneAssumption
    <3> QED BY <3>3, <3>4, <3>5, <3>7, <3>9, <3>10 DEF JarInv
  <2> QED BY <1>3, <2>1, <2>2, <2>3 DEF RespOK
<1>5. /\ DOMAIN req' = Tabs /\ DOMAIN resp' = Tabs /\ req'[t] = None /\ resp'[t] = None
      /\ \A u \in Tabs : u # t => req'[u] = req[u] /\ resp'[u] = resp[u]
  BY <1>1 DEF TabInv
<1>6. ASSUME NEW u \in Tabs
      PROVE  (req'[u] # None => ReqOK(u)') /\ (resp'[u] # None => RespOK(u)')
  <2>1. CASE u = t
    BY <1>5, <2>1
  <2>2. CASE u # t
    BY <1>2, <1>5, <2>2, ReqStays, RespStays DEF TabInv
  <2> QED BY <2>1, <2>2
<1>7. TabInv'
  BY <1>5, <1>6 DEF TabInv
<1>8. CallInv'
  <2>1. call[t].step = "start"
    BY <1>1 DEF CallInv, CallOK
  <2>2. call' = call /\ call \in [Tabs -> CallRow]
    BY <1>1 DEF CallInv
  <2> QED BY <1>2, <1>5, <2>1, <2>2, CallsStay
<1> QED BY <1>2, <1>4, <1>7, <1>8

-----------------------------------------------------------------------------
(* The server. *)

\* CORS or CSRF stops a request.
LEMMA StoppedKeeps ==
  ASSUME WInv, NEW t \in Tabs, Stopped(t)
  PROVE  WInv'
<1> USE DEF WInv
<1>1. /\ UNCHANGED <<clock, login, code, store, jar, req, call, dead>> /\ req[t] # None
      /\ call[t].step = "start" /\ \E status \in {204, 403} : Respond(t, Reply(t, status))
  BY DEF Stopped, Arrived
<1>2. Onward /\ NoneCreated /\ LoginInv' /\ StoreInv'
  BY <1>1, OnwardFrame
<1>3. resp' = [resp EXCEPT ![t] = resp'[t]] /\ RespOK(t)'
  <2>1. PICK status \in {204, 403} : Respond(t, Reply(t, status))
    BY <1>1
  <2>2. status \in Statuses /\ status \notin {200, 500}
    BY DEF Statuses
  <2>3. PICK r : Respond(t, r) /\ r = Reply(t, status)
    BY <2>1
  <2> QED BY <1>1, <2>2, <2>3, PlainReply
<1> QED BY <1>1, <1>2, <1>3, Answered

\* Callback refuses: it answers with a plain error and returns.
LEMMA CallbackRefuses ==
  ASSUME WInv, NEW t \in Tabs, req[t] # None, req[t].op = "callback", UNCHANGED <<jar, req>>,
         Onward, LoginInv', StoreInv', (call' = call /\ call[t].step = "start") \/ Returns(t),
         NEW status \in {400, 401, 500}, Respond(t, Reply(t, status))
  PROVE  JarInv' /\ TabInv' /\ (NoneCreated => WInv')
<1> USE DEF WInv
<1>1. status \in Statuses
  BY DEF Statuses
<1>2. PICK r : Respond(t, r) /\ r = Reply(t, status)
  OBVIOUS
<1>3. resp' = [resp EXCEPT ![t] = resp'[t]] /\ RespOK(t)'
  BY <1>1, <1>2, PlainReply
<1>4. JarInv' /\ TabInv'
  BY <1>3, JarStays, TabAnswered
<1>5. /\ call' \in [Tabs -> CallRow] /\ call'[t].step = "start"
      /\ \A u \in Tabs : u # t => call'[u] = call[u] /\ resp'[u] = resp[u]
  BY <1>3, ReturnsFrame DEF CallInv, TabInv
<1>6. NoneCreated => CallInv'
  BY <1>5, CallsStay
<1> QED BY <1>4, <1>6

\* The state is checked.
LEMMA CheckStateKeeps ==
  ASSUME WInv, NEW t \in Tabs, CheckState(t)
  PROVE  WInv'
<1> USE DEF WInv
<1>1. /\ UNCHANGED <<clock, login, code, store, jar, req, dead>> /\ req[t] # None
      /\ req[t].op = "callback" /\ call[t].step = "start" /\ resp[t] = None
  BY DEF CheckState, Passes, Arrived
<1>2. Onward /\ NoneCreated /\ LoginInv' /\ StoreInv'
  BY <1>1, OnwardFrame
<1>3. CASE Respond(t, Reply(t, 400)) /\ UNCHANGED call
  BY <1>1, <1>2, <1>3, CallbackRefuses
<1>4. CASE /\ req[t].code # None /\ DecodeState(req[t].login)
           /\ call' = [call EXCEPT ![t].step = "exchange", ![t].checked = clock]
           /\ UNCHANGED resp
  <2> DEFINE l == req[t].login
  <2>1. l \in Logins /\ login[l] # None /\ req[t].code \in Codes
    BY <1>1, <1>4 DEF TabInv, ReqOK
  <2>2. login[l].at \in Nat /\ clock \in Nat
    BY <2>1, WebAuthAssumption DEF LoginInv, LoginState
  <2>3. Unix(clock) <= Unix(login[l].at + LoginStateTTL * Second)
    BY <1>4, <2>1 DEF DecodeState, LoginInv
  <2>4. clock < login[l].at + (LoginStateTTL + 1) * Second
    BY <2>2, <2>3, StateAge
  <2>5. Timely(clock, l)'
    BY <1>1, <2>1, <2>4 DEF Timely
  <2> HIDE DEF l
  <2> DEFINE c == [call[t] EXCEPT !.step = "exchange", !.checked = clock]
  <2>6. c \in CallRow /\ c.step = "exchange" /\ c.checked = clock
    BY <2>2 DEF CallInv, CallRow
  <2>7. call' = [call EXCEPT ![t] = c]
    BY <1>4
  <2> HIDE DEF c
  <2>8. CallOK(t)'
    <3>1. call'[t] = c
      BY <2>7 DEF CallInv
    <3> QED BY <1>1, <1>4, <2>1, <2>5, <2>6, <3>1 DEF CallOK, Holds, l
  <2>9. ~Holds(t)'
    BY <2>6, <2>7 DEF CallInv, Holds
  <2>10. CallInv'
    BY <1>1, <1>2, <1>4, <2>6, <2>7, <2>8, <2>9, CallMoves
  <2> QED BY <1>1, <1>2, <1>4, <2>10, JarStays, TabsStay
<1> QED BY <1>3, <1>4 DEF CheckState

\* The code is exchanged.
LEMMA ExchangeKeeps ==
  ASSUME WInv, NEW t \in Tabs, Exchange(t)
  PROVE  WInv'
<1> USE DEF WInv
<1>1. /\ UNCHANGED <<clock, login, store, jar, req, dead>> /\ req[t] # None
      /\ call[t].step = "exchange" /\ resp[t] = None
  BY DEF Exchange, Waits
<1>2. /\ req[t].op = "callback" /\ req[t].code \in Codes
      /\ Timely(call[t].checked, req[t].login)
  BY <1>1 DEF CallInv, CallOK
<1> DEFINE k == req[t].code
<1>3. ASSUME Spend(k)
      PROVE  /\ Onward /\ NoneCreated /\ LoginInv' /\ StoreInv'
             /\ code'[k] = [login |-> code[k].login, spent |-> TRUE]
  <2> DEFINE c == [code[k] EXCEPT !.spent = TRUE]
  <2>1. PICK d \in CodeRow : d = code[k]
    BY <1>2 DEF LoginInv
  <2>2. c \in CodeRow /\ c = [login |-> code[k].login, spent |-> TRUE]
    <3> DEFINE e == [d EXCEPT !.spent = TRUE]
    <3>1. e \in CodeRow /\ e = [login |-> d.login, spent |-> TRUE]
      <4> HIDE DEF c
      <4>1. e \in CodeRow /\ e.login = d.login /\ e.spent = TRUE
        BY DEF CodeRow
      <4> HIDE DEF e
      <4> QED BY <4>1 DEF CodeRow
    <3>2. c = e
      BY <2>1
    <3> QED BY <2>1, <3>1, <3>2
  <2>3. code' = [code EXCEPT ![k] = c]
    BY <1>3 DEF Spend
  <2> HIDE DEF c
  <2>4. PICK j \in Codes : j = k
    BY <1>2
  <2>5. /\ Onward /\ NoneCreated /\ LoginInv' /\ StoreInv' /\ code'[j] = c
    BY <1>1, <2>2, <2>3, <2>4, CodeKeeps
  <2> QED BY <2>2, <2>4, <2>5
<1>4. CASE /\ Respond(t, Reply(t, 401)) /\ (UNCHANGED code \/ Spend(k)) /\ Returns(t)
  <2>1. Onward /\ NoneCreated /\ LoginInv' /\ StoreInv'
    BY <1>1, <1>3, <1>4, OnwardFrame
  <2> QED BY <1>1, <1>2, <1>4, <2>1, CallbackRefuses
<1>5. CASE /\ code[k] = [login |-> req[t].login, spent |-> FALSE] /\ Spend(k)
           /\ call' = [call EXCEPT ![t].step = "verify"] /\ UNCHANGED resp
  <2>1. /\ Onward /\ NoneCreated /\ LoginInv' /\ StoreInv'
        /\ code'[k] = [login |-> req[t].login, spent |-> TRUE]
    BY <1>3, <1>5
  <2> DEFINE c == [call[t] EXCEPT !.step = "verify"]
  <2>2. c \in CallRow /\ c.step = "verify" /\ c.checked = call[t].checked
    BY DEF CallInv, CallRow
  <2>3. call' = [call EXCEPT ![t] = c] /\ call'[t] = c
    BY <1>5 DEF CallInv
  <2> HIDE DEF c
  <2>4. Timely(call[t].checked, req[t].login)' /\ SpentFor(k, req[t].login)'
    BY <1>1, <1>2, <2>1, <2>2, <2>3 DEF Timely, Onward, SpentFor
  <2>5. CallOK(t)'
    BY <1>1, <1>2, <1>5, <2>2, <2>3, <2>4 DEF CallOK, Holds
  <2>6. ~code[k].spent
    BY <1>5
  <2>7. /\ \A s \in Sessions : Used(s) => store[s].code # k
        /\ \A u \in Tabs : Holds(u) => req[u].code # k
    <3>1. \A s \in Sessions : Used(s) => store[s].code # k
      BY <2>6 DEF StoreInv
    <3>2. \A u \in Tabs : Holds(u) => SpentFor(req[u].code, req[u].login)
      BY DEF CallInv, CallOK
    <3>3. \A l : ~SpentFor(k, l)
      BY <2>6 DEF SpentFor
    <3> QED BY <3>1, <3>2, <3>3
  <2>8. CallInv'
    BY <1>1, <1>5, <2>1, <2>2, <2>3, <2>5, <2>6, <2>7, CallMoves
  <2> QED BY <1>1, <1>5, <2>1, <2>8, JarStays, TabsStay
<1> QED BY <1>4, <1>5 DEF Exchange

\* The claims are verified.
LEMMA VerifyClaimsKeeps ==
  ASSUME WInv, NEW t \in Tabs, VerifyClaims(t)
  PROVE  WInv'
<1> USE DEF WInv
<1>1. /\ UNCHANGED <<clock, login, code, store, jar, req, dead>> /\ req[t] # None
      /\ call[t].step = "verify" /\ resp[t] = None
  BY DEF VerifyClaims, Waits
<1>2. /\ req[t].op = "callback" /\ req[t].code \in Codes /\ Holds(t)
      /\ Timely(call[t].checked, req[t].login) /\ SpentFor(req[t].code, req[t].login)
  BY <1>1 DEF CallInv, CallOK, Holds
<1>3. Onward /\ NoneCreated /\ LoginInv' /\ StoreInv'
  BY <1>1, OnwardFrame
<1>4. CASE Respond(t, Reply(t, 401)) /\ Returns(t)
  BY <1>1, <1>2, <1>3, <1>4, CallbackRefuses
<1>5. ASSUME UNCHANGED resp, NEW roles \in RoleSets,
             call' = [call EXCEPT ![t].step = "create", ![t].roles = roles,
                                  ![t].ends = clock + Lifetime]
      PROVE  WInv'
  <2> DEFINE end == clock + Lifetime
  <2>1. end \in Nat /\ end <= clock + Lifetime
    BY WebAuthAssumption DEF LoginInv
  <2> DEFINE c == [call[t] EXCEPT !.step = "create", !.roles = roles, !.ends = end]
  <2>2. call' = [call EXCEPT ![t] = c]
    BY <1>5
  <2> HIDE DEF end
  <2>3. /\ c \in CallRow /\ c.step = "create" /\ c.checked = call[t].checked
        /\ c.roles = roles /\ c.ends = end
    BY <2>1 DEF CallInv, CallRow
  <2> HIDE DEF c
  <2>4. call'[t] = c
    BY <2>2 DEF CallInv
  <2>5. Timely(call[t].checked, req[t].login)' /\ SpentFor(req[t].code, req[t].login)'
    BY <1>1, <1>2, <1>3, <2>3, <2>4 DEF Timely, Onward, SpentFor
  <2>6. CallOK(t)'
    BY <1>1, <1>2, <1>5, <2>1, <2>3, <2>4, <2>5 DEF CallOK, Holds
  <2>7. \A s \in Sessions : Used(s) => store[s].code # req[t].code
    BY <1>2 DEF CallInv
  <2>8. \A u \in Tabs : u # t /\ Holds(u) => req[u].code # req[t].code
    BY <1>2 DEF CallInv
  <2>9. CallInv'
    BY <1>1, <1>3, <1>5, <2>2, <2>3, <2>6, <2>7, <2>8, CallMoves
  <2> QED BY <1>1, <1>3, <1>5, <2>9, JarStays, TabsStay
<1> QED BY <1>4, <1>5 DEF VerifyClaims

\* The session is stored, and its cookies are on their way.
LEMMA CreateStepKeeps ==
  ASSUME WInv, NEW t \in Tabs, Create(t)
  PROVE  WInv'
<1> USE DEF WInv
<1>1. /\ UNCHANGED <<clock, login, code, jar, req, dead>> /\ req[t] # None
      /\ call[t].step = "create" /\ Returns(t)
  BY DEF Create, Waits
<1> DEFINE l == req[t].login
<1> DEFINE k == req[t].code
<1> DEFINE ends == call[t].ends
<1> DEFINE checked == call[t].checked
<1>2. /\ req[t].op = "callback" /\ k \in Codes /\ Holds(t) /\ Timely(checked, l)
      /\ SpentFor(k, l)
      /\ call[t].roles \in RoleSets /\ ends \in Nat /\ ends <= clock + Lifetime
      /\ code[k].spent
  BY <1>1 DEF CallInv, CallOK, Holds, CallRow, SpentFor
<1>3. CASE Respond(t, Reply(t, 500)) /\ UNCHANGED store
  <2>1. Onward /\ NoneCreated /\ LoginInv' /\ StoreInv'
    BY <1>1, <1>3, OnwardFrame
  <2> QED BY <1>1, <1>2, <1>3, <2>1, CallbackRefuses
<1>4. ASSUME NEW s \in Sessions, store[s].state = "unused",
             store' = [store EXCEPT ![s] = Row("live", ends, k, call[t].roles)],
             \/ Respond(t, Reply(t, 500))
             \/ Respond(t, [ApplySession(Reply(t, 302), s, ends) EXCEPT
                              !.to = ResolveReturnTo(Base, login[l].returnTo),
                              !.checked = checked])
      PROVE  WInv'
  <2>1. /\ Onward /\ LoginInv' /\ StoreInv' /\ Used(s)' /\ store'[s].code = k
        /\ \A x \in Sessions : Used(x)' => x = s \/ (Used(x) /\ store'[x].code = store[x].code)
    <3>1. \A x \in Sessions : Used(x) => store[x].code # k
      BY <1>2 DEF CallInv
    <3>2. PICK j \in Codes, roles \in RoleSets, e \in Nat :
            j = k /\ roles = call[t].roles /\ e = ends
      BY <1>2
    <3> QED BY <1>1, <1>2, <1>4, <3>1, <3>2, CreateKeeps, ZenonT(40)
  <2>2. CallInv'
    <3>1. /\ call' \in [Tabs -> CallRow] /\ call'[t].step = "start"
          /\ \A u \in Tabs : u # t => call'[u] = call[u] /\ resp'[u] = resp[u]
      BY <1>1, <1>4, ReturnsFrame DEF Respond, TabInv
    <3>2. ASSUME NEW u \in Tabs PROVE CallOK(u)'
      <4>1. CASE u = t
        BY <3>1, <4>1 DEF CallOK, Holds
      <4>2. CASE u # t
        BY <1>1, <2>1, <3>1, <4>2, CallStays DEF CallInv
      <4> QED BY <4>1, <4>2
    <3>3. \A u \in Tabs : Holds(u)' => u # t /\ Holds(u) /\ req[u].code # k
      BY <1>2, <3>1 DEF Holds, CallInv
    <3>4. \A u \in Tabs, x \in Sessions : Holds(u)' /\ Used(x)' => store'[x].code # req'[u].code
      BY <1>1, <2>1, <3>3 DEF CallInv
    <3>5. \A u, v \in Tabs : u # v /\ Holds(u)' /\ Holds(v)' => req'[u].code # req'[v].code
      BY <1>1, <3>3 DEF CallInv
    <3> QED BY <3>1, <3>2, <3>4, <3>5 DEF CallInv
  <2>3. CASE Respond(t, Reply(t, 500))
    BY <1>1, <1>2, <2>1, <2>2, <2>3, CallbackRefuses
  <2>4. CASE Respond(t, [ApplySession(Reply(t, 302), s, ends) EXCEPT
                           !.to = ResolveReturnTo(Base, login[l].returnTo),
                           !.checked = checked])
    <3> DEFINE to == ResolveReturnTo(Base, login[l].returnTo)
    <3> DEFINE age == (IF ends > clock THEN ends - clock ELSE 0) \div Second
    <3> DEFINE b == ApplySession(Reply(t, 302), s, ends)
    <3> DEFINE r == [b EXCEPT !.to = to, !.checked = checked]
    <3>1. /\ IsReply(b) /\ b.status = 302 /\ b.set = "both" /\ b.session = s
          /\ b.csrf = "token" /\ b.at = clock /\ b.ends = ends /\ b.maxAge = age
      BY SessionReply
    <3>2. Respond(t, r)
      BY <2>4
    <3> HIDE DEF b, to, age, ends, checked
    <3> DEFINE b2 == [b EXCEPT !.to = to]
    <3>3. /\ IsReply(b2) /\ b2.status = 302 /\ b2.set = "both" /\ b2.session = s /\ b2.to = to
          /\ b2.csrf = "token" /\ b2.at = clock /\ b2.ends = ends /\ b2.maxAge = age
      BY <3>1 DEF IsReply
    <3>4. r = [b2 EXCEPT !.checked = checked]
      OBVIOUS
    <3> HIDE DEF b2, r
    <3>5. /\ IsReply(r) /\ r.status = 302 /\ r.set = "both" /\ r.session = s
          /\ r.csrf = "token" /\ r.at = clock /\ r.ends = ends /\ r.maxAge = age /\ r.to = to
          /\ r.checked = checked
      BY <3>3, <3>4 DEF IsReply
    <3>6. /\ resp' = [resp EXCEPT ![t] = resp'[t]]
          /\ resp'[t].status = 302 /\ resp'[t].set = "both" /\ resp'[t].session = s
          /\ resp'[t].csrf = "token" /\ resp'[t].at = clock /\ resp'[t].ends = ends
          /\ resp'[t].maxAge = age /\ resp'[t].to = to /\ resp'[t].checked = checked
          /\ resp'[t].cors => \E policy \in Policies \ {None} : req[t].origin \in policy
      BY <3>2, <3>5, RespondFields
    <3>7. CookieOK(resp[t])'
      BY <1>1, <1>2, <2>1, <3>6, WebAuthAssumption DEF CookieOK, LoginInv, age
    <3>8. ReturnOK(resp[t], req[t])'
      BY <1>1, <1>2, <2>1, <3>6 DEF ReturnOK, Timely, SpentFor, Onward, to
    <3>9. RespOK(t)'
      BY <1>1, <1>2, <3>6, <3>7, <3>8 DEF RespOK, Statuses
    <3>10. JarInv' /\ TabInv'
      BY <1>1, <2>1, <3>6, <3>9, JarStays, TabAnswered
    <3> QED BY <2>1, <2>2, <3>10
  <2> QED BY <1>4, <2>3, <2>4
<1> QED BY <1>3, <1>4 DEF Create

\* Refresh.
LEMMA RefreshKeeps ==
  ASSUME WInv, NEW t \in Tabs, Refresh(t)
  PROVE  WInv'
<1> USE DEF WInv
<1> DEFINE s == req[t].session
<1>1. /\ UNCHANGED <<clock, login, code, jar, req, call, dead>> /\ req[t] # None
      /\ req[t].op = "refresh" /\ call[t].step = "start"
  BY DEF Refresh, Passes, Arrived
<1>2. ASSUME Onward, NoneCreated, LoginInv', StoreInv', RespOK(t)',
             resp' = [resp EXCEPT ![t] = resp'[t]]
      PROVE  WInv'
  BY <1>1, <1>2, Answered
<1>3. ASSUME \/ Respond(t, Reply(t, 401))
             \/ Respond(t, [Reply(t, 401) EXCEPT !.set = "clear"])
      PROVE  RespOK(t)' /\ resp' = [resp EXCEPT ![t] = resp'[t]]
  <2>1. 401 \in Statuses
    BY DEF Statuses
  <2> QED BY <1>1, <1>3, <2>1, PlainReply
<1>4. ASSUME Respond(t, Reply(t, 401)), UNCHANGED store
      PROVE  WInv'
  BY <1>1, <1>2, <1>3, <1>4, OnwardFrame
<1>5. ASSUME ResolveFails(s), Respond(t, [Reply(t, 401) EXCEPT !.set = "clear"])
      PROVE  WInv'
  BY <1>1, <1>2, <1>3, <1>5, ResolveFailsKeeps
<1>6. ASSUME NEW ends \in 0..MaxTime + Lifetime, Resolves(s, ends),
             Respond(t, ApplySession(Reply(t, 204), s, ends))
      PROVE  WInv'
  <2>1. PICK x : x = s
    OBVIOUS
  <2>2. ends \in Nat
    BY WebAuthAssumption
  <2>3. Onward /\ NoneCreated /\ LoginInv' /\ StoreInv' /\ Used(x)' /\ ends <= clock + Lifetime
    BY <1>1, <1>6, <2>1, <2>2, ResolvesKeeps
  <2> DEFINE r == ApplySession(Reply(t, 204), x, ends)
  <2> DEFINE age == (IF ends > clock THEN ends - clock ELSE 0) \div Second
  <2>4. /\ IsReply(r) /\ r.status = 204 /\ r.set = "both" /\ r.session = x
        /\ r.csrf = "token" /\ r.at = clock /\ r.ends = ends /\ r.maxAge = age /\ r.to = None
    BY SessionReply
  <2>5. Respond(t, r)
    BY <1>6, <2>1
  <2> HIDE DEF r, age
  <2>6. /\ resp' = [resp EXCEPT ![t] = resp'[t]]
        /\ resp'[t].status = 204 /\ resp'[t].set = "both" /\ resp'[t].session = x
        /\ resp'[t].csrf = "token" /\ resp'[t].at = clock /\ resp'[t].ends = ends
        /\ resp'[t].maxAge = age /\ resp'[t].to = None
        /\ resp'[t].cors => \E policy \in Policies \ {None} : req[t].origin \in policy
    BY <2>4, <2>5, RespondFields
  <2>7. CookieOK(resp[t])'
    BY <1>1, <2>2, <2>3, <2>6, WebAuthAssumption DEF CookieOK, LoginInv, age
  <2>8. RespOK(t)'
    BY <1>1, <2>6, <2>7 DEF RespOK, Statuses
  <2> QED BY <1>2, <2>3, <2>6, <2>8
<1> QED BY <1>4, <1>5, <1>6 DEF Refresh

\* Logout.
LEMMA LogoutKeeps ==
  ASSUME WInv, NEW t \in Tabs, Logout(t)
  PROVE  WInv'
<1> USE DEF WInv
<1> DEFINE s == req[t].session
<1>1. /\ UNCHANGED <<clock, login, code, jar, req, call>> /\ req[t] # None /\ req[t].op = "logout"
      /\ call[t].step = "start"
      /\ Respond(t, [Reply(t, 200) EXCEPT !.set = "clear"])
      /\ \/ /\ s \in Sessions /\ store' = [store EXCEPT ![s].state = "deleted"]
            /\ dead' = dead \union {s}
         \/ UNCHANGED <<store, dead>>
  BY DEF Logout, Passes, Arrived
<1>2. Onward /\ NoneCreated /\ LoginInv' /\ StoreInv'
  <2>1. CASE UNCHANGED <<store, dead>>
    BY <1>1, <2>1, OnwardFrame
  <2>2. CASE /\ s \in Sessions /\ store' = [store EXCEPT ![s].state = "deleted"]
             /\ dead' = dead \union {s}
    <3>1. Used(s)
      BY <1>1, <2>2, NoneAssumption DEF TabInv, ReqOK
    <3> QED BY <1>1, <2>2, <3>1, DeleteKeeps
  <2> QED BY <1>1, <2>1, <2>2
<1>3. RespOK(t)' /\ resp' = [resp EXCEPT ![t] = resp'[t]]
  <2>1. 200 \in Statuses
    BY DEF Statuses
  <2> QED BY <1>1, <2>1, PlainReply
<1> QED BY <1>1, <1>2, <1>3, Answered

\* What RequireAnyRole decides for a session's roles.
LEMMA AccessDecided ==
  ASSUME NEW route \in Routes, NEW roles
  PROVE  LET access == RequireAnyRole(roles, route)
             all == Pairs(roles, route.extras, Len(route.extras))
         IN  /\ access = [status |-> access.status, values |-> access.values]
             /\ access.status \in {200, 403, 500}
             /\ access.status # 403 =>
                  /\ roles \intersect route.roles # {}
                  /\ access.status = IF Agree(all) THEN 200 ELSE 500
                  /\ Agree(all) => access.values = all
<1> DEFINE all == Pairs(roles, route.extras, Len(route.extras))
<1> DEFINE staged == ApplyRoleContexts(roles, route.extras)
<1>1. staged = (IF Agree(all) THEN all ELSE None) /\ all # None
  BY RoleContexts
<1> HIDE DEF all, staged
<1> DEFINE held == \E r \in route.roles : HasRole(roles, r)
<1>2. RequireAnyRole(roles, route) =
        IF ~held THEN [status |-> 403, values |-> {}]
        ELSE IF staged = None THEN [status |-> 500, values |-> {}]
        ELSE [status |-> 200, values |-> staged]
  BY DEF RequireAnyRole, staged
<1>3. held => roles \intersect route.roles # {}
  BY DEF HasRole
<1> HIDE DEF held
<1> DEFINE access == RequireAnyRole(roles, route)
<1>4. CASE ~held
  <2>1. access = [status |-> 403, values |-> {}]
    BY <1>2, <1>4
  <2> HIDE DEF access
  <2> QED BY <2>1 DEF access, all
<1>5. CASE held /\ ~Agree(all)
  <2>1. access = [status |-> 500, values |-> {}]
    BY <1>1, <1>2, <1>5
  <2> HIDE DEF access
  <2> QED BY <1>3, <1>5, <2>1 DEF access, all
<1>6. CASE held /\ Agree(all)
  <2>1. access = [status |-> 200, values |-> all]
    BY <1>1, <1>2, <1>6
  <2> HIDE DEF access
  <2> QED BY <1>3, <1>6, <2>1 DEF access, all
<1> QED BY <1>4, <1>5, <1>6

\* Authorization and a handler of the API.
LEMMA APIKeeps ==
  ASSUME WInv, NEW t \in Tabs, API(t)
  PROVE  WInv'
<1> USE DEF WInv
<1> DEFINE found == ExtractToken(req[t].session, req[t].bearer)
<1>1. /\ UNCHANGED <<clock, login, code, jar, req, call, dead>> /\ req[t] # None
      /\ req[t].op = "api" /\ call[t].step = "start"
  BY DEF API, Passes, Arrived
<1>2. ReqOK(t) /\ req[t].route \in Routes
  BY <1>1 DEF TabInv, ReqOK
<1>3. ASSUME Onward, NoneCreated, LoginInv', StoreInv', RespOK(t)',
             resp' = [resp EXCEPT ![t] = resp'[t]]
      PROVE  WInv'
  BY <1>1, <1>3, Answered
<1>4. ASSUME NEW status \in {401, 403}, Respond(t, Reply(t, status))
      PROVE  RespOK(t)' /\ resp' = [resp EXCEPT ![t] = resp'[t]]
  <2>1. status \in Statuses /\ status \notin {200, 500}
    BY DEF Statuses
  <2>2. PICK r : Respond(t, r) /\ r = Reply(t, status)
    BY <1>4
  <2> QED BY <1>1, <2>1, <2>2, PlainReply
<1>5. /\ found.status \in {0, 401, 403}
      /\ found.status = 0 /\ req[t].session # None => found.token = req[t].session
  BY DEF ExtractToken
<1>6. ASSUME found.status # 0, Respond(t, Reply(t, found.status)), UNCHANGED store
      PROVE  WInv'
  <2>1. found.status \in {401, 403}
    BY <1>5, <1>6
  <2> HIDE DEF found
  <2> QED BY <1>1, <1>3, <1>4, <1>6, <2>1, OnwardFrame
<1>7. ASSUME ResolveFails(found.token), Respond(t, Reply(t, 401))
      PROVE  WInv'
  <2> HIDE DEF found
  <2> QED BY <1>1, <1>3, <1>4, <1>7, ResolveFailsKeeps
<1>8. ASSUME found.status = 0, NEW ends \in 0..MaxTime + Lifetime, Resolves(found.token, ends),
             LET access == RequireAnyRole(store[found.token].roles, req[t].route) IN
             Respond(t, [Reply(t, access.status) EXCEPT !.values = access.values])
      PROVE  WInv'
  <2>1. PICK s : s = found.token
    OBVIOUS
  <2>2. ends \in Nat
    BY WebAuthAssumption
  <2>3. req[t].session # None => req[t].session = s
    BY <1>5, <1>8, <2>1
  <2>4. Resolves(s, ends)
    BY <1>8, <2>1
  <2> DEFINE roles == store[s].roles
  <2> DEFINE access == RequireAnyRole(roles, req[t].route)
  <2>5. Respond(t, [Reply(t, access.status) EXCEPT !.values = access.values])
    BY <1>8, <2>1
  <2> HIDE DEF found
  <2>6. /\ Onward /\ NoneCreated /\ LoginInv' /\ StoreInv' /\ Used(s) /\ store[s].state = "live"
        /\ store'[s].roles = store[s].roles
    BY <1>1, <2>2, <2>4, ResolvesKeeps
  <2>7. roles \in RoleSets
    BY <2>6 DEF StoreInv, Used
  <2> DEFINE all == Pairs(roles, req[t].route.extras, Len(req[t].route.extras))
  <2>8. /\ access = [status |-> access.status, values |-> access.values]
        /\ access.status \in {200, 403, 500}
        /\ access.status # 403 =>
             /\ roles \intersect req[t].route.roles # {}
             /\ access.status = IF Agree(all) THEN 200 ELSE 500
             /\ Agree(all) => access.values = all
    BY <1>2, AccessDecided
  <2> HIDE DEF access, all
  <2> DEFINE b == Reply(t, access.status)
  <2> DEFINE r == [b EXCEPT !.values = access.values]
  <2>9. /\ IsReply(b) /\ b.status = access.status /\ b.set = "none" /\ b.session = None
        /\ b.to = None
    BY DEF Reply, IsReply
  <2>10. Respond(t, r)
    BY <2>5
  <2> HIDE DEF b
  <2>11. /\ IsReply(r) /\ r.status = access.status /\ r.set = "none" /\ r.session = None
         /\ r.to = None /\ r.values = access.values
    BY <2>9 DEF IsReply
  <2> HIDE DEF r
  <2>12. /\ resp' = [resp EXCEPT ![t] = resp'[t]]
         /\ resp'[t].status = access.status /\ resp'[t].set = "none"
         /\ resp'[t].session = None /\ resp'[t].to = None /\ resp'[t].values = access.values
         /\ resp'[t].cors => \E policy \in Policies \ {None} : req[t].origin \in policy
    BY <2>10, <2>11, RespondFields
  <2>13. ~req[t].late
    <3>1. s \notin dead
      BY <2>6 DEF StoreInv
    <3>2. req[t].late => req[t].session \in Sessions /\ req[t].session \in dead
      BY <1>2 DEF ReqOK, StoreInv
    <3> QED BY <2>3, <3>1, <3>2, NoneAssumption
  <2>14. access.status # 403 => RoleOK(resp[t], req[t])'
    <3>1. req[t].session # None => store'[req[t].session].roles = roles
      BY <2>3, <2>6
    <3> HIDE DEF roles
    <3> QED BY <1>1, <2>7, <2>8, <2>12, <3>1 DEF RoleOK, all
  <2>15. RespOK(t)'
    BY <1>1, <2>8, <2>12, <2>13, <2>14 DEF RespOK, Statuses
  <2> QED BY <1>3, <2>6, <2>12, <2>15
<1> QED BY <1>6, <1>7, <1>8 DEF API

-----------------------------------------------------------------------------
(* The theorems. *)

\* Login and the issuer's redirect.
LEMMA LoginStepKeeps ==
  ASSUME WInv, NEW l \in Logins,
         (\E raw \in Raws : Login(l, raw)) \/ \E k \in Codes : IssueCode(l, k)
  PROVE  WInv'
<1> USE DEF WInv
<1>1. UNCHANGED <<clock, store, jar, req, resp, call, dead>>
  BY DEF IssueCode, Login
<1>2. clock \in Nat /\ Second \in Nat \ {0} /\ LoginStateTTL \in Nat
  BY WebAuthAssumption DEF LoginInv
<1>3. ASSUME Onward, NoneCreated, LoginInv', StoreInv'
      PROVE  WInv'
  BY <1>1, <1>3, JarStays, TabsStay, CallsStay DEF CallInv
<1>4. ASSUME NEW k \in Codes, IssueCode(l, k)
      PROVE  WInv'
  <2> DEFINE c == [code[k] EXCEPT !.login = l]
  <2>1. UNCHANGED login /\ code[k].login = None /\ code' = [code EXCEPT ![k] = c]
    BY <1>4 DEF IssueCode
  <2>2. c \in CodeRow /\ c.spent = code[k].spent
    BY DEF LoginInv, CodeRow
  <2> HIDE DEF c
  <2>3. Onward /\ NoneCreated /\ LoginInv' /\ StoreInv'
    BY <1>1, <2>1, <2>2, CodeKeeps
  <2> QED BY <1>3, <2>3
<1>5. ASSUME NEW raw \in Raws, Login(l, raw)
      PROVE  WInv'
  <2> DEFINE end == clock + LoginStateTTL * Second
  <2> DEFINE state == [exp |-> Unix(end), at |-> clock, asked |-> raw,
                       returnTo |-> SanitizeReturnTo(raw)]
  <2>1. login[l] = None /\ login' = [login EXCEPT ![l] = state] /\ UNCHANGED code
    BY <1>5 DEF Login
  <2>2. end \in Nat
    BY <1>2
  <2>3. Unix(end) \in Nat
    BY <2>2, WholeSeconds DEF Unix
  <2>4. SanitizeReturnTo(raw) \in {"path", "badPath", "root"}
    BY DEF SanitizeReturnTo
  <2>5. state \in LoginState
    BY <1>2, <2>3, <2>4 DEF LoginState
  <2>6. /\ state.exp = Unix(state.at + LoginStateTTL * Second)
        /\ state.returnTo = SanitizeReturnTo(state.asked)
    OBVIOUS
  <2> HIDE DEF state
  <2>7. Onward /\ NoneCreated /\ LoginInv' /\ StoreInv'
    BY <1>1, <2>1, <2>5, <2>6, LoginKeeps
  <2> QED BY <1>3, <2>7
<1> QED BY <1>4, <1>5

\* Time passes.
LEMMA TickKeeps ==
  ASSUME WInv, Tick
  PROVE  WInv'
<1> USE DEF WInv
<1>1. /\ clock \in 0..MaxTime /\ clock < MaxTime /\ clock' = clock + 1
      /\ UNCHANGED <<login, code, store, jar, req, resp, call, dead>>
  BY DEF Tick, LoginInv
<1>2. MaxTime \in Nat /\ Lifetime \in Nat
  BY WebAuthAssumption
<1>3. clock' \in 0..MaxTime /\ clock \in Nat /\ clock' \in Nat /\ clock <= clock'
  BY <1>1, <1>2
<1>4. Onward /\ NoneCreated
  BY <1>1, <1>3 DEF Onward, NoneCreated, SpentFor, Used
<1>5. LoginInv'
  BY <1>1, <1>3 DEF LoginInv
<1>6. \A s \in Sessions : store'[s].ends <= clock' + Lifetime
  BY <1>1, <1>2, <1>3 DEF StoreInv, SessionRow
<1>7. StoreInv'
  BY <1>1, <1>6 DEF StoreInv, Used
<1> QED BY <1>1, <1>4, <1>5, <1>7, JarStays, TabsStay, CallsStay DEF CallInv

\* The requests of the browser.
LEMMA SendingKeeps ==
  ASSUME WInv, NEW t \in Tabs,
         SendAuth(t) \/ SendAPI(t) \/ SendCallback(t)
  PROVE  WInv'
<1>1. CASE SendAuth(t)
  BY <1>1, SendKeeps DEF SendAuth
<1>2. CASE SendAPI(t)
  BY <1>2, SendKeeps, RoutesAssumption DEF SendAPI
<1>3. CASE SendCallback(t)
  BY <1>3, SendKeeps DEF SendCallback
<1> QED BY <1>1, <1>2, <1>3

\* The inductive invariant of the logins.
THEOREM WebAuthInvariant == Spec => []WInv
<1>1. WInv /\ [Next]_vars => WInv'
  <2> SUFFICES ASSUME WInv, [Next]_vars PROVE WInv'
    OBVIOUS
  <2>1. CASE Next
    BY <2>1, LoginStepKeeps, SendingKeeps, DeliverKeeps, StoppedKeeps, CheckStateKeeps,
       ExchangeKeeps, VerifyClaimsKeeps, CreateStepKeeps, RefreshKeeps, LogoutKeeps, APIKeeps,
       TickKeeps DEF Next, Callback
  <2>2. CASE UNCHANGED vars
    <3>1. /\ UNCHANGED <<clock, login, code, store, dead>> /\ jar' = jar
          /\ UNCHANGED <<req, resp>> /\ call' = call
      BY <2>2 DEF vars
    <3> QED BY <3>1, OnwardFrame, JarStays, TabsStay, CallsStay DEF WInv, CallInv
  <2> QED BY <2>1, <2>2
<1> QED BY <1>1, InitKeeps, PTL DEF Spec

\* However often callbacks are repeated and however late their answers come, a code
\* yields at most one session, for a state that was checked within its time to live,
\* and the browser returns to a path of the frontend's own origin
\* (oidcauth.go:159-233, 381-449).
THEOREM LoginsAreComplete == Spec => []LoginsComplete
<1>1. WInv => LoginsComplete
  <2> SUFFICES ASSUME WInv PROVE LoginsComplete
    OBVIOUS
  <2> USE DEF WInv
  <2>1. TypeOK
    <3>1. clock \in 0..MaxTime
      BY DEF LoginInv
    <3>2. /\ login \in [Logins -> LoginState \union {None}]
          /\ code \in [Codes -> [login : Logins \union {None}, spent : BOOLEAN]]
      BY DEF LoginInv, CodeRow
    <3>3. \A s \in Sessions :
            /\ store[s].state \in {"unused", "live", "deleted"}
            /\ store[s].state # "unused" => store[s].code \in Codes /\ store[s].roles \in RoleSets
      BY DEF StoreInv, SessionRow, Used
    <3>4. jar.session.value \in Sessions \union {None} /\ jar.csrf.value \in {"token", None}
      BY DEF JarInv, Cookies
    <3>5. \A t \in Tabs : resp[t] # None => req[t] # None /\ resp[t].status \in Statuses
      BY DEF TabInv, RespOK
    <3>6. dead \subseteq Sessions
      BY DEF StoreInv
    <3>7. \A t \in Tabs : call[t].step \in {"start", "exchange", "verify", "create"}
      BY DEF CallInv, CallRow
    <3> QED BY <3>1, <3>2, <3>3, <3>4, <3>5, <3>6, <3>7 DEF TypeOK, Statuses
  <2>2. ASSUME NEW t \in Tabs, resp[t] # None, resp[t].to # None
        PROVE  ReturnOK(resp[t], req[t])
    BY <2>2 DEF TabInv, RespOK
  <2>3. OneTimelySession
    <3>1. \A s, other \in Sessions :
            s # other /\ store[s].state # "unused" /\ store[other].state # "unused" =>
              store[s].code # store[other].code
      BY DEF StoreInv, Used
    <3>2. \A t \in Tabs : resp[t] # None /\ resp[t].to # None =>
            /\ store[resp[t].session].code = req[t].code
            /\ code[req[t].code] = [login |-> req[t].login, spent |-> TRUE]
            /\ resp[t].checked < login[req[t].login].at + (LoginStateTTL + 1) * Second
      BY <2>2 DEF ReturnOK, Timely, SpentFor
    <3> QED BY <3>1, <3>2 DEF OneTimelySession
  <2>4. ReturnsToOwnPath
    <3> SUFFICES ASSUME NEW t \in Tabs, resp[t] # None, resp[t].to # None
                 PROVE  /\ resp[t].to.origin = "configured"
                        /\ Base => resp[t].to.path =
                             CASE login[req[t].login].asked = "path" -> "path"
                               [] login[req[t].login].asked = "badPath" -> "configured"
                               [] OTHER -> "root"
      BY DEF ReturnsToOwnPath
    <3> DEFINE state == login[req[t].login]
    <3>1. /\ resp[t].to = ResolveReturnTo(Base, state.returnTo)
          /\ state.returnTo = SanitizeReturnTo(state.asked)
      BY <2>2 DEF ReturnOK, Timely, LoginInv
    <3> HIDE DEF state
    <3>2. /\ resp[t].to.origin = "configured"
          /\ Base => resp[t].to.path = CASE state.asked = "path" -> "path"
                                         [] state.asked = "badPath" -> "configured"
                                         [] OTHER -> "root"
      BY <3>1 DEF ResolveReturnTo, SanitizeReturnTo
    <3> QED BY <3>2 DEF state
  <2> QED BY <2>1, <2>3, <2>4 DEF LoginsComplete
<1> QED BY <1>1, WebAuthInvariant, PTL

\* A request sent after a logout of its session was handled is never served, also
\* when a late response has put the cookie back (oidcauth.go:266-294, 318-330).
THEOREM LogoutIsEffective == Spec => []LogoutEndsAccess
<1>1. WInv => LogoutEndsAccess
  BY DEF WInv, TabInv, RespOK, LogoutEndsAccess
<1> QED BY <1>1, WebAuthInvariant, PTL

\* The session cookie and the CSRF cookie are held together or not at all, in
\* whatever order responses arrive (csrf.go:74-91, oidcauth.go:318-330).
THEOREM CookiesComeTogether == Spec => []CookiesTogether
<1>1. WInv => CookiesTogether
  BY DEF WInv, JarInv, CookiesTogether, Value
<1> QED BY <1>1, WebAuthInvariant, PTL

\* The answer to the API request of tab t is the one that these roles call for.
Decided(t, roles) ==
  LET held == {i \in DOMAIN req[t].route.extras : req[t].route.extras[i].role \in roles}
      all == UNION {req[t].route.extras[i].values : i \in held}
      agree == \A a, b \in all : a[1] = b[1] => a = b
  IN /\ roles \intersect req[t].route.roles # {}
     /\ req[t].session # None => store[req[t].session].roles = roles
     /\ resp[t].status = IF agree THEN 200 ELSE 500
     /\ agree => resp[t].values = all

\* What a request gets is what its session's roles and its origin allow, for any
\* routes and policies and however many entries a route has (authorization.go:75-203,
\* cors.go:76-120).
THEOREM RequestsAreDecided == Spec => []RequestsDecided
<1>1. WInv => RequestsDecided
  <2> SUFFICES ASSUME WInv PROVE RequestsDecided
    OBVIOUS
  <2>1. ListedOriginsOnly
    BY DEF WInv, TabInv, RespOK, ListedOriginsOnly
  <2>2. ASSUME NEW t \in Tabs, resp[t] # None, req[t].op = "api", resp[t].status \in {200, 500}
        PROVE  \E roles \in RoleSets : Decided(t, roles)
    <3>1. RoleOK(resp[t], req[t]) /\ req[t].route \in Routes
      BY <2>2 DEF WInv, TabInv, RespOK, ReqOK
    <3> DEFINE extras == req[t].route.extras
    <3>2. DOMAIN extras = 1..Len(extras)
      BY <3>1, RoutesAssumption
    <3>3. PICK roles \in RoleSets :
            LET all == Pairs(roles, extras, Len(extras))
            IN /\ roles \intersect req[t].route.roles # {}
               /\ req[t].session # None => store[req[t].session].roles = roles
               /\ resp[t].status = IF Agree(all) THEN 200 ELSE 500
               /\ Agree(all) => resp[t].values = all
      BY <3>1 DEF RoleOK
    <3> DEFINE held == {i \in DOMAIN extras : extras[i].role \in roles}
    <3> DEFINE all == UNION {extras[i].values : i \in held}
    <3>4. Pairs(roles, extras, Len(extras)) = all
      BY <3>2 DEF Pairs
    <3> HIDE DEF all
    <3>5. /\ roles \intersect req[t].route.roles # {}
          /\ req[t].session # None => store[req[t].session].roles = roles
          /\ resp[t].status = IF \A a, b \in all : a[1] = b[1] => a = b THEN 200 ELSE 500
          /\ (\A a, b \in all : a[1] = b[1] => a = b) => resp[t].values = all
      BY <3>3, <3>4 DEF Agree
    <3>6. Decided(t, roles)
      BY <3>5 DEF Decided, all
    <3> QED BY <3>6
  <2>3. RolesDecide
    BY <2>2 DEF RolesDecide, Decided
  <2> QED BY <2>1, <2>3 DEF RequestsDecided
<1> QED BY <1>1, WebAuthInvariant, PTL

\* The session cookie "expires with the session" (oidcauth.go:318): no response
\* leaves one that outlives it by more than the time the response travelled, except
\* one written in the session's last second.
THEOREM CookiesExpire == Spec => CookieExpiresWithSession
<1> DEFINE P == \A t \in Tabs : resp[t] # None /\ resp'[t] = None /\ resp[t].session # None =>
                  IF jar'.session.until = Never THEN resp[t].ends < resp[t].at + Second
                  ELSE jar'.session.until - clock <= resp[t].ends - resp[t].at
<1>1. ASSUME WInv, Next, NEW t \in Tabs, resp[t] # None, resp'[t] = None, resp[t].session # None
      PROVE  IF jar'.session.until = Never THEN resp[t].ends < resp[t].at + Second
             ELSE jar'.session.until - clock <= resp[t].ends - resp[t].at
  <2>1. Deliver(t)
    <3>1. ASSUME NEW u \in Tabs, NEW r, Respond(u, r), resp[u] = None
          PROVE  FALSE
      BY <1>1, <3>1 DEF Respond, WInv, TabInv
    <3>2. ASSUME NEW u \in Tabs, Deliver(u)
          PROVE  u = t
      BY <1>1, <3>2 DEF Deliver, WInv, TabInv
    <3>3. ASSUME UNCHANGED resp
          PROVE  FALSE
      BY <1>1, <3>3
    <3>4. ASSUME NEW u \in Tabs, Stopped(u) \/ Callback(u) \/ Refresh(u) \/ Logout(u) \/ API(u)
          PROVE  FALSE
      <4>1. ASSUME Stopped(u) \/ Refresh(u) \/ Logout(u) \/ API(u)
            PROVE  FALSE
        BY ZenonT(40), <3>1, <4>1 DEF Stopped, Refresh, Logout, API, Passes, Arrived
      <4>2. ASSUME Callback(u)
            PROVE  FALSE
        BY ZenonT(40), <3>1, <3>3, <4>2 DEF Callback, CheckState, Exchange, VerifyClaims, Create,
           Passes, Arrived, Waits
      <4> QED BY <3>4, <4>1, <4>2
    <3>5. ASSUME NEW u \in Tabs, SendAuth(u) \/ SendAPI(u) \/ SendCallback(u)
          PROVE  FALSE
      BY <3>3, <3>5 DEF SendAuth, SendAPI, SendCallback, Send
    <3>6. ASSUME \/ Tick
                 \/ \E l \in Logins : \/ \E raw \in Raws : Login(l, raw)
                                      \/ \E k \in Codes : IssueCode(l, k)
          PROVE  FALSE
      BY <3>3, <3>6 DEF Tick, IssueCode, Login
    <3> QED BY <1>1, <3>2, <3>4, <3>5, <3>6 DEF Next
  <2>2. RespOK(t)
    BY <1>1 DEF WInv, TabInv
  <2>3. CookieOK(resp[t]) /\ resp[t].set = "both"
    BY <1>1, <2>2 DEF RespOK
  <2>4. jar'.session = CookieOf(resp[t].session, resp[t].maxAge)
    BY <2>1, <2>3 DEF Deliver
  <2>5. PICK r, value : r = resp[t] /\ value = resp[t].session
    OBVIOUS
  <2>6. LoginInv /\ CookieOK(r) /\ jar'.session = CookieOf(value, r.maxAge)
    BY <1>1, <2>3, <2>4, <2>5 DEF WInv
  <2> DEFINE c == CookieOf(value, r.maxAge)
  <2>7. IF c.until = Never THEN r.ends < r.at + Second ELSE c.until - clock <= r.ends - r.at
    BY <2>6, CookieKept
  <2> HIDE DEF c
  <2> QED BY <2>5, <2>6, <2>7 DEF c
<1>2. WInv /\ [Next]_vars => [P]_vars
  BY <1>1
<1> QED BY <1>2, WebAuthInvariant, PTL DEF Spec, CookieExpiresWithSession
=============================================================================
