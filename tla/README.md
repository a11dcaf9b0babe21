# Verification of gobox

gobox is a library of Go packages for backend services: OIDC sessions and token
verification, HTTP middlewares, configuration with hot reload, retries, database
and messaging helpers. This directory holds TLA+ models of the packages that keep
state across concurrent calls, the TLC configurations that check them on small
instances, and TLAPS proofs of the results that matter most for instances of any
size.

Paths below are relative to the repository. `PROJECT.json` maps every definition
to its source lines.

## 1. The system

| Component | State | Operations | What makes it correct |
|---|---|---|---|
| `oidcauth` SessionManager | rows of a `SessionStore`, a lock per row | `Create`, `Resolve` (load, verify, refresh under the row lock, touch), `Delete`, `CleanupExpired` | a logged-out, expired or revoked session never resolves again; one refresh token is presented once; every call returns |
| `oidcauth` Introspector | cache by token digest, singleflight groups, eviction goroutine | `Introspect`, `ClearCache`, `Close`, eviction | a cached answer is bounded in age, never outlives its token; one caller's cancellation does not hurt the others |
| `oidcauth` OIDC | claims cache (`MemoryCache`) in front of the introspector | `Verify`, eviction | staleness of the two caches together is bounded |
| `oidcauth` Flow | none (configuration) | `AuthCodeURL`, `Exchange`, `Refresh`, `EndSessionURL` | - |
| `httpserver/middlewares` rate limit | bucket per client, policy in force, time of the last sweep | `retune`, `allow`, `evictIfDue` | sweeping never gives a client more than its budget |
| `httpserver/middlewares` login handlers, authorization, CORS, CSRF | the browser's cookies, the signed login state; otherwise per request | `Login`, `Callback`, `Refresh`, `Logout`, `Me`; role, origin and double-submit checks | a callback completes one timely login; no access after a logout; decisions follow the configured policy |
| `config` Loader | current configuration, subscribers' channels, debounce timer, stopped flag | `Load`, `LoadWithValidation`, `Reload`, watch, `Subscribe`, `Unsubscribe`, `Stop` | no panic on a closed channel, no rejected configuration in use, no change lost |
| `cli` Progress | slot lines, channel of free slots, stop/done channels, a `Once` | `Acquire`, `Update`, `Done`, `Release`, `Start`, `Stop` | no two workers share a line, `Stop` returns |
| `retry`, `httpclient` | loop of one call | `Do`, `WithRetry`, `ParseRetryAfter` | only transient failures are retried, not before the server and the backoff allow it nor after a cancellation; the last attempt is reported |
| `oauth2` TokenManager | token per scope, used under the caller's lock | `GetAccessToken`, `SetAuthorizationHeader`, `authenticate` | a token handed out is valid up to the latency of its answer |
| `fcm` | none | `Send`, classification of answers, truncation | a registration is given up only if FCM says it is gone |
| `database/gorm`, `database/migrate` | schema version, dirty flag and lock in the database; connection | connect with retry, `Migrate`, `Populate` | migrations run once and in order whoever crashes; nobody serves on a half-migrated schema |
| `healthcheck` | registered connections, timeout; results of one report | `AddDB`, `RemoveDB`, `SetPingTimeout`, `CheckDB`, `Report` | a report describes one moment's registry and returns in time |
| `httpserver` | server and its shutdown | `NewGin`, `Listen`, `Shutdown` | a graceful stop ends |
| `httpserver/respond` | registry of error entries, fallback | `AddEntries`, `SetFallback`, `Lookup`, `Resolve` | the first matching entry answers; an answer can always be rendered |
| `pagination` | none; the table it lists | page arithmetic, filters, `Scope` | pages partition the rows asked for |
| `spreadsheet` | a writer goroutine and its channel | `Write` | a file is whole or an error; the goroutine ends |
| `database/sql` | none of its own | wrapper | out of scope |
| `secure`, `logger`, `telemetry`, `temporal` | none of their own | wrappers | out of scope |

How they interact: the auth middleware calls `SessionManager`, which calls the
store, `Flow.Refresh` and an optional verifier; the usual verifier is
`OIDC.Verify`, which calls `Introspector.Introspect` behind its own cache.
`RateLimitByIPProvider` asks a provider (typically backed by the `config`
loader) for its policy on each request. `httpclient.WithRetry` drives
`retry.Do`, and the request it repeats usually takes its token from `oauth2`. A
service starts with `database/gorm` and `database/migrate`, then builds its error
registry, health check and Gin engine; handlers list tables with `pagination` and
export them with `spreadsheet`. The packages leave this wiring to the application:
`Outbound` and `Service` compose them the way their READMEs do.

What is hard: concurrent requests that refresh one session while it is logged
out, cleaned up or revoked; answers of the issuer that are lost after it rotated
the token; crashes between the grant and the commit; shared introspection
requests whose starter cancels; caches stacked on caches; a policy that changes
between two critical sections of one request; overlapping reloads; channels that
one goroutine closes while another sends; retries between a server's wishes, a
backoff and a cancellation; tabs whose answers set cookies out of order; replicas
that crash inside a migration; registries that change under a report or an error
being resolved; goroutines that outlive their caller. `PROJECT.json` lists each of these
hazards at its line with the properties that cover it.

## 2. Modules

| Module | Models | Uses |
|---|---|---|
| `SessionManager` | `oidcauth/session_manager.go`, `session.go`, `cleanup.go`, `flow.go` (Refresh), logout of the auth middleware | - |
| `SessionManagerProofs` | its theorems | `SessionManager` |
| `Introspector` | `oidcauth/introspection.go` | - |
| `OIDC` | `oidcauth/oidc.go` (Verify), `cache.go` | extends `Introspector` and adds Verify around its calls |
| `OIDCProofs` | the theorems of both | `OIDC` |
| `TokenBucket` | the abstract limiter: one permanent bucket per client | - |
| `RateLimiter` | `httpserver/middlewares/rate_limit.go` | refines `TokenBucket` |
| `RateLimiterProofs` | its theorems | `RateLimiter` |
| `ConfigLoader` | `config/viper.go` | - |
| `ConfigLoaderProofs` | its theorems | `ConfigLoader` |
| `HTTPClient` | `retry/retry.go`, `httpclient/client.go` (retries) | - |
| `TokenManager` | `oauth2/token_manager.go` | - |
| `FCM` | `fcm/message.go`, `response.go`, `fcm.go` (Send): operators | - |
| `Outbound` | an application's calls over the three | extends `HTTPClient`, `TokenManager`, `FCM` |
| `OutboundProofs` | its theorems | `Outbound` |
| `Middlewares` | `httpserver/middlewares/authorization.go`, `cors.go`, `csrf.go`, return paths of `oidcauth.go`: decision operators | - |
| `WebAuth` | `httpserver/middlewares/oidcauth.go` and one browser | extends `Middlewares` |
| `WebAuthProofs` | its theorems | `WebAuth` |
| `Migrator` | `database/gorm/gorm.go` (connect), `database/migrate/migrator.go` | - |
| `ErrorResolver` | `httpserver/respond/error_resolver.go`, `respond.go` | - |
| `HealthCheck` | `healthcheck/check.go` | - |
| `Pagination` | `pagination/*.go` | - |
| `Spreadsheet` | `spreadsheet/excelize.go` | - |
| `Service` | `httpserver/gin.go` and the life of a service | extends the five above |
| `ServiceProofs` | its theorems | `Service` |
| `Progress` | `cli/progress.go` | - |
| `ProgressProofs` | its theorems | `Progress` |
| `MC...` | symmetry sets, views, values of constants | the module of that name |

Conventions: time is a counter that a `Tick` advances up to `MaxTime`; 0 is Go's
zero time. A goroutine or call is a member of a constant set with a program
counter; an action is the stretch of code between two points where another
goroutine can interfere (a lock, a channel operation, a call of the store or of
the network). Variables commented *history* are never read by an action's guard.
Operators with a suffix (`Allow_NotSeen`) next to a definition are plausible
faults of it, kept to show that each property can fail; no specification uses
them.

### SessionManager

One `Resolve` call is a member of `Requests`. Its `pc` walks through *load*,
*verify*, *touch*, *lock*, *grant*, *answer*, *persist*, *drop* in the order of the
code; `now` is the time read at its start, which is what the code compares with later.
A renewal reads the clock when the issuer's answer arrives (`Renew`); the row with the
expiries computed then is stored later (`Persist`), so a ceiling may pass in between.
`Create` computes and stores in one step: nobody knows the ID before it returns.
`row` and `lock` are the store: plain reads do not wait, writes wait for the lock,
and a failed unit of work persists nothing (the contract stated in
`session.go`). `current` is the refresh token the issuer will honour, counted in
generations, so presenting a spent one is visible. Every call of the store and of
the issuer may fail; the issuer's answer may be lost after it rotated; a `Crash`
ends all calls of the process and releases their locks, rows stay.

The verifier is modelled as asking the issuer at the moment of the call. When the
verifier is `OIDC.Verify` with caches, `RevocationBites` holds up to the
staleness that `OIDC!StackedStaleness` bounds.

### Introspector and OIDC

A call is looking up, joining a flight, waiting, or done. A flight is one shared
request; `Land` removes it from the group exactly when its result is delivered,
as `singleflight` does, and waiters take the result at their own time, so a slow
waiter stores an old answer. The issuer evaluates the token at some moment of the
request and this moment (history) is what staleness is measured from. `OIDC`
extends the module with the claims cache in front; a Verify whose token is not
cached becomes an introspection call, or is decided locally when introspection is
disabled.

### RateLimiter

Levels are kept lazily as in `x/time/rate`: an entry stores a level and the time
it was computed. Tokens are scaled by `Cost` so that a refill of part of a token
per unit of time is exact. `retune` and `allow` are separate critical sections;
`allow` includes the sweep. `TokenBucket` is what a user expects: a bucket for
every client that exists for ever, refills with time, and never forgets.

### ConfigLoader

`LoadWithValidation` (process `Main`), reloads (the timer's and the caller's),
the watcher, subscribers and `Stop` interleave at the mutex operations. A file's
content is its version; some versions do not parse or do not validate. The send
loop of `notifyChange` holds `subMutex` for reading, so sends to one subscriber
are separate steps. Go's `RWMutex` stops new readers while a writer waits; this
is what `StopClosesChannels` relies on. The application is taken to call `Load`
before `Reload`, as the package's documentation does. Concurrent use of the
viper instance itself is a data race that leaves the value read from the file
in either version that was there; it is covered by reading at one of these
moments.

### Progress

The free-slot channel is a set with `Acquire` as receive. `Stop`'s test of
`stopCh` and its close are two steps. A second close ends the program: the call that
panics never returns, nothing happens any more, and fairness binds only a program that
has not crashed.

### Outbound: HTTPClient, TokenManager, FCM

A call of `WithRetry` is *token*, *request*, *sleep* (what `Retry-After` asks for),
*backoff*, and again; `fcm` deliveries are repeated by the application as
`fcm/README.md` says. Timers hold what is left of them. A `select` on a timer and a
context is woken by one of the two (`chosen`) and its goroutine runs later, so a
cancellation and a timer race as they do in Go. `Backoff` and `ParseRetryAfter`
compute with the width of `time.Duration` (`MaxDuration`). `TokenManager` is
documented as not safe for concurrent use, so `Outbound` puts a mutex around it.
What is left of a token is kept twice, by the manager's reckoning and by the
issuer's: their difference is what `SkewAbsorbsLatency` speaks of.

### WebAuth and Middlewares

Two tabs share the cookie jar. A request carries the cookies of the moment it is
sent, its handler is one step on the server, and its response takes effect on the
jar when it arrives: in between anything may happen. The handler of the callback is cut
where the code waits: it checks the state (`CheckState`), exchanges the code at the
issuer (`Exchange`), verifies the claims (`VerifyClaims`) and has the row saved
(`Create`); what it carries from one to the next is in `call`. The issuer sends a new
code each time a login's URL is opened, since nothing makes a signed state single-use.
A code is good for one exchange, with its login's verifier; an exchange that failed may or may
not have spent it. Session rows are what
`SessionManager` promises of them: live, expired or deleted. A login's state is
signed and dated in whole seconds (`Unix()`), which costs it up to one second. The
clock counts fractions of a second so that this rounding shows.

### Service: Migrator, ErrorResolver, HealthCheck, Pagination, Spreadsheet

Replicas start against one database. golang-migrate's lock and dirty flag are
external: a replica that dies in a migration leaves the flag, and a `Repair`
completes or undoes that migration. `Main` goes on to build its registries and
engine and serves one request at a time. `Resolve` reads the entries and the
fallback under two separate locks; `Report` snapshots the registry under the lock
and probes without it; `Scope` counts and finds in two statements, and reading all
pages of an export repeats that, while another client inserts rows behind all there ever
were (numbers are not used again) and deletes others. A listing keeps, as history, the rows
it began with and what happened to the table since. `Write`'s goroutine keeps running when its caller
has left. A crash of `Main` loses all of this; the schema and the table stay.

## 3. Runs

| Run | Question and result |
|---|---|
| `SessionSafety` | one session, three Resolve calls, verifier, both timeouts, logout, cleanup, revocation, crash and every failure: the type invariant and six guarantees hold (2.8 million states) |
| `SessionIssuers` | no verifier, issuers that rotate or keep the refresh token and report lifetimes or none: every Resolve returns, expired rows are removed (303 thousand states; the safety of this instance is among what is proved) |
| `IntrospectorCalls` | two callers of one JWT, cancellation, revocation, `ClearCache`, eviction and `Close`: bounded staleness, no entry beyond the token's life, inactive tokens noticed, `ClearCache` effective but for an answer in flight; calls return although the starter cancels, `Close` returns, expired entries go |
| `OIDCVerify` | three Verify calls of one token - a JWT, an opaque token whose expiry the issuer reports, or one whose expiry nobody knows - with introspection and without: staleness bounded by the sum of the lifetimes and one timeout, expired tokens refused (2 million states) |
| `RateLimitBuckets` | fixed policy: the swept map of lazy buckets implements `TokenBucket` |
| `RateLimitRetune` | a changing policy: never more than the largest burst and rate in play |
| `ConfigLoads` | initial load with validation, two reloads, watcher, subscriber, Stop: no panic, only validated configurations, no lost signal, nothing scheduled after Stop; every reported change is read and Stop closes the channels (285 thousand states) |
| `OutboundCalls` | a retrying or delivering call and a plain one that share a token manager, with lost answers, cancellation, every `Retry-After`: waits and cancellations respected, the last attempt reported, tokens within the skew, verdicts true, texts whole, calls return (162 thousand states) |
| `WebAuthTabs` | two tabs log in, call the API, refresh and log out: one session per code, and only for a state that was checked in time, no access after logout, cookies paired and no longer-lived than the session, roles, origins and return paths decide (3.1 million states) |
| `ServiceLife` | two replicas migrate, crash and are repaired; one serves health reports, errors, pages and exports while its registries and rows change, and shuts down: 11 invariants and that starts, shutdowns and writers end (131 thousand states) |
| `ProgressSlots` | three workers, two slots, a Start, two Stops: no shared or wiped line, every worker gets a slot and `Stop` after a launch returns, unless the double close crashes the program (12 thousand states) |
| `ProgressStopTwice` | *violation*: two concurrent Stops close the channel twice |

Several runs check a conjunction of named parts under one name, each part being
defined with its comment in the module of its component: `CacheSound` (`TypeOK`,
`NoEntryOutlivesToken`) and `EverythingEnds` (`CallsReturn`, `CloseTerminates`,
`ExpiredEntriesGo`) of `Introspector`; `VerifySound` (`VTypeOK`, `ExpiredTokenRefused`)
of `OIDC`; `LoaderSound` (`TypeOK`, `NoPanic`, `OnlyValidated`,
`NothingScheduledAfterStop`) of `ConfigLoader`; `RetryContract` (`TypeOK`,
`FloorRespected`, `AtMostOneLateAttempt`, `DefinitiveIsFinal`, `LastAttemptDecides`) and
`DeliveriesTrue` (`VerdictIsTrue`, `TitlesWhole`) of `Outbound`; `LoginsComplete`
(`TypeOK`, `OneTimelySession`, `ReturnsToOwnPath`) and `RequestsDecided` (`RolesDecide`,
`ListedOriginsOnly`) of `WebAuth`; `MigrationsSafe` (`TypeOK`, `OnceInOrder`,
`MigratedBeforeUse`), `ErrorsAnswered` (`NoAliases`, `FirstMatchAnswers`, `Renderable`),
`ReportsTrue` (`ReportInTime`, `ReportMatchesSnapshot`), `ListingsTrue` (`PageIsItsOwn`,
`AllPagesOnce`, `WrittenWhole`) and `WorkEnds` (`StartEnds`, `ShutdownCompletes`,
`WritersEnd`) of `Service`. `PROJECT.json` has a mutant for every part.

The violation run states what a README promises; `PROJECT.json` quotes the line.

**Bounds.** One session or token is enough for the properties that speak of one:
rows, cache entries and locks are independent, and the proofs for sessions hold
for any set of them. Three calls let one hold the row lock, one wait for it and
one run beside both; in `OIDCVerify` they let one call fill the introspection
cache, a second carry that entry over into the claims cache and a third use it.
Two callers share a flight or find each other's entry. Clock bounds are at least
the sum of the lifetimes involved, so that everything can expire and be used once
more. Two reloads overlap and a subscriber can be closed while a send to it is
pending; a buffer of 1 (10 in the code) is the smallest that can be full. The
limiter's clock passes two sweeps.

`OutboundCalls`: three attempts have a first, a middle and a last; waits of 2 and 3
in a duration of width 7 reach the cap before they would wrap; `Retry-After` values
lie below and above the cap and past the width; a token's answer may take longer
than the skew. `WebAuthTabs`: two tabs are enough for any two responses to cross;
one login whose URL is opened up to twice, so that two codes and two sessions come of
it, and whose callbacks either tab may repeat; a second is two ticks, a session lives 2
ticks, the clock runs to 2. The code's ten minutes for a login are 0 seconds here: its state is
still good in the rest of the second in which the login began, and is refused after
that, which is the whole of the comparison; the proof is for any number of seconds.
One route's role contexts agree and the other's do not. `ServiceLife`: two replicas, of
which `Main` starts once and the other twice; two migrations and one seed, so that
there is a first, a last and a step after both; one retry; two names and
connections, a timeout of 2; an engine that limits bodies and redirects unknown routes,
one that lists tables and does neither, and one that is refused; one change while `Main` runs; three rows of which one
more may be inserted, pages of one and three rows, an int that ends at 7; a book with
sheets named " " and "sheet1", which by trimming and by case are the same tab. Listings are
explored when the other replica is down for good, with which they share nothing,
with one writer at a time, and changes then are to the table.

**Symmetry and views.** Calls and requests, tabs, codes and session ids are symmetric where
no liveness is checked. `OIDCVerify` uses a view: of a call that has returned, no action reads
anything any more, so the view keeps only the values of the two invariants about
it; of a token that no call presents nothing is read either. States equal in the
view therefore agree on the invariants and have successors that are equal in it.

**Deadlock** is not checked where the system may rest: all requests answered and
the clock at its bound, or a program that stopped.

**Fairness.** Weak fairness on the steps of calls that have begun: goroutines are
scheduled and every network call ends, because the HTTP client has a timeout. Weak
fairness on the cleanup and eviction tickers, the reload timer and the clock. For
the row lock this is enough: each call takes it once, so it cannot pass between
the others for ever. A receive from the channel of free slots gets strong
fairness, because Go serves waiting receivers in order, and so does taking the mutex
around the token manager, because Go hands a mutex to a starved waiter. The steps of
a start, of a request, of probes and of a writer's goroutine are weakly fair, as is
the return of a `Shutdown` that has nothing left to wait for; crashes, repairs and the
end of a shutdown's context are not. A listing's `Count` and `Find` are taken to return, although
the code gives them no deadline. The steps of `Progress` are fair only while the program
has not crashed. Nothing is fair that depends on a user, an editor or an
administrator: nobody has to log out, change the file or call `Stop`.

### Other differences and limits of the code

Seen while modelling, and visible in the models although no run is spent on them:

- `session_manager.go:311-313` says a session's ceiling never moves later; a refresh
  answer that reports a refresh token lifetime does move it (`ComputeExpiresAt`).
  What holds is `AbsoluteTimeoutEnforced`.
- `session_manager.go:149-150` says Resolve revalidates on every call; a call that
  waits for another's refresh adopts the row without asking the verifier
  (`AdoptRefresh`). What holds is `RevocationBites`, which excepts grants on their way.
- `session_manager.go:86-87`: a session whose first request comes later than the
  idle timeout is accepted, because `isExpired` skips the test while `LastSeenAt`
  is zero (`IsExpired`).
- `oidcauth/README.md:396` says a revoked token stays valid for up to
  `CacheDuration`; the introspection cache adds its own lifetime. What holds is
  `StackedStaleness`.
- `introspection.go:166-169` gives `CacheTTL` as the longest time a revocation goes
  unnoticed; an answer may be up to `HTTPTimeout` old when it is stored. What holds is
  `BoundedStaleness`, with the sum of the two.
- `session_manager.go:209-214`: a call that waited for another's refresh adopts the row
  without testing its ceiling, which was computed when the issuer's answer came and may
  have passed by the time the row is stored. `ReturnedSessionUsable` promises the ceiling
  to calls that began with no grant on its way.
- `rate_limit.go:23-28`: a burst that takes longer than ten minutes to refill is
  granted again in full after an eviction. What holds assumes that it does not.
- `middlewares/README.md:132` says a lowered policy takes effect at once; a slower
  request may put the previous one back between another's retune and allow. What
  holds is `BoundedAdmission` with the most generous policy in play.
- `cli/progress.go:153`: `Stop` before `Start` waits for a loop that can no longer be
  launched. Lines 154-162: two concurrent Stops may close the channel twice, and the other
  one is then left waiting in a crashed program. `LaunchedStopReturns` excepts both.
- `oidcauth/README.md:388` offers `ClearCache` for revocations that must take effect at
  once; an answer in flight is stored into the cleared cache (`introspection.go:296`).
  What holds is `ClearCacheTakesEffect`, which excepts it.
- `config/README.md:128` says `GetCurrent` returns the most recently loaded
  configuration; of two overlapping reloads the one that read the older file may
  store last (`viper.go:209`). A change between the initial read and the start of the
  watch raises no event (`viper.go:293`).
- `session_manager.go:242`: the deletion after a failed refresh runs outside the lock
  and may remove a row another call has just refreshed; `Touch` (line 190) writes the
  time its call began and so may move `LastSeenAt` backwards.
- `httpclient/client.go:201`: the client's own timeout is a `DeadlineExceeded` and is not
  retried; `ParseRetryAfter` wraps at 64 bits; `authenticate` formats errors with `%v`,
  which hides a cancellation from `shouldRetry`, hence one late attempt.
- `oauth2/token_manager.go:199`: a token whose answer took longer than five seconds may be
  handed out past its expiry, by the rest of that latency.
- `middlewares/oidcauth.go:252-260`: `Refresh` clears the cookie on any error of Resolve, a
  store that is down included, and a late failure clears the cookie of a newer login.
  Line 350: in the last second of a session `Max-Age` is 0 and the cookie gets no expiry.
- `middlewares/oidcauth.go:266` says Logout deletes the session; line 283 ignores the
  error of `Delete`, so behind a store that failed the session lives on although the
  response is a success. `LogoutEndsAccess` speaks of logouts whose deletion succeeded.
- `middlewares/oidcauth.go:186`: the ten minutes of a login end with the check of its
  state; exchange, verification and the store come after it, and the session may be
  created any time later. A signed state is not single-use either: a login's URL opened
  twice gives two codes and two sessions. What holds is `OneTimelySession`: one session for a
  code, its state checked in time.
- `middlewares/authorization.go:193` panics on role context values that cannot be compared.
- `migrate/README.md:100,117`: a replica that starts while another migrates fails with
  `ErrDatabaseDirtyState`, because the flag is read without the lock; `Migrate` may report
  a cancelled context after all migrations were applied; seeds are executed at every
  start and by replicas concurrently.
- `database/gorm/gorm.go:82`: negative `RetryAttempts` skip the loop and leave a nil
  connection.
- `respond/error_resolver.go:93`: `AddEntries` keeps the entries before the bad one;
  `Resolve` combines entries and fallback of two instants, and an entry may map an error
  to status 200.
- `pagination/gorm_scope.go:28`: an error of `Count` is dropped, so a page is returned with
  a total of 0 and reading all pages stops early. Lines 22-36: a row inserted in front
  between the count and the find pushes the last row off a full last page, and nobody asks
  for the next one (`AllPagesOnce` excepts it). `paginator.go:32`: a page number whose
  offset overflows yields the first page. Rows sorted by a key that is not unique may
  repeat or be missed across pages.
- `pagination/gorm_scope.go:22-36`: `Count` and `Find` have no deadline of their
  own, so a stalled database holds up a listing and with it a shutdown.
  `ShutdownCompletes` assumes that they return.
- `spreadsheet/excelize.go:135`: sheets whose trimmed names are equal or differ only in
  case share a tab, and the later rows overwrite the earlier ones (`WrittenWhole` excepts
  them).

## 4. Proofs

`SessionManagerProofs`, for any sets of sessions and calls, any timeouts and any
issuer: the inductive invariant is a conjunction of parts, each needed by the next.
`TypeOK`; `LockInv`, that a lock belongs to a call between lock and commit whose
copy is the row as stored until it is renewed; `RowInv`, that a stored ceiling follows
from the stored tokens and the creation time; `CallInv`, that a call holds a usable copy
at every point from which it can return; `RenewalInv`, that a renewed copy which is not
stored yet has its ceiling ahead of every call that began before the grant, which is
why `ReturnsUsable` excepts only the others; `GoneInv`, that nobody can write a deleted row;
`RevocationInv` and `ReplayInv` for grants on their way. From them follow
`TypeCorrect`, `LogoutHolds`, `ReturnsUsable`, `AbsoluteTimeoutHolds`,
`RevocationHolds`, `NoReplay` and the action property `DeletedStaysDeleted`.
Exclusion alone does not give `NoReplay`: the argument is that the copy made under
the lock is the issuer's current generation unless a rotated token was lost, which
is `ReplayInv`.

`RateLimiterProofs`: `BucketsImplemented` (refinement of `TokenBucket`), assuming
`FixedPolicy(p)`: no provider, and a burst that refills within the idle timeout
(`p.burst <= p.rate * IdleTimeout`). The key lemma is `IdleIsFull`: a bucket idle for
longer than the timeout is full, so forgetting it is no change of the abstract bucket.
`AdmissionBounded` lets a provider change the policy on every request, and a slower
request put an older one back, assuming only `Regained`: there are a most generous rate
and a most generous burst, and that rate regains that burst within the idle timeout.
`BudgetInv` bounds what a client was admitted together with what its bucket held when it
was last advanced by what the most generous policy had given until then, and what a client
without a bucket was admitted by what is earned again since: its bucket stood idle long
enough for a full one to be covered. Without `Regained` both
theorems fail: an evicted bucket that had not refilled is replaced by a full one.

`ProgressProofs`: `SlotsNeverShared` and `LinesAlwaysMatch` for any number of
slots and workers, from `PoolInv`: a free slot is in nobody's hands and idle.

`OIDCProofs`, for any tokens, callers, lifetimes and timeouts. The invariant `IInv` of
the introspector follows an answer from the issuer into the cache: `FlightInv`, that a
request in flight is no older than the client's timeout and was evaluated since it was
sent; `EntryInv` and `AnswerInv`, that what is cached and what a call holds expires
within the token's life and soon enough after that evaluation; `NoFailOpen`; `DeadInv`,
that a token nothing vouches for stays that way. `InactiveIsNoticed` and
`ClearCacheTakesEffect` speak of the past of a call, and `DeadInv` is what carries them
to its end. `VInv` adds the verifier: `BegunInv` orders the clock readings of the two
layers, `ExpiryInv`, `EvidenceInv` and `MemoryInv` say how old the evidence behind a call
and behind an entry of the claims cache can be. `VerifierDrivesIntrospector`
(`VSpec => Spec`) shows that wrapping Verify around the introspector adds no behaviour
to it, so its results hold inside an `OIDC`.

`ConfigLoaderProofs`, for any number of reloads and subscribers: `CInv` is `MainInv` and
`CurrentInv`, that what is in use is validated or about to be by `LoadWithValidation`;
`ReloadInv`, that reloads begin only when something is stored and store what the
validator accepts; `SubInv`, that a channel in the list is open and that whoever still
has to notify holds the read lock and finds it there, which is why a send never meets a
closed channel. `SignalPending` is inductive with these.

`ServiceProofs`, for any number of replicas, migrations, registrations, connections and
crashes: `SInv` is `StartInv` (whoever migrates holds the database's lock and is alone;
the schema is dirty while a migration runs), `HealthInv` (the probes of a report are
those of its snapshot, and none lasts longer than the timeout it read), `ServerInv`,
`RegistryInv` (the registry is a mapping of valid entries) and `ReqInv` (what a request
found is the first match among the entries there when it came, because entries are only
appended).

`ListingsAreTrue` is about `Pagination` and `Spreadsheet` inside a service, for any table,
page sizes, queries and books and any number of insertions and deletions. It counts the
rows in front of a row (`Before`): in a sorted sequence that number is the row's place
(`Sorted`), every number below the size of the set is some row's (`BeforeOnto`), and a page
holds the rows whose number lies in its interval (`PageHolds`), also where `Offset` wraps.
`ListingInv` follows a reading from page to page: `InProgress` (what it has
read was asked for, and the count is right while the table stands still), `ReadOnce` (rows already read are in front of the next page, so none is read
again unless rows were inserted in front) and `ReadAll` (rows of the beginning that lie in
front of the next page have been read, unless rows were deleted, or pushed off between a
count and a find). `ExportInv` and `Written` add the writer: the tabs it has finished hold
the rows of their sheets. The one hypothesis, `FiltersMean`, ties `query.wanted` (the rows
that a caller means) to the filter expressions of the query; it is a statement about the
queries, and true of those of `ServiceLife`.

`SearchesAreLiteral` is what gives a search its meaning: for any text and any value, LIKE
with `%`, the escaped value and `%` matches exactly the texts in which the value occurs,
wildcards and escape characters in it included. `FlattenIs` says where `EscapeLike` puts
each character (`Spells`), and from the end of the pattern to its beginning the places where
the rest matches are those where the rest of the value stands (`Ends`).

`WebAuthProofs`, for any number of tabs, logins, codes, sessions and routes: `WInv` is
`LoginInv` (a login's state, and the codes), `StoreInv` (a session comes from a code that
it has spent, so no other does), `JarInv` (the two cookies name one session),
`TabInv` for each request and response on its way, with what the response will do to the
jar, and `CallInv` for each Callback that waits (its state was checked in time, and from
the exchange on its code is spent, by no other call and by no session). Each
step is first shown to move onward (`Onward`: the clock, logins, sessions and
logouts never go back), which settles everything it does not touch. `CookiesExpire` is
an action property.

`OutboundProofs`, for any number of calls and any retry settings: `OInv` is `TokenInv`
(by the manager's reckoning a token expires `Skew` earlier than by the issuer's, less
what its answer took) and, for each call, `PlaceOK` and `PaceOK` (what is owed before the
next attempt is in the timers), `LateOK` (only a select whose timer came first begins an
attempt after the context ended, once), `AnswerOK` and `FinalOK` (an
outcome is the last attempt's), `DeliveryOK` and `VerdictOK`. `BackoffBounds` bounds the backoff of every attempt,
`WrappedFits` the width of a parsed `Retry-After`, `Truncated` the rune boundary at which
a title is cut.

What a recursive function computes for every input is out of the library's induction
theorems' reach; where a proof needs it (`Backoff`, the cut of a text, the role contexts
of a request, `FlattenSeq`, the LIKE of the database) the argument takes a least counterexample in a set of naturals (`WFMin` of
`WellFoundedInduction`), which needs no operator parameter.

The proofs assume what the named assumptions in the modules say, and TLC evaluates them
on every run: lifetimes and bounds are naturals, sentinels such as `None` differ from
what they stand beside, a `time.Duration` holds twice the longest
wait configured, which is 146 years in the code (`HTTPClientAssumption`), titles are UTF-8 (`MessagesAssumption`), FCM names a
registration that is gone in the first code of its details and in no other answer
(`RepliesAssumption`), routes and role contexts have their types
(`RoutesAssumption`), the table has no more rows than an int can count
(`PaginationAssumption`), and whoever reads all pages begins with the first
(`QueriesAssumption`).

Every invariant and every action property that a run checks is also proved. Only
model-checked: all liveness (fairness and ENABLED are beyond the prover), and which rows
nested groups of filters select, whose definition recurs over the structure of a filter
(`FilterExpr`; a fault in it violates `ListingsTrue` in `ServiceLife`).

## 5. Not modelled

- `secure`, `logger`, `telemetry`, `temporal`, `database/sql`, `cli` banner: calls
  of libraries, formatting and start-up wiring, no state of their own.
- Provider discovery (`oidcauth.New`), options and `HasRole`: configuration and
  reads.
- `OnEvent` reporting, messages, log lines, response envelopes, cell styles.
- URLs, headers and compressed bodies of `httpclient`, `EndSessionURL`, `DownloadFile`, TLS
  options, FCM configuration and credentials files, GORM pool options: values handed to
  libraries.
- Filter operators of `pagination` other than `=`, `<>` and LIKE, which render alike, and
  the rendering of SQL.
- Rate limits that are zero or negative: `WithDefaults` replaces them before the
  limiter is built; a provider is taken to return positive values.
- `totp`, which the repository's README names, is not in the tree.

## 6. Plan

What would extend this work, in this order:

1. Composition of `SessionManager` with the caching verifier of `OIDC`, so that the bound of
   `StackedStaleness` appears in `RevocationBites` itself.
2. `WebAuth` over the row operations of `SessionManager` instead of their abstraction.
3. The meaning of groups of filters, by induction over their depth.
