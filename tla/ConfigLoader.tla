----------------------------- MODULE ConfigLoader -----------------------------
(***************************************************************************)
(* config.Loader (src/config/viper.go): the initial load, reloads on       *)
(* demand and by the debounced file watcher, subscriptions and Stop.       *)
(*                                                                         *)
(* The file is a version number and a kind; a configuration is the version *)
(* it was read from.  Every section under one of the three mutexes is one  *)
(* step; a notification keeps subMutex for reading over several.  viper    *)
(* and fsnotify are external: a missing file is no error until one was     *)
(* found, a change made while the file is watched raises events.           *)
(* A goroutine that runs Reload, the application's or the timer's, is a    *)
(* member of Reloaders.                                                    *)
(***************************************************************************)
EXTENDS Naturals

CONSTANTS
  Main,        \* the goroutine that calls Load or LoadWithValidation
  Reloaders,
  Subscribers, \* channels returned by Subscribe
  Stoppers,    \* goroutines that call Stop, any number of times
  HasValidator,\* LoadWithValidation with a validator, rather than Load
  WatchConfig, \* LoaderOptions.WatchConfig
  Capacity,    \* buffer of a subscriber's channel
  NoConfig,    \* nil
  MaxVersion   \* bound on the writes of the file

ASSUME ConfigAssumption ==
  /\ Main \notin Reloaders
  /\ HasValidator \in BOOLEAN /\ WatchConfig \in BOOLEAN
  /\ Capacity \in Nat \ {0} /\ MaxVersion \in Nat

VARIABLES
  file,      \* the file: version and kind
  event,     \* a change that fsnotify has not reported yet
  resolved,  \* viper has found the file (ConfigFileUsed)
  current, validator, watching, \* the loader
  debouncer, stopped,           \* the timer: "nil", "armed", "fired"
  pc, config,                   \* a goroutine: where it is, and what it read
  subscribers, channel, closed, \* the list, events buffered, closed channels
  readers, todo,                \* subMutex.RLock holders, and whom they notify yet
  stop,                         \* a Stop call: where it is
  panicked,  \* a closed channel was closed again or sent on
  noticed,   \* history: the newest version any loadConfig saw
  viewed     \* history: subscriber -> current when it last looked

loaderVars == <<resolved, current, validator, watching>>
timerVars == <<debouncer, stopped>>
subVars == <<subscribers, channel, closed, readers, todo, panicked>>
historyVars == <<noticed, viewed>>
vars == <<file, event, loaderVars, timerVars, pc, config, subVars, stop, historyVars>>

-----------------------------------------------------------------------------
Procs == Reloaders \union {Main}
Kinds == {"good", "rejected", "broken", "absent"}
File == [v : Nat, kind : Kinds]

ASSUME NoConfigAssumption == NoConfig \notin File

\* The configuration of a loader that never found a file: all zero values.
Empty == [v |-> 0, kind |-> "absent"]
\* The validator rejects such a configuration, and the zero one.
Rejects(f) == f.kind \in {"rejected", "absent"}

Larger(a, b) == IF a < b THEN b ELSE a

Init ==
  /\ file \in {Empty} \union [v : {1}, kind : {"good", "rejected", "broken"}]
  /\ event = FALSE
  /\ resolved = FALSE
  /\ current = NoConfig
  /\ validator = FALSE
  /\ watching = FALSE
  /\ debouncer = "nil"
  /\ stopped = FALSE
  /\ pc = [p \in Procs |-> "idle"]
  /\ config = [p \in Procs |-> Empty]
  /\ subscribers = {}
  /\ channel = [s \in Subscribers |-> 0]
  /\ closed = {}
  /\ readers = {}
  /\ todo = [p \in Procs |-> {}]
  /\ stop = [k \in Stoppers |-> "idle"]
  /\ panicked = FALSE
  /\ noticed = 0
  /\ viewed = [s \in Subscribers |-> NoConfig]

Goto(p, place) == pc' = [pc EXCEPT ![p] = place]

-----------------------------------------------------------------------------
(* Load, LoadWithValidation and Reload. *)

\* Mutant: the validator is not kept for later reloads.
Load_NotRecorded ==
  /\ pc[Main] = "idle"
  /\ Goto(Main, "readIn")
  /\ UNCHANGED <<file, event, loaderVars, timerVars, config, subVars, stop, historyVars>>

\* LoadWithValidation records its validator before it calls Load.
Load ==
  /\ pc[Main] = "idle"
  /\ validator' = HasValidator
  /\ Goto(Main, "readIn")
  /\ UNCHANGED <<file, event, resolved, current, watching, timerVars, config, subVars,
                 stop, historyVars>>

\* The application calls Reload, once its initial load has ended.
Reload(p) ==
  /\ p # Main /\ pc[p] = "idle"
  /\ pc[Main] \in {"ok", "failed"}
  /\ Goto(p, "readIn")
  /\ UNCHANGED <<file, event, loaderVars, timerVars, config, subVars, stop, historyVars>>

\* What follows a loadConfig that returned f: Reload validates it first.
Loaded(p, f) ==
  /\ config' = [config EXCEPT ![p] = f]
  /\ Goto(p, IF p # Main /\ validator /\ Rejects(f) THEN "notify" ELSE "store")

\* What follows one that failed: Reload tells the subscribers.
LoadError(p) ==
  /\ Goto(p, IF p = Main THEN "failed" ELSE "notify")
  /\ UNCHANGED config

\* loadConfig: viper.ReadInConfig finds and parses the file.
ReadInConfig(p) ==
  /\ pc[p] = "readIn"
  /\ resolved' = (resolved \/ file.kind # "absent")
  /\ noticed' = Larger(noticed, file.v)
  /\ CASE file.kind = "absent" -> Loaded(p, Empty)
       [] file.kind = "broken" -> LoadError(p)
       [] OTHER -> Goto(p, "readFile") /\ UNCHANGED config
  /\ UNCHANGED <<file, event, current, validator, watching, timerVars, subVars, stop,
                 viewed>>

\* loadConfig: os.ReadFile, expansion, and the parse that counts.
ReadFile(p) ==
  /\ pc[p] = "readFile"
  /\ noticed' = Larger(noticed, file.v)
  /\ IF file.kind = "broken" THEN LoadError(p) ELSE Loaded(p, file)
  /\ UNCHANGED <<file, event, loaderVars, timerVars, subVars, stop, viewed>>

\* Mutant: a reload does not tell anybody.
Store_Unsignalled(p) ==
  /\ pc[p] = "store"
  /\ current' = config[p]
  /\ Goto(p, CASE p # Main -> "idle"
               [] p = Main /\ WatchConfig -> "watch"
               [] OTHER -> "validate")
  /\ UNCHANGED <<file, event, resolved, validator, watching, timerVars, config, subVars,
                 stop, noticed, viewed>>

\* current is replaced under the lock.
Store(p) ==
  /\ pc[p] = "store"
  /\ current' = config[p]
  /\ Goto(p, CASE p # Main -> "notify"
               [] p = Main /\ WatchConfig -> "watch"
               [] OTHER -> "validate")
  /\ UNCHANGED <<file, event, resolved, validator, watching, timerVars, config, subVars,
                 stop, noticed, viewed>>

\* startWatching: without a file there is nothing to watch.
StartWatching ==
  /\ pc[Main] = "watch"
  /\ watching' = resolved
  /\ Goto(Main, IF resolved THEN "validate" ELSE "failed")
  /\ UNCHANGED <<file, event, resolved, current, validator, timerVars, config, subVars,
                 stop, historyVars>>

\* LoadWithValidation validates what is already stored and watched.
Validate ==
  /\ pc[Main] = "validate"
  /\ Goto(Main, IF validator /\ Rejects(config[Main]) THEN "failed" ELSE "ok")
  /\ UNCHANGED <<file, event, loaderVars, timerVars, config, subVars, stop, historyVars>>

-----------------------------------------------------------------------------
(* The watcher. *)

\* Somebody writes (or removes) the file.
WriteFile(kind) ==
  /\ file.v < MaxVersion
  /\ file' = [v |-> file.v + 1, kind |-> kind]
  /\ event' = (event \/ watching)
  /\ UNCHANGED <<loaderVars, timerVars, pc, config, subVars, stop, historyVars>>

\* Mutant: Stop is not looked at.
DebouncedReload_Late ==
  /\ watching /\ event
  /\ event' \in BOOLEAN
  /\ debouncer' = "armed"
  /\ UNCHANGED <<file, loaderVars, stopped, pc, config, subVars, stop, historyVars>>

\* Mutant: an event that arrives during a reload is taken to be covered by it.
DebouncedReload_Busy ==
  /\ watching /\ event
  /\ event' \in BOOLEAN
  /\ debouncer' = IF stopped \/ \E p \in Reloaders : pc[p] # "idle" THEN debouncer ELSE "armed"
  /\ UNCHANGED <<file, loaderVars, stopped, pc, config, subVars, stop, historyVars>>

\* fsnotify reports a change, once or more often: the timer starts anew.
DebouncedReload ==
  /\ watching /\ event
  /\ event' \in BOOLEAN
  /\ debouncer' = IF stopped THEN debouncer ELSE "armed"
  /\ UNCHANGED <<file, loaderVars, stopped, pc, config, subVars, stop, historyVars>>

\* The timer fires: Reload runs in a goroutine of its own.
TimerFires(p) ==
  /\ p # Main /\ pc[p] = "idle"
  /\ debouncer = "armed"
  /\ debouncer' = "fired"
  /\ Goto(p, "readIn")
  /\ UNCHANGED <<file, event, loaderVars, stopped, config, subVars, stop, historyVars>>

-----------------------------------------------------------------------------
(* Subscribers. *)

NoReaders == readers = {}

\* The subscriber reads GetCurrent as soon as it has its channel.
Subscribe(s) ==
  /\ NoReaders
  /\ s \notin subscribers \union closed
  /\ subscribers' = subscribers \union {s}
  /\ viewed' = [viewed EXCEPT ![s] = current]
  /\ UNCHANGED <<file, event, loaderVars, timerVars, pc, config, channel, closed, readers,
                 todo, panicked, stop, noticed>>

\* Closing the channels S.
CloseAll(S) ==
  /\ closed' = closed \union S
  /\ panicked' = (panicked \/ S \intersect closed # {})

\* Mutant: the channel is closed but stays in the list.
Unsubscribe_Stays(s) ==
  /\ NoReaders
  /\ s \in subscribers
  /\ CloseAll({s})
  /\ UNCHANGED <<file, event, loaderVars, timerVars, pc, config, subscribers, channel,
                 readers, todo, stop, historyVars>>

Unsubscribe(s) ==
  /\ NoReaders
  /\ s \in subscribers
  /\ CloseAll({s})
  /\ subscribers' = subscribers \ {s}
  /\ UNCHANGED <<file, event, loaderVars, timerVars, pc, config, channel, readers, todo,
                 stop, historyVars>>

\* notifyChange and notifyError take the read lock, which a Go RWMutex keeps
\* from new readers while a writer waits ...
Notify(p) ==
  /\ pc[p] = "notify"
  /\ \A k \in Stoppers : stop[k] # "locking"
  /\ readers' = readers \union {p}
  /\ todo' = [todo EXCEPT ![p] = subscribers]
  /\ Goto(p, "send")
  /\ UNCHANGED <<file, event, loaderVars, timerVars, config, subscribers, channel, closed,
                 panicked, stop, historyVars>>

\* Mutant: the send does not look at the buffer.
Send_Unbounded(p, s) ==
  /\ pc[p] = "send" /\ s \in todo[p]
  /\ todo' = [todo EXCEPT ![p] = @ \ {s}]
  /\ channel' = [channel EXCEPT ![s] = @ + 1]
  /\ panicked' = (panicked \/ s \in closed)
  /\ UNCHANGED <<file, event, loaderVars, timerVars, pc, config, subscribers, closed,
                 readers, stop, historyVars>>

\* ... offer the event to each subscriber, dropping it if the buffer is full ...
Send(p, s) ==
  /\ pc[p] = "send" /\ s \in todo[p]
  /\ todo' = [todo EXCEPT ![p] = @ \ {s}]
  /\ channel' = [channel EXCEPT ![s] = IF @ < Capacity THEN @ + 1 ELSE @]
  /\ panicked' = (panicked \/ s \in closed)
  /\ UNCHANGED <<file, event, loaderVars, timerVars, pc, config, subscribers, closed,
                 readers, stop, historyVars>>

\* ... and release it; Reload returns.
Notified(p) ==
  /\ pc[p] = "send" /\ todo[p] = {}
  /\ readers' = readers \ {p}
  /\ Goto(p, "idle")
  /\ UNCHANGED <<file, event, loaderVars, timerVars, config, subscribers, channel, closed,
                 todo, panicked, stop, historyVars>>

\* A subscriber takes an event as the signal to call GetCurrent.
Receive(s) ==
  /\ channel[s] > 0
  /\ channel' = [channel EXCEPT ![s] = @ - 1]
  /\ viewed' = [viewed EXCEPT ![s] = current]
  /\ UNCHANGED <<file, event, loaderVars, timerVars, pc, config, subscribers, closed,
                 readers, todo, panicked, stop, noticed>>

-----------------------------------------------------------------------------
(* Stop. *)

\* Its first critical section; the context it cancels has no reader.
StopTimer(k) ==
  /\ stop[k] \in {"idle", "returned"}
  /\ stopped' = TRUE
  /\ debouncer' = "nil"
  /\ stop' = [stop EXCEPT ![k] = "close"]
  /\ UNCHANGED <<file, event, loaderVars, pc, config, subVars, historyVars>>

\* It waits for subMutex ...
StopLocks(k) ==
  /\ stop[k] = "close"
  /\ stop' = [stop EXCEPT ![k] = "locking"]
  /\ UNCHANGED <<file, event, loaderVars, timerVars, pc, config, subVars, historyVars>>

\* Mutant: the list is dropped, its channels stay open.
StopClose_Forgets(k) ==
  /\ stop[k] = "locking" /\ NoReaders
  /\ subscribers' = {}
  /\ stop' = [stop EXCEPT ![k] = "returned"]
  /\ UNCHANGED <<file, event, loaderVars, timerVars, pc, config, channel, closed, readers,
                 todo, panicked, historyVars>>

\* ... for its second critical section.
StopClose(k) ==
  /\ stop[k] = "locking" /\ NoReaders
  /\ CloseAll(subscribers)
  /\ subscribers' = {}
  /\ stop' = [stop EXCEPT ![k] = "returned"]
  /\ UNCHANGED <<file, event, loaderVars, timerVars, pc, config, channel, readers, todo,
                 historyVars>>

-----------------------------------------------------------------------------
ProcStep(p) ==
  \/ ReadInConfig(p) \/ ReadFile(p) \/ Store(p)
  \/ Notify(p) \/ (\E s \in Subscribers : Send(p, s)) \/ Notified(p)

MainStep == ProcStep(Main) \/ StartWatching \/ Validate

Next ==
  \/ Load \/ MainStep
  \/ \E p \in Reloaders : Reload(p) \/ TimerFires(p) \/ ProcStep(p)
  \/ \E kind \in {"good", "rejected", "broken"} : WriteFile(kind)
  \/ DebouncedReload
  \/ \E s \in Subscribers : Subscribe(s) \/ Unsubscribe(s) \/ Receive(s)
  \/ \E k \in Stoppers : StopTimer(k) \/ StopLocks(k) \/ StopClose(k)

Spec == Init /\ [][Next]_vars

\* Goroutines run, events are reported and the timer fires.
Fairness ==
  /\ WF_vars(MainStep)
  /\ WF_vars(DebouncedReload)
  /\ \A p \in Reloaders : WF_vars(ProcStep(p))
  /\ WF_vars(\E p \in Reloaders : TimerFires(p))
  /\ \A k \in Stoppers : WF_vars(StopLocks(k)) /\ WF_vars(StopClose(k))

FairSpec == Spec /\ Fairness

-----------------------------------------------------------------------------
(* Properties. *)

\* Every variable has its type; a channel never holds more than its buffer.
TypeOK ==
  /\ file \in File /\ event \in BOOLEAN
  /\ resolved \in BOOLEAN /\ validator \in BOOLEAN /\ watching \in BOOLEAN
  /\ current \in File \union {NoConfig}
  /\ debouncer \in {"nil", "armed", "fired"} /\ stopped \in BOOLEAN
  /\ pc \in [Procs -> {"idle", "readIn", "readFile", "store", "watch", "validate",
                       "notify", "send", "ok", "failed"}]
  /\ config \in [Procs -> File]
  /\ subscribers \subseteq Subscribers /\ closed \subseteq Subscribers
  /\ channel \in [Subscribers -> 0..Capacity]
  /\ readers \subseteq Procs /\ todo \in [Procs -> SUBSET Subscribers]
  /\ stop \in [Stoppers -> {"idle", "close", "locking", "returned"}]
  /\ panicked \in BOOLEAN
  /\ noticed \in Nat
  /\ viewed \in [Subscribers -> File \union {NoConfig}]

\* No event is sent on a closed channel and none is closed twice, however
\* Unsubscribe, several Stops and running notifications interleave
\* (viper.go:176-187, 216-236, 340-345).
NoPanic == ~panicked

\* Once LoadWithValidation has succeeded, GetCurrent never returns a
\* configuration that its validator rejects, whichever reloads run, also those
\* that the watcher started before it returned (viper.go:141-156, 199-210).
OnlyValidated ==
  HasValidator /\ pc[Main] = "ok" => ~Rejects(current)

\* A subscriber that has seen another than the current configuration has an
\* event waiting, or one about to be sent, even if its buffer overflowed: an event
\* can be "a signal to call GetCurrent()" (config/README.md:160).
SignalPending ==
  \A s \in subscribers :
    \/ viewed[s] \in {current, NoConfig}
    \/ channel[s] > 0
    \/ \E p \in Reloaders : pc[p] = "notify" \/ s \in todo[p]

\* After Stop no timer is pending, however late the watcher's events are
\* (viper.go:309-314).
NothingScheduledAfterStop == stopped => debouncer # "armed"

\* A change of a watched file is read by some reload, unless the loader is
\* stopped: debouncing coalesces events and loses none (viper.go:305-323).
ChangesAreRead ==
  \A v \in 1..MaxVersion :
    (watching /\ event /\ file.v = v) ~> (noticed >= v \/ stopped)

\* Stop closes the channel of every subscriber it finds.
StopClosesChannels ==
  \A s \in Subscribers :
    (s \in subscribers /\ \E k \in Stoppers : stop[k] \in {"close", "locking"}) ~> s \in closed

\* The loader is never in a bad state: no send on a closed channel and no second
\* close, nothing that failed validation in use, no timer armed after Stop, and no
\* buffer over its capacity (viper.go:119-156, 216-236, 301-346).
LoaderSound == TypeOK /\ NoPanic /\ OnlyValidated /\ NothingScheduledAfterStop
=============================================================================
