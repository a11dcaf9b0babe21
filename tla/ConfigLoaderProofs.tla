-------------------------- MODULE ConfigLoaderProofs --------------------------
(***************************************************************************)
(* Machine-checked proofs about ConfigLoader, for any number of reloading  *)
(* goroutines, subscribers and Stop calls, any buffer size, with or        *)
(* without a validator and a watcher.                                      *)
(***************************************************************************)
EXTENDS ConfigLoader, TLAPS

\* Before the initial load has stored anything there is no configuration to
\* see, and nothing is watched before it has been stored.
MainInv ==
  /\ pc[Main] \notin {"notify", "send"}
  /\ pc[Main] # "idle" => validator = HasValidator
  /\ pc[Main] \in {"idle", "readIn", "readFile", "store"} => current = NoConfig
  /\ watching => pc[Main] \in {"validate", "ok", "failed"}
  /\ debouncer = "armed" => watching
  /\ current = NoConfig => \A s \in Subscribers : viewed[s] = NoConfig

\* Reloads run once the initial load is over, or has at least stored and
\* watches, and store only what the validator accepts.
ReloadInv ==
  \A p \in Reloaders :
    /\ pc[p] \in {"idle", "readIn", "readFile", "store", "notify", "send"}
    /\ pc[p] # "idle" => pc[Main] \in {"validate", "ok", "failed"}
    /\ pc[p] = "store" /\ HasValidator => ~Rejects(config[p])

\* What is in use while LoadWithValidation has not decided yet is what it is
\* about to validate, or the validated result of a reload.
CurrentInv ==
  /\ pc[Main] = "watch" => current = config[Main]
  /\ pc[Main] = "validate" => current = config[Main] \/ (HasValidator => ~Rejects(current))
  /\ pc[Main] = "ok" /\ HasValidator => ~Rejects(current)

\* A channel in the list is open, and whoever still has to notify somebody
\* holds the read lock and will find its channel in the list.
SubInv ==
  /\ subscribers \intersect closed = {}
  /\ \A p \in Procs : todo[p] \subseteq subscribers
  /\ \A p \in Procs : todo[p] # {} => p \in readers

CInv ==
  /\ TypeOK /\ MainInv /\ ReloadInv /\ CurrentInv /\ SubInv
  /\ NoPanic /\ NothingScheduledAfterStop /\ SignalPending

-----------------------------------------------------------------------------
(* The steps. *)

\* What one step of loadConfig does: go on to read the file, come back with a
\* configuration, or with an error.
LEMMA ReadEffect ==
  ASSUME TypeOK, NEW p \in Procs, ReadInConfig(p) \/ ReadFile(p)
  PROVE  /\ pc[p] \in {"readIn", "readFile"}
         /\ resolved' \in BOOLEAN /\ noticed' \in Nat
         /\ UNCHANGED <<file, event, current, validator, watching, timerVars, subVars,
                        stop, viewed>>
         /\ \/ pc' = [pc EXCEPT ![p] = "readFile"] /\ config' = config
            \/ /\ pc' = [pc EXCEPT ![p] = IF p = Main THEN "failed" ELSE "notify"]
               /\ config' = config
            \/ \E f \in File :
                 /\ config' = [config EXCEPT ![p] = f]
                 /\ pc' = [pc EXCEPT ![p] = IF p # Main /\ validator /\ Rejects(f)
                                            THEN "notify" ELSE "store"]
<1>1. Empty \in File /\ file \in File /\ file.v \in Nat
  BY DEF Empty, File, Kinds, TypeOK
<1>2. noticed' \in Nat
  BY <1>1 DEF ReadInConfig, ReadFile, Larger, TypeOK
<1>3. CASE ReadInConfig(p)
  <2>1. resolved' \in BOOLEAN
    BY <1>3 DEF ReadInConfig
  <2> QED BY <1>1, <1>2, <1>3, <2>1 DEF ReadInConfig, Loaded, LoadError, Goto
<1>4. CASE ReadFile(p)
  BY <1>1, <1>2, <1>4 DEF ReadFile, Loaded, LoadError, Goto, loaderVars, TypeOK
<1> QED BY <1>3, <1>4

\* Initially the invariant holds.
LEMMA CInvInit == Init => CInv
<1> SUFFICES ASSUME Init PROVE CInv
  OBVIOUS
<1>1. Empty \in File /\ file \in File
  BY DEF Init, Empty, File, Kinds
<1>2. TypeOK
  <2>1. /\ channel \in [Subscribers -> 0..Capacity]
        /\ todo \in [Procs -> SUBSET Subscribers]
        /\ config \in [Procs -> File]
    BY <1>1, ConfigAssumption DEF Init
  <2> QED BY <1>1, <2>1 DEF Init, TypeOK
<1>3. MainInv /\ ReloadInv /\ CurrentInv
  BY DEF Init, MainInv, ReloadInv, CurrentInv, Procs
<1>4. SubInv /\ NoPanic /\ NothingScheduledAfterStop /\ SignalPending
  BY DEF Init, SubInv, NoPanic, NothingScheduledAfterStop, SignalPending
<1> QED BY <1>2, <1>3, <1>4 DEF CInv

\* Typing; a channel never holds more than its buffer.
LEMMA TypeStep ==
  ASSUME TypeOK, [Next]_vars
  PROVE  TypeOK'
<1> USE ConfigAssumption DEF TypeOK, Goto, loaderVars, timerVars, subVars, historyVars
<1>1. ASSUME Load \/ StartWatching \/ Validate
      PROVE  TypeOK'
  BY <1>1 DEF Load, StartWatching, Validate, Procs
<1>2. ASSUME NEW p \in Procs, ReadInConfig(p) \/ ReadFile(p)
      PROVE  TypeOK'
  BY <1>2, ReadEffect
<1>3. ASSUME NEW p \in Procs, Store(p) \/ Reload(p) \/ TimerFires(p)
      PROVE  TypeOK'
  BY <1>3 DEF Store, Reload, TimerFires
<1>4. ASSUME NEW p \in Procs, Notify(p) \/ Notified(p)
      PROVE  TypeOK'
  BY <1>4 DEF Notify, Notified
<1>5. ASSUME NEW p \in Procs, NEW s \in Subscribers, Send(p, s)
      PROVE  TypeOK'
  <2>1. panicked' \in BOOLEAN
    BY <1>5 DEF Send
  <2>2. channel' \in [Subscribers -> 0..Capacity]
    BY <1>5 DEF Send
  <2> QED BY <1>5, <2>1, <2>2 DEF Send
<1>6. ASSUME NEW kind \in {"good", "rejected", "broken"}, WriteFile(kind)
      PROVE  TypeOK'
  <2>1. file' \in File
    BY <1>6 DEF WriteFile, File, Kinds
  <2>2. event' \in BOOLEAN
    BY <1>6 DEF WriteFile
  <2> QED BY <1>6, <2>1, <2>2 DEF WriteFile
<1>7. ASSUME DebouncedReload
      PROVE  TypeOK'
  BY <1>7 DEF DebouncedReload
<1>8. ASSUME NEW s \in Subscribers, Subscribe(s) \/ Receive(s)
      PROVE  TypeOK'
  BY <1>8 DEF Subscribe, Receive
<1>9. ASSUME NEW s \in Subscribers, Unsubscribe(s)
      PROVE  TypeOK'
  <2>1. panicked' \in BOOLEAN
    BY <1>9 DEF Unsubscribe, CloseAll
  <2> QED BY <1>9, <2>1 DEF Unsubscribe, CloseAll
<1>10. ASSUME NEW k \in Stoppers, StopTimer(k) \/ StopLocks(k)
       PROVE  TypeOK'
  BY <1>10 DEF StopTimer, StopLocks
<1>11. ASSUME NEW k \in Stoppers, StopClose(k)
       PROVE  TypeOK'
  <2>1. panicked' \in BOOLEAN
    BY <1>11 DEF StopClose, CloseAll
  <2> QED BY <1>11, <2>1 DEF StopClose, CloseAll
<1>12. CASE UNCHANGED vars
  BY <1>12 DEF vars
<1> QED
  BY <1>1, <1>2, <1>3, <1>4, <1>5, <1>6, <1>7, <1>8, <1>9, <1>10, <1>11, <1>12
     DEF Next, MainStep, ProcStep, Procs

\* The steps that leave the loading goroutines and what they decide alone.
LEMMA QuietSteps ==
  ASSUME TypeOK, [Next]_vars
  PROVE  \/ Load \/ StartWatching \/ Validate \/ DebouncedReload
         \/ \E p \in Procs : ReadInConfig(p) \/ ReadFile(p) \/ Store(p) \/ Notify(p) \/ Notified(p)
         \/ \E p \in Reloaders : Reload(p) \/ TimerFires(p)
         \/ \E s \in Subscribers : Subscribe(s) \/ Receive(s)
         \/ UNCHANGED <<loaderVars, pc, config, viewed>> /\ debouncer' \in {debouncer, "nil"}
<1> USE DEF loaderVars, timerVars, subVars, historyVars
<1>1. ASSUME NEW p \in Procs, NEW s \in Subscribers, Send(p, s)
      PROVE  UNCHANGED <<loaderVars, timerVars, pc, config, viewed>>
  BY <1>1 DEF Send
<1>2. ASSUME NEW kind \in {"good", "rejected", "broken"}, WriteFile(kind)
      PROVE  UNCHANGED <<loaderVars, timerVars, pc, config, viewed>>
  BY <1>2 DEF WriteFile
<1>3. ASSUME NEW s \in Subscribers, Unsubscribe(s)
      PROVE  UNCHANGED <<loaderVars, timerVars, pc, config, viewed>>
  BY <1>3 DEF Unsubscribe
<1>4. ASSUME NEW k \in Stoppers, StopTimer(k)
      PROVE  UNCHANGED <<loaderVars, pc, config, viewed>> /\ debouncer' = "nil"
  BY <1>4 DEF StopTimer
<1>5. ASSUME NEW k \in Stoppers, StopLocks(k) \/ StopClose(k)
      PROVE  UNCHANGED <<loaderVars, timerVars, pc, config, viewed>>
  BY <1>5 DEF StopLocks, StopClose
<1>6. CASE UNCHANGED vars
  BY <1>6 DEF vars
<1> QED
  BY <1>1, <1>2, <1>3, <1>4, <1>5, <1>6 DEF Next, MainStep, ProcStep, Procs

\* The initial load, the reloads, and what is in use.
LEMMA LoadStep ==
  ASSUME TypeOK, MainInv, ReloadInv, CurrentInv, [Next]_vars
  PROVE  MainInv' /\ ReloadInv' /\ CurrentInv'
<1> USE ConfigAssumption, NoConfigAssumption
    DEF TypeOK, Goto, loaderVars, timerVars, subVars, historyVars, MainInv, ReloadInv,
        CurrentInv, Procs
<1>1. ASSUME Load
      PROVE  MainInv' /\ ReloadInv' /\ CurrentInv'
  BY <1>1 DEF Load
<1>2. ASSUME StartWatching \/ Validate
      PROVE  MainInv' /\ ReloadInv' /\ CurrentInv'
  BY <1>2 DEF StartWatching, Validate
<1>3. ASSUME NEW p \in Procs, ReadInConfig(p) \/ ReadFile(p)
      PROVE  MainInv' /\ ReloadInv' /\ CurrentInv'
  <2>1. /\ pc[p] \in {"readIn", "readFile"}
        /\ UNCHANGED <<current, validator, watching, debouncer, viewed>>
        /\ \/ pc' = [pc EXCEPT ![p] = "readFile"] /\ config' = config
           \/ /\ pc' = [pc EXCEPT ![p] = IF p = Main THEN "failed" ELSE "notify"]
              /\ config' = config
           \/ \E f \in File :
                /\ config' = [config EXCEPT ![p] = f]
                /\ pc' = [pc EXCEPT ![p] = IF p # Main /\ validator /\ Rejects(f)
                                           THEN "notify" ELSE "store"]
    BY <1>3, ReadEffect
  <2>2. MainInv'
    BY <2>1
  <2>3. ReloadInv'
    BY <2>1
  <2>4. CurrentInv'
    BY <2>1
  <2> QED BY <2>2, <2>3, <2>4
<1>4. ASSUME NEW p \in Procs, Store(p)
      PROVE  MainInv' /\ ReloadInv' /\ CurrentInv'
  <2>1. config[p] \in File /\ current' = config[p] /\ current' # NoConfig
    BY <1>4 DEF Store
  <2>2. CASE p = Main
    BY <1>4, <2>1, <2>2 DEF Store
  <2>3. CASE p # Main
    BY <1>4, <2>1, <2>3 DEF Store
  <2> QED BY <2>2, <2>3
<1>5. ASSUME NEW p \in Procs, Notify(p) \/ Notified(p)
      PROVE  MainInv' /\ ReloadInv' /\ CurrentInv'
  BY <1>5 DEF Notify, Notified
<1>6. ASSUME NEW p \in Reloaders, Reload(p) \/ TimerFires(p)
      PROVE  MainInv' /\ ReloadInv' /\ CurrentInv'
  BY <1>6 DEF Reload, TimerFires
<1>7. ASSUME DebouncedReload
      PROVE  MainInv' /\ ReloadInv' /\ CurrentInv'
  BY <1>7 DEF DebouncedReload
<1>8. ASSUME NEW s \in Subscribers, Subscribe(s) \/ Receive(s)
      PROVE  MainInv' /\ ReloadInv' /\ CurrentInv'
  BY <1>8 DEF Subscribe, Receive
<1>9. ASSUME UNCHANGED <<loaderVars, pc, config, viewed>>, debouncer' \in {debouncer, "nil"}
      PROVE  MainInv' /\ ReloadInv' /\ CurrentInv'
  BY <1>9
<1> HIDE DEF TypeOK, MainInv, ReloadInv, CurrentInv
<1> QED
  BY <1>1, <1>2, <1>3, <1>4, <1>5, <1>6, <1>7, <1>8, <1>9, QuietSteps

\* The list of subscribers, and the timer after Stop.
LEMMA SubStep ==
  ASSUME TypeOK, SubInv, NoPanic, NothingScheduledAfterStop, [Next]_vars
  PROVE  SubInv' /\ NoPanic' /\ NothingScheduledAfterStop'
<1> USE DEF TypeOK, loaderVars, timerVars, subVars, historyVars, SubInv, NoPanic,
            NothingScheduledAfterStop, NoReaders, CloseAll
<1>1. ASSUME NEW p \in Procs, Notify(p) \/ Notified(p)
      PROVE  SubInv' /\ NoPanic' /\ NothingScheduledAfterStop'
  BY <1>1 DEF Notify, Notified
<1>2. ASSUME NEW p \in Procs, NEW s \in Subscribers, Send(p, s)
      PROVE  SubInv' /\ NoPanic' /\ NothingScheduledAfterStop'
  <2>1. s \notin closed
    BY <1>2 DEF Send
  <2> QED BY <1>2, <2>1 DEF Send
<1>3. ASSUME NEW s \in Subscribers, Subscribe(s)
      PROVE  SubInv' /\ NoPanic' /\ NothingScheduledAfterStop'
  BY <1>3 DEF Subscribe
<1>4. ASSUME NEW s \in Subscribers, Unsubscribe(s)
      PROVE  SubInv' /\ NoPanic' /\ NothingScheduledAfterStop'
  BY <1>4 DEF Unsubscribe
<1>5. ASSUME NEW k \in Stoppers, StopTimer(k) \/ StopClose(k)
      PROVE  SubInv' /\ NoPanic' /\ NothingScheduledAfterStop'
  BY <1>5 DEF StopTimer, StopClose
<1>6. ASSUME DebouncedReload
      PROVE  SubInv' /\ NoPanic' /\ NothingScheduledAfterStop'
  BY <1>6 DEF DebouncedReload
<1>7. ASSUME UNCHANGED <<subscribers, closed, readers, todo, panicked, stopped>>,
             debouncer' \in {debouncer, "fired"}
      PROVE  SubInv' /\ NoPanic' /\ NothingScheduledAfterStop'
  BY <1>7
<1>8. ASSUME NEW p \in Procs, Reload(p) \/ TimerFires(p) \/ ReadInConfig(p) \/ ReadFile(p) \/ Store(p)
      PROVE  /\ UNCHANGED <<subscribers, closed, readers, todo, panicked, stopped>>
             /\ debouncer' \in {debouncer, "fired"}
  BY <1>8 DEF Reload, TimerFires, ReadInConfig, ReadFile, Store
<1>9. ASSUME Load \/ StartWatching \/ Validate \/ UNCHANGED vars
      PROVE  /\ UNCHANGED <<subscribers, closed, readers, todo, panicked, stopped>>
             /\ debouncer' = debouncer
  BY <1>9 DEF Load, StartWatching, Validate, vars
<1>10. ASSUME NEW kind \in {"good", "rejected", "broken"}, WriteFile(kind)
       PROVE  /\ UNCHANGED <<subscribers, closed, readers, todo, panicked, stopped>>
              /\ debouncer' = debouncer
  BY <1>10 DEF WriteFile
<1>11. ASSUME NEW s \in Subscribers, Receive(s)
       PROVE  /\ UNCHANGED <<subscribers, closed, readers, todo, panicked, stopped>>
              /\ debouncer' = debouncer
  BY <1>11 DEF Receive
<1>12. ASSUME NEW k \in Stoppers, StopLocks(k)
       PROVE  /\ UNCHANGED <<subscribers, closed, readers, todo, panicked, stopped>>
              /\ debouncer' = debouncer
  BY <1>12 DEF StopLocks
<1> HIDE DEF TypeOK, SubInv, NoPanic, NothingScheduledAfterStop, CloseAll
<1> QED
  BY <1>1, <1>2, <1>3, <1>4, <1>5, <1>6, <1>7, <1>8, <1>9, <1>10, <1>11, <1>12
     DEF Next, MainStep, ProcStep, Procs

\* A subscriber that is behind has a signal waiting or under way.
LEMMA SignalStep ==
  ASSUME TypeOK, MainInv, ReloadInv, SubInv, SignalPending, [Next]_vars
  PROVE  SignalPending'
<1> USE ConfigAssumption DEF TypeOK, Goto, loaderVars, timerVars, subVars, historyVars,
                             SignalPending
<1>1. ASSUME NEW p \in Procs, ReadInConfig(p) \/ ReadFile(p)
      PROVE  SignalPending'
  <2>1. /\ pc[p] # "notify"
        /\ UNCHANGED <<current, viewed, channel, todo, subscribers>>
        /\ \A q \in Procs : q # p => pc'[q] = pc[q]
    BY <1>1, ReadEffect
  <2> QED BY <2>1 DEF Procs
<1>2. ASSUME NEW p \in Procs, Store(p)
      PROVE  SignalPending'
  <2>1. CASE p = Main
    BY <1>2, <2>1 DEF Store, MainInv
  <2>2. CASE p # Main
    BY <1>2, <2>2 DEF Store, Procs
  <2> QED BY <2>1, <2>2
<1>3. ASSUME NEW p \in Procs, Notify(p)
      PROVE  SignalPending'
  <2>1. p \in Reloaders
    BY <1>3 DEF Notify, MainInv, Procs
  <2> QED BY <1>3, <2>1 DEF Notify, Procs
<1>4. ASSUME NEW p \in Procs, Notified(p)
      PROVE  SignalPending'
  BY <1>4 DEF Notified, Procs
<1>5. ASSUME NEW p \in Procs, NEW s \in Subscribers, Send(p, s)
      PROVE  SignalPending'
  <2>1. channel'[s] > 0 /\ \A r \in Subscribers : r # s => channel'[r] = channel[r]
    BY <1>5 DEF Send
  <2>2. \A q \in Procs, r \in Subscribers : r # s /\ r \in todo[q] => r \in todo'[q]
    BY <1>5 DEF Send
  <2> QED BY <1>5, <2>1, <2>2 DEF Send, Procs
<1>6. ASSUME NEW s \in Subscribers, Subscribe(s) \/ Receive(s)
      PROVE  SignalPending'
  BY <1>6 DEF Subscribe, Receive
<1>7. ASSUME NEW p \in Reloaders, Reload(p) \/ TimerFires(p)
      PROVE  SignalPending'
  BY <1>7 DEF Reload, TimerFires, Procs
<1>8. ASSUME Load \/ StartWatching \/ Validate
      PROVE  SignalPending'
  BY <1>8 DEF Load, StartWatching, Validate, Procs
<1>9. ASSUME UNCHANGED <<current, viewed, channel, todo, pc>>, subscribers' \subseteq subscribers
      PROVE  SignalPending'
  BY <1>9
<1>10. ASSUME NEW s \in Subscribers, Unsubscribe(s)
       PROVE  /\ UNCHANGED <<current, viewed, channel, todo, pc>>
              /\ subscribers' \subseteq subscribers
  BY <1>10 DEF Unsubscribe
<1>11. ASSUME NEW kind \in {"good", "rejected", "broken"}, WriteFile(kind)
       PROVE  UNCHANGED <<current, viewed, channel, todo, pc, subscribers>>
  BY <1>11 DEF WriteFile
<1>12. ASSUME NEW k \in Stoppers, StopTimer(k) \/ StopLocks(k) \/ StopClose(k)
       PROVE  /\ UNCHANGED <<current, viewed, channel, todo, pc>>
              /\ subscribers' \subseteq subscribers
  BY <1>12 DEF StopTimer, StopLocks, StopClose
<1>13. ASSUME DebouncedReload \/ UNCHANGED vars
       PROVE  UNCHANGED <<current, viewed, channel, todo, pc, subscribers>>
  BY <1>13 DEF DebouncedReload, vars
<1> HIDE DEF TypeOK, SignalPending
<1> QED
  BY <1>1, <1>2, <1>3, <1>4, <1>5, <1>6, <1>7, <1>8, <1>9, <1>10, <1>11, <1>12, <1>13
     DEF Next, MainStep, ProcStep, Procs

\* Every reachable state satisfies the invariant.
LEMMA CInvHolds == Spec => []CInv
<1>1. Init => CInv
  BY CInvInit
<1>2. CInv /\ [Next]_vars => CInv'
  BY TypeStep, LoadStep, SubStep, SignalStep DEF CInv
<1> QED BY <1>1, <1>2, PTL DEF Spec

-----------------------------------------------------------------------------
(* What the loader guarantees. *)

\* config.Loader: no send on a closed channel and no second close, nothing in
\* use that the validator of a successful LoadWithValidation rejects, no timer
\* armed after Stop, no channel over its buffer.
THEOREM LoaderIsSound == Spec => []LoaderSound
<1>1. CInv => LoaderSound
  BY DEF CInv, LoaderSound, CurrentInv, OnlyValidated
<1> QED BY <1>1, CInvHolds, PTL

\* A subscriber of config.Loader that has not seen the current configuration
\* has an event waiting or about to be offered, also after its buffer
\* overflowed.
THEOREM SignalsAreNotLost == Spec => []SignalPending
<1>1. CInv => SignalPending
  BY DEF CInv
<1> QED BY <1>1, CInvHolds, PTL
=============================================================================
