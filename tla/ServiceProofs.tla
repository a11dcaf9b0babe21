---------------------------- MODULE ServiceProofs ----------------------------
(***************************************************************************)
(* Machine-checked proofs about Service: any number of replicas, crashes   *)
(* and starts, migrations and seed files; any error mappings, registered   *)
(* at any time; any connections and timeouts; any table, queries, page     *)
(* sizes and files, with rows that come and go.                            *)
(***************************************************************************)
EXTENDS Service, WellFoundedInduction, FiniteSetTheorems, FunctionTheorems, TLAPS

-----------------------------------------------------------------------------
(* Sets of numbers. *)

\* A set of natural numbers that is not empty has a smallest member, which Min
\* finds.
LEMMA MinExists ==
  ASSUME NEW S, S \subseteq Nat, S # {}
  PROVE  Min(S) \in S /\ \A y \in S : Min(S) <= y
<1> DEFINE R == {ss \in Nat \X Nat : ss[1] < ss[2]}
<1>1. R = OpToRel(<, Nat)
  BY DEF OpToRel
<1>2. IsWellFoundedOn(R, Nat)
  BY NatLessThanWellFounded, <1>1
<1> HIDE DEF R
<1>3. PICK x \in S : \A y \in S : ~ (<<y, x>> \in R)
  BY <1>2, WFMin
<1>4. ASSUME NEW y \in S, y < x
      PROVE  FALSE
  <2>1. <<y, x>> \in Nat \X Nat /\ <<y, x>>[1] < <<y, x>>[2]
    BY <1>4
  <2>2. <<y, x>> \in R
    BY <2>1 DEF R
  <2> QED BY <1>3, <2>2
<1>5. \A y \in S : x <= y
  BY <1>4
<1> QED BY <1>5 DEF Min

-----------------------------------------------------------------------------
(* The inductive invariant of the starts. *)

Places == {"down", "open", "new", "migrate", "lock", "up", "run", "populate", "ready"}
Boot == [pc : Places, tries : 0..RetryAttempts, ran : BOOLEAN, seed : 0..Seeds, starts : Nat]

StartType ==
  /\ schema \in [version : 0..LastVersion, dirty : BOOLEAN, holder : Replicas \union {None}]
  /\ done \in Seq(Nat)
  /\ boot \in [Replicas -> Boot]

\* Whoever migrates holds the database's lock, so it is alone; the schema is
\* dirty while a migration runs.
LockInv ==
  /\ \A r \in Replicas : boot[r].pc \in {"up", "run"} => schema.holder = r
  /\ \A r \in Replicas : boot[r].pc = "run" => schema.dirty
  /\ schema.dirty => schema.version > 0

StartInv == StartType /\ LockInv /\ OnceInOrder /\ MigratedBeforeUse

\* A replica at place that has just begun, or ended.
LEMMA DownPlace ==
  ASSUME NEW n \in Nat, NEW place \in Places
  PROVE  /\ [Down(n) EXCEPT !.pc = place] \in Boot
         /\ [Down(n) EXCEPT !.pc = place].pc = place
<1>1. 0 \in 0..RetryAttempts /\ 0 \in 0..Seeds
  BY MigratorAssumption
<1> DEFINE d == Down(n)
<1>2. d \in Boot
  BY <1>1 DEF Boot, Down, Places
<1> HIDE DEF d
<1>3. [d EXCEPT !.pc = place] \in Boot /\ [d EXCEPT !.pc = place].pc = place
  BY <1>2 DEF Boot
<1> QED BY <1>3 DEF d

\* Initially it holds.
LEMMA StartInit == MigratorInit => StartInv
BY MigratorAssumption
   DEF MigratorInit, StartInv, StartType, Boot, Places, Down, LockInv, OnceInOrder,
       MigratedBeforeUse

\* A replica that goes elsewhere than to "up" or "run" without touching the
\* schema preserves it, if it finds the schema up to date when it goes on to
\* populate or to serve.
LEMMA GotoKeeps ==
  ASSUME StartInv, NEW r \in Replicas, NEW b \in Boot, boot' = [boot EXCEPT ![r] = b],
         b.pc \notin {"up", "run"},
         b.pc \in {"populate", "ready"} => schema.version = LastVersion /\ ~schema.dirty,
         UNCHANGED done,
         \/ schema' = schema
         \/ schema.holder = r /\ schema' = [schema EXCEPT !.holder = None]
  PROVE  StartInv'
<1> USE MigratorAssumption DEF StartInv, StartType
<1>1. /\ schema' \in [version : 0..LastVersion, dirty : BOOLEAN, holder : Replicas \union {None}]
      /\ schema'.version = schema.version /\ schema'.dirty = schema.dirty
      /\ \A q \in Replicas : q # r /\ schema.holder = q => schema'.holder = q
  OBVIOUS
<1>2. StartType'
  BY <1>1
<1>3. LockInv'
  BY <1>1 DEF LockInv
<1>4. OnceInOrder'
  BY <1>1 DEF OnceInOrder
<1>5. MigratedBeforeUse'
  BY <1>1 DEF MigratedBeforeUse
<1> QED BY <1>2, <1>3, <1>4, <1>5

\* Every step of a start preserves it.
LEMMA StartStepKeeps ==
  ASSUME StartInv, NEW r \in Replicas, StartStep(r)
  PROVE  StartInv'
<1> USE MigratorAssumption DEF At
<1>1. boot[r] \in Boot /\ boot[r].starts \in Nat
  BY DEF StartInv, StartType, Boot
<1>2. \A place \in Places : [Down(boot[r].starts) EXCEPT !.pc = place] \in Boot
                            /\ [Down(boot[r].starts) EXCEPT !.pc = place].pc = place
  BY <1>1, DownPlace
<1>3. ASSUME NEW place \in Places \ {"up", "run"}, Goto(r, place), UNCHANGED done,
             place \in {"populate", "ready"} => schema.version = LastVersion /\ ~schema.dirty,
             \/ schema' = schema
             \/ schema.holder = r /\ schema' = [schema EXCEPT !.holder = None]
      PROVE  StartInv'
  <2> DEFINE b == [Down(boot[r].starts) EXCEPT !.pc = place]
  <2>1. b \in Boot /\ b.pc = place
    BY <1>2
  <2>2. boot' = [boot EXCEPT ![r] = b]
    BY <1>3 DEF Goto
  <2> HIDE DEF b
  <2> QED BY <1>3, <2>1, <2>2, GotoKeeps
<1>4. ASSUME Open(r)
      PROVE  StartInv'
  <2>1. CASE boot[r].tries < RetryAttempts /\ boot' = [boot EXCEPT ![r].tries = @ + 1]
    <3> DEFINE b == [boot[r] EXCEPT !.tries = @ + 1]
    <3>1. b \in Boot /\ b.pc = "open"
      BY <1>1, <1>4, <2>1 DEF Open, Boot
    <3>2. boot' = [boot EXCEPT ![r] = b]
      BY <2>1
    <3> HIDE DEF b
    <3> QED BY <1>4, <3>1, <3>2, GotoKeeps DEF Open
  <2>2. CASE Goto(r, "new") \/ Exit(r)
    BY <1>3, <1>4, <2>2 DEF Open, Exit, Places
  <2> QED BY <1>4, <2>1, <2>2 DEF Open
<1>5. ASSUME New(r) \/ Migrate(r)
      PROVE  StartInv'
  BY <1>3, <1>5 DEF New, Migrate, Exit, Places
<1>6. ASSUME Lock(r)
      PROVE  StartInv'
  <2>1. CASE schema.holder = None /\ schema' = [schema EXCEPT !.holder = r] /\ Goto(r, "up")
    <3>1. boot' \in [Replicas -> Boot] /\ boot'[r].pc = "up"
          /\ \A q \in Replicas : q # r => boot'[q] = boot[q]
      BY <1>2, <2>1 DEF Goto, StartInv, StartType, Places
    <3>2. /\ schema' \in [version : 0..LastVersion, dirty : BOOLEAN, holder : Replicas \union {None}]
          /\ schema'.version = schema.version /\ schema'.dirty = schema.dirty
          /\ schema'.holder = r
      BY <2>1 DEF StartInv, StartType
    <3>3. \A q \in Replicas : boot[q].pc \notin {"up", "run"}
      BY <2>1 DEF StartInv, LockInv
    <3>4. done' = done
      BY <1>6 DEF Lock
    <3>5. StartType' /\ LockInv'
      BY <3>1, <3>2, <3>3, <3>4 DEF StartInv, StartType, LockInv
    <3>6. OnceInOrder' /\ MigratedBeforeUse'
      BY <3>1, <3>2, <3>4 DEF StartInv, OnceInOrder, MigratedBeforeUse
    <3> QED BY <3>5, <3>6 DEF StartInv
  <2>2. CASE Exit(r) /\ UNCHANGED schema
    BY <1>3, <1>6, <2>2 DEF Lock, Exit, Places
  <2> QED BY <1>6, <2>1, <2>2 DEF Lock
<1>7. ASSUME Begin(r)
      PROVE  StartInv'
  <2>1. /\ boot' \in [Replicas -> Boot] /\ boot'[r].pc = "run"
        /\ \A q \in Replicas : q # r => boot'[q] = boot[q]
    BY <1>1, <1>7 DEF Begin, StartInv, StartType, Boot, Places
  <2>2. /\ schema' \in [version : 0..LastVersion, dirty : BOOLEAN, holder : Replicas \union {None}]
        /\ schema'.version = schema.version + 1 /\ schema'.dirty
        /\ schema'.holder = r /\ done' = done /\ ~schema.dirty /\ schema.version < LastVersion
    <3>1. /\ schema' = [schema EXCEPT !.version = @ + 1, !.dirty = TRUE]
          /\ schema.holder = r /\ done' = done /\ ~schema.dirty /\ schema.version < LastVersion
          /\ schema.version \in 0..LastVersion
      BY <1>7 DEF Begin, At, StartInv, StartType, LockInv
    <3>2. schema' = [version |-> schema.version + 1, dirty |-> TRUE, holder |-> r]
      BY <3>1 DEF StartInv, StartType
    <3>3. schema.version + 1 \in 0..LastVersion
      BY <3>1
    <3> QED BY <3>1, <3>2, <3>3
  <2>3. \A q \in Replicas : q # r => boot[q].pc \notin {"up", "run", "populate", "ready"}
    BY <1>7, <2>2 DEF Begin, StartInv, LockInv, MigratedBeforeUse
  <2>4. StartType' /\ LockInv' /\ MigratedBeforeUse'
    BY <2>1, <2>2, <2>3 DEF StartInv, StartType, LockInv, MigratedBeforeUse
  <2>5. OnceInOrder'
    BY <2>2 DEF StartInv, StartType, OnceInOrder
  <2> QED BY <2>4, <2>5 DEF StartInv
<1>8. ASSUME Run(r)
      PROVE  StartInv'
  <2>0. schema.holder = r /\ schema.dirty /\ schema.version \in 1..LastVersion
    BY <1>8 DEF Run, StartInv, StartType, LockInv
  <2>1. CASE /\ schema' = [schema EXCEPT !.dirty = FALSE]
             /\ done' = Append(done, schema.version)
             /\ boot' = [boot EXCEPT ![r].pc = "up", ![r].ran = TRUE]
    <3>1. /\ boot' \in [Replicas -> Boot] /\ boot'[r].pc = "up"
          /\ \A q \in Replicas : q # r => boot'[q] = boot[q]
      BY <1>1, <2>1 DEF StartInv, StartType, Boot, Places
    <3>2. /\ schema' \in [version : 0..LastVersion, dirty : BOOLEAN, holder : Replicas \union {None}]
          /\ schema'.version = schema.version /\ ~schema'.dirty /\ schema'.holder = r
      BY <2>0, <2>1 DEF StartInv, StartType
    <3>3. /\ done' \in Seq(Nat) /\ Len(done') = Len(done) + 1
          /\ \A i \in 1..Len(done') : done'[i] = IF i <= Len(done) THEN done[i] ELSE schema.version
          /\ Len(done) = schema.version - 1 /\ DOMAIN done' = 1..Len(done')
          /\ DOMAIN done = 1..Len(done) /\ Len(done) \in Nat
      BY <2>0, <2>1 DEF StartInv, StartType, OnceInOrder
    <3>4. OnceInOrder'
      BY <2>0, <3>2, <3>3 DEF StartInv, StartType, OnceInOrder
    <3>5. \A q \in Replicas : q # r => boot[q].pc \notin {"up", "run", "populate", "ready"}
      BY <2>0 DEF StartInv, LockInv, MigratedBeforeUse
    <3>6. StartType' /\ LockInv' /\ MigratedBeforeUse'
      BY <3>1, <3>2, <3>3, <3>5 DEF StartType, LockInv, MigratedBeforeUse
    <3> QED BY <3>4, <3>6 DEF StartInv
  <2>2. CASE schema' = [schema EXCEPT !.holder = None] /\ Exit(r) /\ UNCHANGED done
    BY <1>3, <2>0, <2>2 DEF Exit, Places
  <2> QED BY <1>8, <2>1, <2>2 DEF Run
<1>9. ASSUME Migrated(r)
      PROVE  StartInv'
  <2>1. schema.holder = r
    BY <1>9 DEF Migrated, StartInv, LockInv
  <2> QED BY <1>3, <1>9, <2>1 DEF Migrated, Exit, Places
<1>10. ASSUME Populate(r)
       PROVE  StartInv'
  <2>1. schema.version = LastVersion /\ ~schema.dirty /\ UNCHANGED <<schema, done>>
    BY <1>10 DEF Populate, StartInv, MigratedBeforeUse
  <2>2. CASE boot[r].seed < Seeds /\ boot' = [boot EXCEPT ![r].seed = @ + 1]
    <3> DEFINE b == [boot[r] EXCEPT !.seed = @ + 1]
    <3>1. b \in Boot /\ b.pc = "populate"
      BY <1>1, <1>10, <2>2 DEF Populate, Boot
    <3>2. boot' = [boot EXCEPT ![r] = b]
      BY <2>2
    <3> HIDE DEF b
    <3> QED BY <2>1, <3>1, <3>2, GotoKeeps
  <2>3. CASE Exit(r) \/ Goto(r, "ready")
    BY <1>3, <2>1, <2>3 DEF Exit, Places
  <2> QED BY <1>10, <2>2, <2>3 DEF Populate
<1> QED
  BY <1>4, <1>5, <1>6, <1>7, <1>8, <1>9, <1>10 DEF StartStep

\* So do starts, crashes, the end of a process and an operator's repair.
LEMMA LifeKeeps ==
  ASSUME StartInv,
         \/ \E r \in Replicas : Start(r) \/ Crash(r)
         \/ Exit(Main) /\ UNCHANGED <<schema, done>>
         \/ Repair
         \/ UNCHANGED migratorVars
  PROVE  StartInv'
<1> USE MigratorAssumption, ServiceAssumption
<1>1. ASSUME NEW r \in Replicas, Start(r)
      PROVE  StartInv'
  <2> DEFINE b == [Down(boot[r].starts + 1) EXCEPT !.pc = "open"]
  <2>1. b \in Boot /\ b.pc = "open"
    <3>1. boot[r].starts \in Nat
      BY DEF StartInv, StartType, Boot
    <3>2. boot[r].starts + 1 \in Nat /\ "open" \in Places
      BY <3>1 DEF Places
    <3> QED BY <3>2, DownPlace
  <2>2. boot' = [boot EXCEPT ![r] = b] /\ UNCHANGED <<schema, done>>
    BY <1>1 DEF Start
  <2> HIDE DEF b
  <2> QED BY <2>1, <2>2, GotoKeeps
<1>2. ASSUME NEW r \in Replicas, Crash(r)
      PROVE  StartInv'
  <2> DEFINE b == Down(boot[r].starts)
  <2>1. b \in Boot /\ b.pc = "down"
    BY DEF StartInv, StartType, Boot, Down, Places
  <2>2. boot' = [boot EXCEPT ![r] = b] /\ UNCHANGED done
    BY <1>2 DEF Crash
  <2>3. \/ schema' = schema
        \/ schema.holder = r /\ schema' = [schema EXCEPT !.holder = None]
    BY <1>2 DEF Crash, StartInv, StartType
  <2> HIDE DEF b
  <2> QED BY <2>1, <2>2, <2>3, GotoKeeps
<1>3. ASSUME Exit(Main), UNCHANGED <<schema, done>>
      PROVE  StartInv'
  <2> DEFINE b == [Down(boot[Main].starts) EXCEPT !.pc = "down"]
  <2>1. b \in Boot /\ b.pc = "down"
    <3>1. boot[Main].starts \in Nat /\ "down" \in Places
      BY DEF StartInv, StartType, Boot, Places
    <3> QED BY <3>1, DownPlace
  <2>2. boot' = [boot EXCEPT ![Main] = b]
    BY <1>3 DEF Exit, Goto
  <2> HIDE DEF b
  <2> QED BY <1>3, <2>1, <2>2, GotoKeeps
<1>4. ASSUME Repair
      PROVE  StartInv'
  <2>1. /\ schema.version \in 1..LastVersion /\ schema.dirty /\ boot' = boot
        /\ \A q \in Replicas : boot[q].pc \notin {"up", "run", "populate", "ready"}
    BY <1>4 DEF Repair, StartInv, StartType, LockInv, MigratedBeforeUse
  <2>2. /\ schema' \in [version : 0..LastVersion, dirty : BOOLEAN, holder : Replicas \union {None}]
        /\ ~schema'.dirty
        /\ \/ schema'.version = schema.version /\ done' = Append(done, schema.version)
           \/ schema'.version = schema.version - 1 /\ done' = done
    <3>1. CASE schema' = [schema EXCEPT !.dirty = FALSE] /\ done' = Append(done, schema.version)
      BY <2>1, <3>1 DEF StartInv, StartType
    <3>2. CASE schema' = [schema EXCEPT !.dirty = FALSE, !.version = @ - 1] /\ done' = done
      <4>1. schema' = [version |-> schema.version - 1, dirty |-> FALSE, holder |-> schema.holder]
        BY <3>2 DEF StartInv, StartType
      <4>2. schema.version - 1 \in 0..LastVersion /\ schema.holder \in Replicas \union {None}
        BY <2>1 DEF StartInv, StartType
      <4> QED BY <3>2, <4>1, <4>2
    <3> QED BY <1>4, <3>1, <3>2 DEF Repair
  <2>3. OnceInOrder' /\ done' \in Seq(Nat)
    <3>1. CASE schema'.version = schema.version /\ done' = Append(done, schema.version)
      <4>1. /\ done' \in Seq(Nat) /\ Len(done') = Len(done) + 1
            /\ \A i \in 1..Len(done') : done'[i] = IF i <= Len(done) THEN done[i] ELSE schema.version
            /\ Len(done) = schema.version - 1 /\ DOMAIN done' = 1..Len(done')
            /\ DOMAIN done = 1..Len(done) /\ Len(done) \in Nat
        BY <2>1, <3>1 DEF StartInv, StartType, OnceInOrder
      <4> QED BY <2>1, <2>2, <3>1, <4>1 DEF StartInv, OnceInOrder
    <3>2. CASE schema'.version = schema.version - 1 /\ done' = done
      BY <2>1, <2>2, <3>2 DEF StartInv, StartType, OnceInOrder
    <3> QED BY <2>2, <3>1, <3>2
  <2>4. StartType' /\ LockInv' /\ MigratedBeforeUse'
    BY <2>1, <2>2, <2>3 DEF StartInv, StartType, LockInv, MigratedBeforeUse
  <2> QED BY <2>3, <2>4 DEF StartInv
<1>5. ASSUME UNCHANGED migratorVars
      PROVE  StartInv'
  BY <1>5 DEF migratorVars, StartInv, StartType, LockInv, OnceInOrder, MigratedBeforeUse
<1> QED BY <1>1, <1>2, <1>3, <1>4, <1>5

-----------------------------------------------------------------------------
(* The inductive invariant of the health report. *)

ProbeType == [status : {"pending", "healthy", "unhealthy"}, conn : Conns \union {NoConn}, left : Int]

\* The fields of a report.
IsReport(r) == r = [busy |-> r.busy, age |-> r.age, timeout |-> r.timeout,
                    snapshot |-> r.snapshot, probe |-> r.probe]

\* A report in progress: its probes are those of its snapshot, a pending one has
\* just the rest of the common timeout left, and the others have their own
\* connection.
Reporting ==
  /\ IsReport(report) /\ report.busy = TRUE
  /\ report.age \in Nat /\ report.timeout \in Nat /\ report.age <= report.timeout
  /\ report.probe \in [DOMAIN report.probe -> ProbeType]
  /\ \A n \in DOMAIN report.probe :
       /\ report.snapshot[n] \in Conns \union {NoConn} /\ report.snapshot[n] # NoConn
       /\ IF report.probe[n].status = "pending"
          THEN report.probe[n].left = report.timeout - report.age
          ELSE report.probe[n].conn = report.snapshot[n]

HealthInv ==
  /\ databases \in [Names -> Conns \union {NoConn}]
  /\ pingTimeout \in Nat \ {0}
  /\ report = NoReport \/ Reporting

\* Initially it holds.
LEMMA HealthStarts == HealthInit => HealthInv
BY HealthAssumption DEF HealthInit, HealthInv

\* Changes of the registry do not touch a report.
LEMMA RegistryKeeps ==
  ASSUME HealthInv,
         \/ \E n \in Names, c \in Conns : AddDB(n, c)
         \/ \E n \in Names : RemoveDB(n)
         \/ \E d \in Timeouts : SetPingTimeout(d)
  PROVE  HealthInv'
<1>1. report' = report
  BY DEF AddDB, RemoveDB, SetPingTimeout
<1>2. Reporting => Reporting'
  BY <1>1 DEF Reporting
<1>3. databases' \in [Names -> Conns \union {NoConn}] /\ pingTimeout' \in Nat \ {0}
  BY HealthAssumption DEF HealthInv, AddDB, RemoveDB, SetPingTimeout
<1> QED BY <1>1, <1>2, <1>3 DEF HealthInv

\* The snapshot of Report or CheckDB.
LEMMA SnapshotKeeps ==
  ASSUME HealthInv, NEW names \in SUBSET Registered, Snapshot(names)
  PROVE  HealthInv'
<1> DEFINE snapshot == [n \in names |-> databases[n]]
<1> DEFINE probe == [n \in names |-> [status |-> "pending", conn |-> NoConn, left |-> pingTimeout]]
<1>1. /\ report' = [busy |-> TRUE, age |-> 0, timeout |-> pingTimeout,
                    snapshot |-> snapshot, probe |-> probe]
      /\ UNCHANGED <<databases, pingTimeout>>
  BY DEF Snapshot
<1>2. /\ DOMAIN probe = names /\ probe \in [names -> ProbeType]
      /\ \A n \in names : probe[n].status = "pending" /\ probe[n].left = pingTimeout
  BY DEF HealthInv, ProbeType
<1>3. \A n \in names : snapshot[n] \in Conns \union {NoConn} /\ snapshot[n] # NoConn
  BY DEF HealthInv, Registered
<1> HIDE DEF snapshot, probe
<1>4. /\ IsReport(report)' /\ report'.busy = TRUE
      /\ report'.age = 0 /\ report'.timeout = pingTimeout /\ report'.snapshot = snapshot
      /\ report'.probe = probe
  BY <1>1 DEF IsReport
<1>5. Reporting'
  BY <1>1, <1>2, <1>3, <1>4 DEF Reporting, HealthInv
<1> QED BY <1>1, <1>5 DEF HealthInv

\* A probe ends.
LEMMA ProbeKeeps ==
  ASSUME HealthInv, NEW n \in Names, ProbeDB(n)
  PROVE  HealthInv'
<1>1. Reporting /\ n \in DOMAIN report.probe /\ UNCHANGED <<databases, pingTimeout>>
  BY DEF HealthInv, ProbeDB, Started, Pending, NoReport
<1>2. PICK status \in {"healthy", "unhealthy"} :
        report' = [report EXCEPT !.probe[n] = [status |-> status, conn |-> report.snapshot[n],
                                               left |-> report.probe[n].left]]
  BY DEF ProbeDB
<1> DEFINE p == [status |-> status, conn |-> report.snapshot[n], left |-> report.probe[n].left]
<1>3. p \in ProbeType /\ p.status = status /\ p.conn = report.snapshot[n]
  BY <1>1 DEF Reporting, ProbeType
<1> DEFINE probe == [report.probe EXCEPT ![n] = p]
<1>4. report' = [report EXCEPT !.probe = probe]
  BY <1>2
<1> HIDE DEF p, probe
<1>5. /\ IsReport(report)' /\ report'.busy = TRUE
      /\ report'.age = report.age /\ report'.timeout = report.timeout
      /\ report'.snapshot = report.snapshot /\ report'.probe = probe
  <2>1. IsReport(report) /\ report.busy = TRUE
    BY <1>1 DEF Reporting
  <2> QED BY <1>4, <2>1 DEF IsReport
<1>6. report'.probe = [report.probe EXCEPT ![n] = p]
  BY <1>5 DEF probe
<1>7. /\ DOMAIN report'.probe = DOMAIN report.probe
      /\ report'.probe[n] = p
      /\ \A m \in DOMAIN report.probe : m # n => report'.probe[m] = report.probe[m]
  BY <1>1, <1>6 DEF Reporting
<1>8. report'.probe \in [DOMAIN report'.probe -> ProbeType]
  BY <1>1, <1>3, <1>6, <1>7 DEF Reporting
<1>9. Reporting'
  BY <1>1, <1>3, <1>5, <1>6, <1>7, <1>8 DEF Reporting
<1> QED BY <1>1, <1>9 DEF HealthInv

\* Time passes.
LEMMA TickKeeps ==
  ASSUME HealthInv, Tick
  PROVE  HealthInv'
<1>1. Reporting /\ UNCHANGED <<databases, pingTimeout>>
  <2>1. Pending # {} /\ UNCHANGED <<databases, pingTimeout>>
    BY DEF Tick
  <2>2. report # NoReport
    BY <2>1 DEF Pending, NoReport
  <2> QED BY <2>1, <2>2 DEF HealthInv
<1> DEFINE probe == [n \in DOMAIN report.probe |->
                       IF n \in Pending THEN [report.probe[n] EXCEPT !.left = @ - 1]
                       ELSE report.probe[n]]
<1>2. report' = [report EXCEPT !.age = @ + 1, !.probe = probe]
  BY DEF Tick, Started
<1>3. /\ DOMAIN probe = DOMAIN report.probe
      /\ \A n \in DOMAIN report.probe :
           /\ probe[n] \in ProbeType /\ probe[n].status = report.probe[n].status
           /\ probe[n].conn = report.probe[n].conn
           /\ probe[n].status = "pending" => probe[n].left = report.probe[n].left - 1
  BY <1>1 DEF Reporting, ProbeType, Pending
<1>4. report.age < report.timeout
  <2>1. PICK n \in Pending : report.probe[n].left > 0
    BY DEF Tick, Started
  <2> QED BY <1>1, <2>1 DEF Reporting, Pending
<1> HIDE DEF probe
<1>5. /\ IsReport(report)' /\ report'.busy = TRUE
      /\ report'.age = report.age + 1 /\ report'.timeout = report.timeout
      /\ report'.snapshot = report.snapshot /\ report'.probe = probe
  <2>1. IsReport(report) /\ report.busy = TRUE
    BY <1>1 DEF Reporting
  <2> QED BY <1>2, <2>1 DEF IsReport
<1>6. probe \in [DOMAIN probe -> ProbeType]
  BY <1>3 DEF probe
<1>7. Reporting'
  BY <1>1, <1>2, <1>3, <1>4, <1>5, <1>6 DEF Reporting
<1> QED BY <1>1, <1>7 DEF HealthInv

-----------------------------------------------------------------------------
(* The error mappings. *)

\* Every entry is valid, can be rendered, and no two are equivalent.
Mapping(list) ==
  /\ \A i \in DOMAIN list : Validate(list[i]) /\ list[i].status \in 100..599
  /\ \A i, j \in DOMAIN list :
       i # j => ~(Is(list[i].err, list[j].err) /\ Is(list[j].err, list[i].err))

\* What normalising a valid entry yields.
LEMMA NormalizedValid ==
  ASSUME NEW e \in Err, Validate(e)
  PROVE  /\ Normalized(e) \in Err /\ Validate(Normalized(e))
         /\ Normalized(e).status \in 100..599 /\ Normalized(e).err = e.err
<1>1. e.err \in Sentinels /\ e.status \in Int /\ e.ok \in BOOLEAN
  BY DEF Err
<1> DEFINE n == Normalized(e)
<1>2. /\ n.err = e.err /\ n.ok = e.ok
      /\ n.status = IF e.status = 0 THEN 500 ELSE e.status
  BY DEF Normalized
<1>3. n.status \in 100..599 /\ n.status \in Int
  BY <1>2 DEF Validate
<1>4. n \in Err
  BY <1>1, <1>3 DEF Normalized, Err
<1> HIDE DEF n
<1>5. Validate(n)
  BY <1>2, <1>3 DEF Validate
<1> QED BY <1>2, <1>3, <1>4, <1>5 DEF n

\* What a concatenation holds, and where.
LEMMA ConcatIs ==
  ASSUME NEW S, NEW a \in Seq(S), NEW b \in Seq(S)
  PROVE  /\ a \o b \in Seq(S) /\ Len(a \o b) = Len(a) + Len(b)
         /\ \A i \in 1..Len(a) : (a \o b)[i] = a[i]
         /\ \A i \in 1..Len(b) : (a \o b)[Len(a) + i] = b[i]
OBVIOUS

\* AddEntries extends the list, whatever is in the batch and wherever it stops,
\* and the mapping stays one.
LEMMA AddedKeeps ==
  ASSUME NEW list \in Seq(Err), Mapping(list), NEW batch \in Seq(Err)
  PROVE  LET new == Added(list, batch).list
         IN  /\ new \in Seq(Err) /\ Mapping(new)
             /\ Len(list) <= Len(new)
             /\ \A i \in 1..Len(list) : new[i] = list[i]
<1> DEFINE bad == {i \in DOMAIN batch : \/ ~Validate(batch[i])
                                        \/ Alias(list \o SubSeq(batch, 1, i - 1), batch[i].err)}
<1> DEFINE kept == IF bad = {} THEN batch ELSE SubSeq(batch, 1, Min(bad) - 1)
<1> DEFINE add == [i \in DOMAIN kept |-> Normalized(kept[i])]
<1> DEFINE new == list \o add
<1>1. Added(list, batch).list = new
  BY DEF Added
<1>2. /\ kept \in Seq(Err) /\ Len(kept) \in 0..Len(batch)
      /\ \A i \in 1..Len(kept) : kept[i] = batch[i] /\ i \notin bad
  <2>1. CASE bad = {}
    BY <2>1
  <2>2. CASE bad # {}
    <3>1. bad \subseteq 1..Len(batch) /\ bad \subseteq Nat
      OBVIOUS
    <3> HIDE DEF bad
    <3>2. Min(bad) \in bad /\ \A y \in bad : Min(bad) <= y
      BY <2>2, <3>1, MinExists
    <3> DEFINE m == Min(bad)
    <3>3. m \in 1..Len(batch) /\ \A y \in bad : m <= y
      BY <3>1, <3>2
    <3> HIDE DEF m
    <3>4. kept = SubSeq(batch, 1, m - 1)
      BY <2>2 DEF m
    <3>5. /\ SubSeq(batch, 1, m - 1) \in Seq(Err) /\ Len(SubSeq(batch, 1, m - 1)) = m - 1
          /\ \A i \in 1..(m - 1) : SubSeq(batch, 1, m - 1)[i] = batch[i]
      BY <3>3
    <3> HIDE DEF kept
    <3>6. Len(batch) \in Nat /\ Len(kept) = m - 1 /\ kept \in Seq(Err)
      BY <3>4, <3>5
    <3>7. Len(kept) \in 0..Len(batch)
      BY <3>3, <3>6
    <3>8. ASSUME NEW i \in 1..Len(kept)
          PROVE  kept[i] = batch[i] /\ i \notin bad
      <4>1. i \in 1..(m - 1) /\ i < m /\ ~(m <= i)
        BY <3>3, <3>6
      <4> QED BY <3>3, <3>4, <3>5, <4>1
    <3> QED BY <3>6, <3>7, <3>8
  <2> QED BY <2>1, <2>2
<1>3. ASSUME NEW i \in 1..Len(kept)
      PROVE  /\ batch[i] \in Err /\ Validate(batch[i])
             /\ \A j \in 1..Len(list) : ~(Is(batch[i].err, list[j].err) /\ Is(list[j].err, batch[i].err))
             /\ \A j \in 1..(i - 1) : ~(Is(batch[i].err, batch[j].err) /\ Is(batch[j].err, batch[i].err))
  <2>1. i \in DOMAIN batch /\ i \notin bad /\ Len(batch) \in Nat /\ i \in 1..Len(batch)
    BY <1>2
  <2>2. Validate(batch[i]) /\ ~Alias(list \o SubSeq(batch, 1, i - 1), batch[i].err)
    BY <2>1
  <2> DEFINE pre == SubSeq(batch, 1, i - 1)
  <2>3. /\ pre \in Seq(Err) /\ Len(pre) = i - 1
        /\ \A j \in 1..(i - 1) : pre[j] = batch[j]
    BY <2>1
  <2> HIDE DEF pre
  <2> DEFINE all == list \o pre
  <2>4. /\ all \in Seq(Err) /\ Len(all) = Len(list) + i - 1
        /\ \A j \in 1..Len(list) : all[j] = list[j]
        /\ \A j \in 1..(i - 1) : all[Len(list) + j] = batch[j]
    <3>1. /\ all \in Seq(Err) /\ Len(all) = Len(list) + Len(pre)
          /\ \A j \in 1..Len(list) : all[j] = list[j]
          /\ \A j \in 1..Len(pre) : all[Len(list) + j] = pre[j]
      <4>1. list \in Seq(Err) /\ pre \in Seq(Err)
        BY <2>3
      <4> QED BY <4>1, ConcatIs
    <3> HIDE DEF all
    <3>2. Len(list) \in Nat
      OBVIOUS
    <3> QED BY <2>3, <3>1, <3>2
  <2>5. ~Alias(all, batch[i].err)
    BY <2>2 DEF pre
  <2> HIDE DEF all
  <2>6. \A j \in 1..Len(all) : ~(Is(batch[i].err, all[j].err) /\ Is(all[j].err, batch[i].err))
    BY <2>4, <2>5 DEF Alias
  <2>7. /\ \A j \in 1..Len(list) : j \in 1..Len(all)
        /\ \A j \in 1..(i - 1) : Len(list) + j \in 1..Len(all)
    BY <2>1, <2>4
  <2>8. batch[i] \in Err
    BY <2>1
  <2>9. ASSUME NEW j \in 1..Len(list)
        PROVE  ~(Is(batch[i].err, list[j].err) /\ Is(list[j].err, batch[i].err))
    <3>1. j \in 1..Len(all) /\ all[j] = list[j]
      BY <2>4, <2>7
    <3> QED BY <2>6, <3>1
  <2>10. ASSUME NEW j \in 1..(i - 1)
         PROVE  ~(Is(batch[i].err, batch[j].err) /\ Is(batch[j].err, batch[i].err))
    <3>1. Len(list) + j \in 1..Len(all) /\ all[Len(list) + j] = batch[j]
      BY <2>4, <2>7
    <3> QED BY <2>6, <3>1
  <2> QED BY <2>2, <2>8, <2>9, <2>10
<1> HIDE DEF kept, bad
<1>4. /\ DOMAIN kept = 1..Len(kept) /\ Len(kept) \in Nat
      /\ \A i \in 1..Len(kept) : kept[i] = batch[i]
  BY <1>2
<1>5. \A i \in 1..Len(kept) : /\ add[i] = Normalized(batch[i])
                              /\ add[i] \in Err /\ Validate(add[i])
                              /\ add[i].status \in 100..599 /\ add[i].err = batch[i].err
  BY <1>3, <1>4, NormalizedValid
<1>6. add \in Seq(Err) /\ Len(add) = Len(kept)
  BY <1>4, <1>5
<1> HIDE DEF add
<1>7. /\ new \in Seq(Err) /\ Len(new) = Len(list) + Len(kept)
      /\ \A i \in 1..Len(list) : new[i] = list[i]
      /\ \A i \in 1..Len(new) : i > Len(list) => new[i] = add[i - Len(list)]
  <2>1. /\ new \in Seq(Err) /\ Len(new) = Len(list) + Len(add)
        /\ \A i \in 1..Len(list) : new[i] = list[i]
        /\ \A i \in 1..Len(add) : new[Len(list) + i] = add[i]
    <3>1. list \in Seq(Err) /\ add \in Seq(Err)
      BY <1>6
    <3> QED BY <3>1, ConcatIs
  <2> HIDE DEF new
  <2>2. ASSUME NEW i \in 1..Len(new), i > Len(list)
        PROVE  new[i] = add[i - Len(list)]
    <3>1. Len(list) \in Nat /\ Len(add) \in Nat
      BY <1>6
    <3>2. i - Len(list) \in 1..Len(add) /\ Len(list) + (i - Len(list)) = i
      BY <2>1, <2>2, <3>1
    <3> QED BY <2>1, <3>2
  <2> QED BY <1>6, <2>1, <2>2
<1> HIDE DEF new
<1>8. \A i \in 1..Len(new) : Validate(new[i]) /\ new[i].status \in 100..599
  <2> TAKE i \in 1..Len(new)
  <2>0. Len(list) \in Nat /\ DOMAIN list = 1..Len(list) /\ Len(new) \in Nat
    BY <1>7
  <2>1. CASE i <= Len(list)
    <3>1. i \in 1..Len(list)
      BY <2>0, <2>1
    <3> QED BY ZenonT(40), <1>7, <2>0, <3>1 DEF Mapping
  <2>2. CASE i > Len(list)
    <3>1. i - Len(list) \in 1..Len(kept)
      BY <1>4, <1>7, <2>0, <2>2
    <3> QED BY ZenonT(40), <1>5, <1>7, <2>2, <3>1
  <2> QED BY <2>1, <2>2
<1>9. ASSUME NEW i \in 1..Len(new), NEW j \in 1..Len(new), j < i
      PROVE  ~(Is(new[i].err, new[j].err) /\ Is(new[j].err, new[i].err))
  <2>0. Len(list) \in Nat /\ DOMAIN list = 1..Len(list)
    OBVIOUS
  <2>1. CASE i <= Len(list)
    <3>1. i \in DOMAIN list /\ j \in DOMAIN list /\ i # j
      BY <1>9, <2>0, <2>1
    <3> QED BY <1>7, <2>0, <3>1 DEF Mapping
  <2>2. CASE i > Len(list)
    <3> DEFINE k == i - Len(list)
    <3>0. k \in 1..Len(kept) /\ new[i] = add[k]
      BY <1>4, <1>7, <2>0, <2>2
    <3>1. k \in 1..Len(kept) /\ new[i] = add[k] /\ new[i].err = batch[k].err
      <4> HIDE DEF k
      <4> QED BY <1>5, <3>0
    <3>2. CASE j <= Len(list)
      <4>1. j \in 1..Len(list) /\ new[j] = list[j]
        BY <1>7, <2>0, <3>2
      <4> QED BY <1>3, <3>1, <4>1
    <3>3. CASE j > Len(list)
      <4> DEFINE l == j - Len(list)
      <4>1. l \in 1..Len(kept) /\ l \in 1..(k - 1)
        BY <1>4, <1>7, <1>9, <2>0, <2>2, <3>3
      <4>2. new[j].err = batch[l].err
        <5>1. new[j] = add[l]
          BY <1>7, <1>9, <3>3
        <5> HIDE DEF l
        <5>2. add[l].err = batch[l].err
          BY <1>5, <4>1
        <5> QED BY <5>1, <5>2
      <4> QED BY <1>3, <3>1, <4>1, <4>2
    <3> QED BY <3>2, <3>3
  <2> QED BY <2>0, <2>1, <2>2
<1>10. Mapping(new)
  <2>1. DOMAIN new = 1..Len(new) /\ Len(new) \in Nat
    BY <1>7
  <2>2. ASSUME NEW i \in 1..Len(new), NEW j \in 1..Len(new), i # j
        PROVE  ~(Is(new[i].err, new[j].err) /\ Is(new[j].err, new[i].err))
    <3>1. j < i \/ i < j
      BY <2>1, <2>2
    <3> QED BY <1>9, <3>1
  <2>3. \A i \in DOMAIN new : Validate(new[i]) /\ new[i].status \in 100..599
    BY ZenonT(40), <1>8, <2>1
  <2>4. ASSUME NEW i \in DOMAIN new, NEW j \in DOMAIN new, i # j
        PROVE  ~(Is(new[i].err, new[j].err) /\ Is(new[j].err, new[i].err))
    BY ZenonT(40), <2>1, <2>2, <2>4
  <2> QED BY ZenonT(40), <2>3, <2>4 DEF Mapping
<1> QED BY <1>1, <1>7, <1>10, <1>4

\* Lookup returns the first entry that matches.
LEMMA LookupFirst ==
  ASSUME NEW list \in Seq(Err), NEW err
  PROVE  /\ Lookup(list, err) \in 0..Len(list)
         /\ Lookup(list, err) # 0 => Is(err, list[Lookup(list, err)].err)
         /\ \A j \in 1..Len(list) : Is(err, list[j].err) => Lookup(list, err) \in 1..j
<1> DEFINE I == {i \in 1..Len(list) : Is(err, list[i].err)}
<1>1. Lookup(list, err) = IF I # {} THEN Min(I) ELSE 0
  BY DEF Lookup, SelectInSeq
<1>2. CASE I = {}
  BY <1>1, <1>2
<1>3. CASE I # {}
  <2>1. I \subseteq Nat
    OBVIOUS
  <2>2. Min(I) \in I /\ \A y \in I : Min(I) <= y
    BY <1>3, <2>1, MinExists
  <2> DEFINE m == Min(I)
  <2>3. Lookup(list, err) = m /\ m \in I /\ \A y \in I : m <= y
    BY <1>1, <1>3, <2>2
  <2> HIDE DEF m
  <2> QED BY <2>3
<1> QED BY <1>2, <1>3

-----------------------------------------------------------------------------
(* The inductive invariant of the server and its request. *)

\* The fields of a request.
IsReq(r) == r = [route |-> r.route, err |-> r.err, before |-> r.before, hit |-> r.hit,
                 status |-> r.status, step |-> r.step, export |-> r.export, file |-> r.file]

\* A server that was built.
Built == server = [state |-> server.state, config |-> server.config] /\ server.state # "none"
ServerInv == server = NoServer \/ Built

RegistryInv == entries \in Seq(Err) /\ Mapping(entries) /\ fallback.status \in 100..599

\* None of the entries that were there when the request came in matches its
\* error, or the one it was answered with is the first that does.
NoMatch == \A i \in 1..req.before : ~Is(req.err, entries[i].err)
FirstMatch ==
  \A i \in 1..req.before :
    Is(req.err, entries[i].err) => req.hit \in 1..i /\ Is(req.err, entries[req.hit].err)

\* A request in flight: those entries still are the first ones, and between the
\* two locks of Resolve it remembers that none of them matches.
InFlight ==
  /\ IsReq(req) /\ req.route # "idle"
  /\ server.state \in {"listening", "draining", "closed"}
  /\ req.before \in 0..Len(entries)
  /\ req.step = "fallback" => NoMatch
  /\ req.step = "out" => /\ req.status \in 100..599
                         /\ req.route \in {"api", "check"} /\ req.status # 200 => FirstMatch

ReqInv == req = NoReq \/ InFlight

SInv == StartInv /\ HealthInv /\ ServerInv /\ RegistryInv /\ ReqInv

\* What the steps of a request keep besides the fields they assign.
Same(r, s) == r.route = s.route /\ r.err = s.err /\ r.before = s.before

\* A step that changes neither the server nor the registry, nor the request.
LEMMA FrameKeeps ==
  ASSUME ServerInv, RegistryInv, ReqInv, UNCHANGED <<entries, fallback, server, req>>
  PROVE  ServerInv' /\ RegistryInv' /\ ReqInv'
BY DEF ServerInv, Built, RegistryInv, ReqInv, InFlight, NoMatch, FirstMatch

\* The process ends.
LEMMA ForgetKeeps ==
  ASSUME Forget
  PROVE  HealthInv' /\ ServerInv' /\ RegistryInv' /\ ReqInv'
<1>1. HealthInv'
  BY HealthAssumption DEF Forget, HealthInv
<1>2. entries' \in Seq(Err) /\ Mapping(entries')
  BY DEF Forget, Mapping
<1>3. fallback'.status \in 100..599
  BY DEF Forget, DefaultFallback
<1> QED BY <1>1, <1>2, <1>3 DEF Forget, ServerInv, RegistryInv, ReqInv

\* The server goes on to another state.
LEMMA ServerKeeps ==
  ASSUME ServerInv, RegistryInv, ReqInv, UNCHANGED <<entries, fallback, req>>,
         NEW s \in {"listening", "draining", "closed"},
         server' = [server EXCEPT !.state = s], server.state # "none"
  PROVE  ServerInv' /\ RegistryInv' /\ ReqInv'
<1>1. Built
  BY DEF ServerInv, NoServer
<1>2. server' = [state |-> s, config |-> server.config] /\ server'.state = s
  BY <1>1 DEF Built
<1>3. Built'
  BY <1>2 DEF Built
<1>4. ReqInv'
  BY <1>2 DEF ReqInv, InFlight, NoMatch, FirstMatch
<1>5. RegistryInv'
  BY DEF RegistryInv
<1> QED BY <1>3, <1>4, <1>5 DEF ServerInv

\* NewGin.
LEMMA BuildKeeps ==
  ASSUME ServerInv, RegistryInv, ReqInv, HealthInv, NEW c \in Configs, Build(c)
  PROVE  HealthInv' /\ ServerInv' /\ RegistryInv' /\ ReqInv'
<1> DEFINE new == Added(<<>>, BootBatch).list
<1>1. \/ Forget
      \/ /\ server = NoServer /\ server' = [state |-> "built", config |-> c]
         /\ entries' = new
         /\ UNCHANGED <<fallback, healthVars, req>>
  BY DEF Build
<1>2. new \in Seq(Err) /\ Mapping(new)
  <2>1. <<>> \in Seq(Err) /\ Mapping(<<>>)
    BY DEF Mapping
  <2> QED BY <2>1, ServiceAssumption, AddedKeeps
<1> HIDE DEF new
<1>3. ASSUME server = NoServer, server' = [state |-> "built", config |-> c],
             entries' = new, UNCHANGED <<fallback, healthVars, req>>
      PROVE  HealthInv' /\ ServerInv' /\ RegistryInv' /\ ReqInv'
  <2>1. Built'
    BY <1>3 DEF Built
  <2>2. req = NoReq
    BY <1>3 DEF ReqInv, InFlight, NoServer
  <2>3. RegistryInv'
    BY <1>2, <1>3 DEF RegistryInv
  <2>4. HealthInv'
    BY <1>3 DEF healthVars, HealthInv, Reporting
  <2> QED BY <1>3, <2>1, <2>2, <2>3, <2>4 DEF ServerInv, ReqInv
<1> QED BY <1>1, <1>3, ForgetKeeps

\* A request arrives.
LEMMA ArrivesKeeps ==
  ASSUME ServerInv, RegistryInv, NEW route, route # "idle", NEW err, NEW export,
         Arrives(route, err, export), UNCHANGED <<entries, fallback, server>>
  PROVE  ServerInv' /\ RegistryInv' /\ ReqInv'
<1>1. /\ req' = [route |-> route, err |-> err, before |-> Len(entries), hit |-> 0,
                 status |-> 0, step |-> "in", export |-> export, file |-> None]
      /\ server.state = "listening"
  BY DEF Arrives
<1>2. IsReq(req)' /\ req'.route = route /\ req'.before = Len(entries) /\ req'.step = "in"
  BY <1>1 DEF IsReq
<1>3. InFlight'
  BY <1>1, <1>2 DEF InFlight, RegistryInv
<1>4. ServerInv' /\ RegistryInv'
  BY DEF ServerInv, Built, RegistryInv
<1> QED BY <1>3, <1>4 DEF ReqInv

\* A request goes on: it is decided, or is not.
LEMMA ReqKeeps ==
  ASSUME ServerInv, RegistryInv, InFlight, UNCHANGED <<entries, fallback, server>>,
         IsReq(req)', Same(req', req),
         req'.step = "fallback" => NoMatch,
         req'.step = "out" => /\ req'.status \in 100..599
                              /\ \/ req'.status = 200
                                 \/ req.route \notin {"api", "check"}
                                 \/ NoMatch
                                 \/ \A i \in 1..req.before :
                                      Is(req.err, entries[i].err)
                                      => req'.hit \in 1..i /\ Is(req.err, entries[req'.hit].err)
  PROVE  ServerInv' /\ RegistryInv' /\ ReqInv'
<1>1. ServerInv' /\ RegistryInv'
  BY DEF ServerInv, Built, RegistryInv
<1>2. req'.route = req.route /\ req'.err = req.err /\ req'.before = req.before
  BY DEF Same
<1>3. /\ req'.route # "idle" /\ server'.state \in {"listening", "draining", "closed"}
      /\ req'.before \in 0..Len(entries')
  BY <1>2 DEF InFlight
<1>4. req'.step = "fallback" => NoMatch'
  BY <1>2 DEF NoMatch
<1>5. req'.step = "out" /\ req'.route \in {"api", "check"} /\ req'.status # 200 => FirstMatch'
  BY <1>2 DEF NoMatch, FirstMatch
<1>6. InFlight'
  BY <1>3, <1>4, <1>5 DEF InFlight
<1> QED BY <1>1, <1>6 DEF ReqInv

\* The request moves to another step; nothing else of it changes.
LEMMA ReqStep ==
  ASSUME InFlight, NEW step, req' = [req EXCEPT !.step = step]
  PROVE  IsReq(req') /\ Same(req', req) /\ req'.step = step
<1>1. IsReq(req)
  BY DEF InFlight
<1> QED BY <1>1 DEF IsReq, Same

\* The request gets a status, and the entry it comes from; its error stays.
LEMMA ReqAnswer ==
  ASSUME InFlight, NEW step, NEW status, NEW hit,
         \/ req' = [req EXCEPT !.status = status, !.step = step]
         \/ req' = [req EXCEPT !.step = step, !.hit = hit, !.status = status]
  PROVE  IsReq(req') /\ Same(req', req) /\ req'.step = step /\ req'.status = status
<1>1. IsReq(req)
  BY DEF InFlight
<1>2. CASE req' = [req EXCEPT !.status = status, !.step = step]
  BY <1>1, <1>2 DEF IsReq, Same
<1>3. CASE req' = [req EXCEPT !.step = step, !.hit = hit, !.status = status]
  BY <1>1, <1>3 DEF IsReq, Same
<1> QED BY <1>2, <1>3

\* Resolve: what Lookup finds among all entries is the first match among those
\* that were there when the request came in, or none of those matches.
LEMMA ResolveKeeps ==
  ASSUME ServerInv, RegistryInv, InFlight, Resolve
  PROVE  ServerInv' /\ RegistryInv' /\ ReqInv'
<1> DEFINE i == Lookup(entries, req.err)
<1>1. /\ IF i = 0 THEN req' = [req EXCEPT !.step = "fallback"]
         ELSE req' = [req EXCEPT !.step = "out", !.hit = i, !.status = entries[i].status]
      /\ UNCHANGED <<entries, fallback, server>>
  BY DEF Resolve, resolverVars
<1>2. entries \in Seq(Err) /\ Mapping(entries) /\ req.before \in 0..Len(entries)
  BY DEF RegistryInv, InFlight
<1>3. /\ i \in 0..Len(entries)
      /\ i # 0 => Is(req.err, entries[i].err)
      /\ \A j \in 1..Len(entries) : Is(req.err, entries[j].err) => i \in 1..j
  BY <1>2, LookupFirst
<1> HIDE DEF i
<1>4. \A j \in 1..req.before : j \in 1..Len(entries)
  BY <1>2
<1>5. CASE i = 0
  <2>1. IsReq(req') /\ Same(req', req) /\ req'.step = "fallback"
    BY <1>1, <1>5, ReqStep
  <2>2. NoMatch
    BY <1>3, <1>4, <1>5 DEF NoMatch
  <2> QED BY <1>1, <2>1, <2>2, ReqKeeps
<1>6. CASE i # 0
  <2> DEFINE status == entries[i].status
  <2>0. req' = [req EXCEPT !.step = "out", !.hit = i, !.status = status]
    BY <1>1, <1>6
  <2> HIDE DEF status
  <2>1. /\ IsReq(req') /\ Same(req', req) /\ req'.step = "out"
        /\ req'.status = status /\ req'.hit = i
    <3>1. IsReq(req') /\ Same(req', req) /\ req'.step = "out" /\ req'.status = status
      BY <2>0, ReqAnswer
    <3>2. IsReq(req)
      BY DEF InFlight
    <3>3. req'.hit = i
      BY <2>0, <3>2 DEF IsReq
    <3> QED BY <3>1, <3>3
  <2>2. i \in DOMAIN entries
    BY <1>2, <1>3, <1>6
  <2>3. req'.status \in 100..599
    BY <1>2, <2>1, <2>2 DEF Mapping, status
  <2>4. \A j \in 1..req.before :
          Is(req.err, entries[j].err) => req'.hit \in 1..j /\ Is(req.err, entries[req'.hit].err)
    BY <1>3, <1>4, <1>6, <2>1
  <2> QED BY <1>1, <2>1, <2>3, <2>4, ReqKeeps
<1> QED BY <1>5, <1>6

\* The steps of a handler.
LEMMA ServingKeeps ==
  ASSUME ServerInv, RegistryInv, ReqInv, Serving
  PROVE  ServerInv' /\ RegistryInv' /\ ReqInv'
<1> USE DEF In, Answer, Fails, resolverVars, otherVars
<1>1. ASSUME req # NoReq
      PROVE  InFlight
  BY <1>1 DEF ReqInv
<1>2. ASSUME req # NoReq, UNCHANGED <<entries, fallback, server>>, NEW step,
             req' = [req EXCEPT !.step = step], step \notin {"fallback", "out"}
      PROVE  ServerInv' /\ RegistryInv' /\ ReqInv'
  <2>1. IsReq(req') /\ Same(req', req) /\ req'.step = step
    BY <1>1, <1>2, ReqStep
  <2> QED BY <1>1, <1>2, <2>1, ReqKeeps
<1>3. ASSUME req # NoReq, UNCHANGED <<entries, fallback, server>>, NEW status \in 100..599,
             req' = [req EXCEPT !.status = status, !.step = "out"],
             status = 200 \/ req.route \notin {"api", "check"} \/ NoMatch
      PROVE  ServerInv' /\ RegistryInv' /\ ReqInv'
  <2>1. IsReq(req') /\ Same(req', req) /\ req'.step = "out" /\ req'.status = status
    BY <1>1, <1>3, ReqAnswer
  <2> QED BY <1>1, <1>3, <2>1, ReqKeeps
<1>4. CASE NoRoute
  <2> DEFINE status == IF server.config.redirect /\ ~server.config.json THEN 307 ELSE 404
  <2>1. /\ req # NoReq /\ UNCHANGED <<entries, fallback, server>> /\ req.route = "nowhere"
        /\ req' = [req EXCEPT !.status = status, !.step = "out"]
    BY <1>4 DEF NoRoute
  <2>2. status \in 100..599
    OBVIOUS
  <2> HIDE DEF status
  <2> QED BY <1>3, <2>1, <2>2
<1>5. CASE Probe
  BY <1>2, <1>5 DEF Probe
<1>6. CASE ProbeReturns
  BY <1>3, <1>6 DEF ProbeReturns
<1>7. CASE Handler
  BY <1>2, <1>3, <1>7 DEF Handler
<1>8. CASE Resolve
  <2>1. req # NoReq
    BY <1>8 DEF Resolve
  <2> QED BY <1>1, <1>8, <2>1, ResolveKeeps
<1>9. CASE Fallback
  <2>1. /\ req # NoReq /\ req.step = "fallback" /\ UNCHANGED <<entries, fallback, server>>
        /\ req' = [req EXCEPT !.status = fallback.status, !.step = "out"]
    BY <1>9 DEF Fallback
  <2>2. fallback.status \in 100..599 /\ NoMatch
    BY <1>1, <2>1 DEF RegistryInv, InFlight
  <2> QED BY <1>3, <2>1, <2>2
<1>10. CASE Respond
  <2>1. req' = NoReq /\ UNCHANGED <<entries, fallback, server>>
    BY <1>10 DEF Respond
  <2> QED BY <2>1 DEF ServerInv, Built, RegistryInv, ReqInv
<1>11. CASE Paging
  BY <1>11, FrameKeeps DEF Paging
<1>12. CASE PagingFails
  BY <1>2, <1>12 DEF PagingFails
<1>13. CASE Listed
  BY <1>3, <1>13 DEF Listed
<1>14. CASE Export
  BY <1>2, <1>14 DEF Export
<1>15. CASE Exported
  <2>1. /\ req # NoReq /\ UNCHANGED <<entries, fallback, server>>
        /\ \/ req' = [req EXCEPT !.status = 200, !.step = "out", !.file = writer.tabs]
           \/ req' = [req EXCEPT !.step = "resolve"]
    BY <1>15 DEF Exported
  <2>2. CASE req' = [req EXCEPT !.status = 200, !.step = "out", !.file = writer.tabs]
    <3> DEFINE tabs == writer.tabs
    <3>0. InFlight /\ req' = [req EXCEPT !.status = 200, !.step = "out", !.file = tabs]
      BY <1>1, <2>1, <2>2
    <3> HIDE DEF tabs
    <3>1. IsReq(req') /\ Same(req', req) /\ req'.step = "out" /\ req'.status = 200
      <4>1. IsReq(req)
        BY <3>0 DEF InFlight
      <4> QED BY <3>0, <4>1 DEF IsReq, Same
    <3> QED BY <1>1, <2>1, <3>1, ReqKeeps
  <2>3. CASE req' = [req EXCEPT !.step = "resolve"]
    BY <1>2, <2>1, <2>3
  <2> QED BY <2>1, <2>2, <2>3
<1> QED
  BY <1>4, <1>5, <1>6, <1>7, <1>8, <1>9, <1>10, <1>11, <1>12, <1>13, <1>14, <1>15 DEF Serving

\* Registrations while requests are in flight only append.
LEMMA ChangeKeeps ==
  ASSUME ServerInv, RegistryInv, ReqInv, Change
  PROVE  ServerInv' /\ RegistryInv' /\ ReqInv'
<1>1. UNCHANGED <<server, req>>
  BY DEF Change
<1>2. \/ \E batch \in Batches : AddEntries(batch)
      \/ \E e \in Fallbacks : SetFallback(e)
      \/ UNCHANGED <<entries, fallback>>
  BY DEF Change, resolverVars
<1>3. ServerInv'
  BY <1>1 DEF ServerInv, Built
<1>4. ASSUME NEW batch \in Batches, AddEntries(batch)
      PROVE  RegistryInv' /\ ReqInv'
  <2>1. entries' = Added(entries, batch).list /\ fallback' = fallback
    BY <1>4 DEF AddEntries
  <2>2. /\ entries' \in Seq(Err) /\ Mapping(entries') /\ Len(entries) <= Len(entries')
        /\ \A i \in 1..Len(entries) : entries'[i] = entries[i]
    BY <2>1, AddedKeeps, ServiceAssumption DEF RegistryInv
  <2>3. RegistryInv'
    BY <2>1, <2>2 DEF RegistryInv
  <2>4. ASSUME InFlight
        PROVE  InFlight'
    <3>1. /\ req.before \in 0..Len(entries) /\ Len(entries) \in Nat /\ Len(entries') \in Nat
      BY <2>2, <2>4 DEF InFlight, RegistryInv
    <3>2. req.before \in 0..Len(entries') /\ \A i \in 1..req.before : i \in 1..Len(entries)
      BY <2>2, <3>1
    <3>3. \A i \in 1..req.before : entries'[i] = entries[i]
      BY <2>2, <3>2
    <3>4. NoMatch => NoMatch'
      BY <1>1, <3>3 DEF NoMatch
    <3>5. ASSUME FirstMatch
          PROVE  FirstMatch'
      <4>1. ASSUME NEW i \in 1..req.before, Is(req.err, entries'[i].err)
            PROVE  req.hit \in 1..i /\ Is(req.err, entries'[req.hit].err)
        <5>1. req.hit \in 1..i /\ Is(req.err, entries[req.hit].err)
          BY <3>3, <3>5, <4>1 DEF FirstMatch
        <5>2. req.hit \in 1..req.before
          BY <3>1, <5>1
        <5> QED BY <3>3, <5>1, <5>2
      <4> QED BY <1>1, <4>1 DEF FirstMatch
    <3> QED BY <1>1, <2>4, <3>2, <3>4, <3>5 DEF InFlight
  <2> QED BY <1>1, <2>3, <2>4 DEF ReqInv
<1>5. ASSUME NEW e \in Fallbacks, SetFallback(e)
      PROVE  RegistryInv' /\ ReqInv'
  <2>1. entries' = entries /\ fallback' = IF Validate(e) THEN Normalized(e) ELSE fallback
    BY <1>5 DEF SetFallback
  <2>2. fallback'.status \in 100..599
    BY <2>1, NormalizedValid, ServiceAssumption DEF RegistryInv
  <2>3. RegistryInv'
    BY <2>1, <2>2 DEF RegistryInv
  <2>4. ReqInv'
    BY <1>1, <2>1 DEF ReqInv, InFlight, NoMatch, FirstMatch
  <2> QED BY <2>3, <2>4
<1>6. ASSUME UNCHANGED <<entries, fallback>>
      PROVE  RegistryInv' /\ ReqInv'
  BY <1>1, <1>6, FrameKeeps
<1> QED BY <1>2, <1>3, <1>4, <1>5, <1>6

-----------------------------------------------------------------------------
(* Every step of a service. *)

\* A step that does not touch the health check.
LEMMA HealthFrame ==
  ASSUME HealthInv, UNCHANGED healthVars
  PROVE  HealthInv'
BY DEF healthVars, HealthInv, Reporting

\* What a step does to the schema and the starts.
LEMMA StartNext ==
  ASSUME StartInv, Next
  PROVE  StartInv'
<1> USE ServiceAssumption
<1>1. ASSUME NEW r \in Replicas, Booting(r)
      PROVE  StartInv'
  BY <1>1, StartStepKeeps DEF Booting
<1>2. ASSUME NEW r \in Replicas, Dies(r)
      PROVE  StartInv'
  BY <1>2, LifeKeeps DEF Dies
<1>3. ASSUME NEW c \in Configs, Build(c)
      PROVE  StartInv'
  <2>1. \/ Exit(Main) /\ UNCHANGED <<schema, done>>
        \/ UNCHANGED migratorVars
    BY <1>3 DEF Build, migratorVars
  <2> QED BY <2>1, LifeKeeps
<1>4. CASE Listen
  <2>1. \/ Exit(Main) /\ UNCHANGED <<schema, done>>
        \/ UNCHANGED migratorVars
    BY <1>4 DEF Listen, migratorVars
  <2> QED BY <2>1, LifeKeeps
<1>5. CASE Shutdown \/ ShutdownDone \/ ShutdownExpires
  BY <1>5, LifeKeeps DEF Shutdown, ShutdownDone, ShutdownExpires
<1>6. CASE \/ \E err \in Errors : Request("api", err)
           \/ \E route \in {"health", "check", "nowhere"} : Request(route, "unregistered")
  BY <1>6, LifeKeeps DEF Request
<1>7. CASE (\E q \in Queries : RequestPage(q)) \/ (\E e \in Exports : RequestExport(e))
  BY <1>7, LifeKeeps DEF RequestPage, RequestExport, otherVars
<1>8. CASE Serving
  <2>1. UNCHANGED migratorVars
    BY <1>8 DEF Serving, NoRoute, Probe, ProbeReturns, Handler, Resolve, Fallback, Respond,
                Paging, PagingFails, Listed, Export, Exported, otherVars
  <2> QED BY <2>1, LifeKeeps
<1>9. CASE Pinging \/ Writing \/ Leaves \/ Change
  <2>1. UNCHANGED migratorVars
    BY <1>9 DEF Pinging, Writing, Leaves, Change, otherVars
  <2> QED BY <2>1, LifeKeeps
<1>10. CASE \/ \E r \in Replicas : Start(r)
            \/ Repair
  BY <1>10, LifeKeeps
<1> QED BY <1>1, <1>2, <1>3, <1>4, <1>5, <1>6, <1>7, <1>8, <1>9, <1>10 DEF Next

\* What a step does to the rest.
LEMMA ServerNext ==
  ASSUME SInv, Next
  PROVE  HealthInv' /\ ServerInv' /\ RegistryInv' /\ ReqInv'
<1> USE DEF SInv
<1>0. ASSUME UNCHANGED <<healthVars, resolverVars, server, req>>
      PROVE  HealthInv' /\ ServerInv' /\ RegistryInv' /\ ReqInv'
  BY <1>0, HealthFrame, FrameKeeps DEF resolverVars
<1>1. ASSUME NEW r \in Replicas, Booting(r)
      PROVE  HealthInv' /\ ServerInv' /\ RegistryInv' /\ ReqInv'
  BY <1>0, <1>1 DEF Booting
<1>2. ASSUME NEW r \in Replicas, Dies(r)
      PROVE  HealthInv' /\ ServerInv' /\ RegistryInv' /\ ReqInv'
  <2>1. Forget \/ UNCHANGED <<healthVars, resolverVars, server, req>>
    BY <1>2 DEF Dies
  <2> QED BY <1>0, <2>1, ForgetKeeps
<1>3. ASSUME NEW c \in Configs, Build(c)
      PROVE  HealthInv' /\ ServerInv' /\ RegistryInv' /\ ReqInv'
  BY <1>3, BuildKeeps
<1>4. ASSUME UNCHANGED <<healthVars, resolverVars, req>>,
             server.state # "none", NEW s \in {"listening", "draining", "closed"},
             server' = [server EXCEPT !.state = s]
      PROVE  HealthInv' /\ ServerInv' /\ RegistryInv' /\ ReqInv'
  BY <1>4, HealthFrame, ServerKeeps DEF resolverVars
<1>5. CASE Listen
  <2>1. \/ Forget
        \/ /\ UNCHANGED <<healthVars, resolverVars, req>> /\ server.state # "none"
           /\ server' = [server EXCEPT !.state = "listening"]
    BY <1>5 DEF Listen
  <2> QED BY <1>4, <2>1, ForgetKeeps
<1>6. CASE Shutdown \/ ShutdownDone \/ ShutdownExpires
  BY <1>4, <1>6 DEF Shutdown, ShutdownDone, ShutdownExpires
<1>7. ASSUME NEW route, route # "idle", NEW err, NEW export, Arrives(route, err, export),
             UNCHANGED <<healthVars, resolverVars, server>>
      PROVE  HealthInv' /\ ServerInv' /\ RegistryInv' /\ ReqInv'
  BY <1>7, HealthFrame, ArrivesKeeps DEF resolverVars
<1>8. CASE \/ \E err \in Errors : Request("api", err)
           \/ \E route \in {"health", "check", "nowhere"} : Request(route, "unregistered")
  BY <1>7, <1>8 DEF Request
<1>9. CASE (\E q \in Queries : RequestPage(q)) \/ (\E e \in Exports : RequestExport(e))
  BY <1>7, <1>9 DEF RequestPage, RequestExport, otherVars
<1>10. CASE Serving
  <2>1. ServerInv' /\ RegistryInv' /\ ReqInv'
    BY <1>10, ServingKeeps
  <2>2. CASE UNCHANGED healthVars
    BY <2>1, <2>2, HealthFrame
  <2>3. CASE Probe
    <3>1. \/ UNCHANGED healthVars
          \/ \E names \in SUBSET Registered : Snapshot(names)
      BY <2>3 DEF Probe
    <3> QED BY <2>1, <3>1, HealthFrame, SnapshotKeeps
  <2>4. CASE ProbeReturns
    BY <2>1, <2>4 DEF ProbeReturns, Return, HealthInv
  <2> QED
    BY <1>10, <2>2, <2>3, <2>4
       DEF Serving, NoRoute, Handler, Resolve, Fallback, Respond,
           Paging, PagingFails, Listed, Export, Exported, otherVars
<1>11. CASE Pinging
  <2>1. HealthInv'
    BY <1>11, TickKeeps, ProbeKeeps DEF Pinging
  <2> QED BY <1>11, <2>1, FrameKeeps DEF Pinging, resolverVars
<1>12. CASE Writing \/ Leaves
  BY <1>0, <1>12 DEF Writing, Leaves, otherVars
<1>13. CASE Change
  <2>1. \/ UNCHANGED healthVars
        \/ \E n \in Names, c \in Conns : AddDB(n, c)
        \/ \E n \in Names : RemoveDB(n)
        \/ \E d \in Timeouts : SetPingTimeout(d)
    BY <1>13 DEF Change
  <2>2. HealthInv'
    BY <2>1, HealthFrame, RegistryKeeps
  <2> QED BY <1>13, <2>2, ChangeKeeps
<1>14. CASE /\ (\E r \in Replicas : Start(r)) \/ Repair
            /\ UNCHANGED <<resolverVars, healthVars, exportVars, server, req, changes>>
  BY <1>0, <1>14
<1> QED
  BY <1>1, <1>2, <1>3, <1>5, <1>6, <1>8, <1>9, <1>10, <1>11, <1>12, <1>13, <1>14 DEF Next

\* The inductive invariant of a service.
THEOREM ServiceInvariant == Spec => []SInv
<1>1. Init => SInv
  <2> SUFFICES ASSUME Init PROVE SInv
    OBVIOUS
  <2>1. StartInv /\ HealthInv
    BY StartInit, HealthStarts DEF Init
  <2>2. entries \in Seq(Err) /\ Mapping(entries)
    BY DEF Init, Mapping
  <2>3. fallback.status \in 100..599
    BY DEF Init, DefaultFallback
  <2> QED BY <2>1, <2>2, <2>3 DEF Init, SInv, ServerInv, RegistryInv, ReqInv
<1>2. SInv /\ [Next]_vars => SInv'
  <2> SUFFICES ASSUME SInv, [Next]_vars PROVE SInv'
    OBVIOUS
  <2>1. CASE Next
    <3>1. StartInv'
      BY <2>1, StartNext DEF SInv
    <3>2. HealthInv' /\ ServerInv' /\ RegistryInv' /\ ReqInv'
      BY <2>1, ServerNext
    <3> QED BY <3>1, <3>2 DEF SInv
  <2>2. CASE UNCHANGED vars
    <3>1. UNCHANGED migratorVars /\ UNCHANGED healthVars /\ UNCHANGED <<entries, fallback, server, req>>
      BY <2>2 DEF vars, resolverVars
    <3>2. StartInv'
      BY <3>1, LifeKeeps DEF SInv
    <3>3. HealthInv' /\ ServerInv' /\ RegistryInv' /\ ReqInv'
      BY <3>1, HealthFrame, FrameKeeps DEF SInv
    <3> QED BY <3>2, <3>3 DEF SInv
  <2> QED BY <2>1, <2>2
<1> QED BY <1>1, <1>2, PTL DEF Spec

-----------------------------------------------------------------------------
(* What follows. *)

\* Starts of any number of replicas, in any order and with any crash, apply every
\* migration once and in order, and none seeds or serves before (gorm.go:80-93,
\* migrator.go:101-163).
THEOREM StartsAreSafe == Spec => []MigrationsSafe
<1>1. SInv => MigrationsSafe
  <2> SUFFICES ASSUME SInv PROVE MigrationsSafe
    OBVIOUS
  <2>1. schema.version \in 0..LastVersion /\ schema.holder \in Replicas \union {None}
    BY DEF SInv, StartInv, StartType
  <2>2. \A r \in Replicas : boot[r].tries <= RetryAttempts /\ boot[r].seed <= Seeds
    BY MigratorAssumption DEF SInv, StartInv, StartType, Boot
  <2>3. databases \in [Names -> Conns \union {NoConn}] /\ pingTimeout # 0
    BY DEF SInv, HealthInv
  <2>4. req # NoReq => server.state \in {"listening", "draining", "closed"}
    BY DEF SInv, ReqInv, InFlight
  <2>5. \A i \in DOMAIN entries : Validate(entries[i])
    BY DEF SInv, RegistryInv, Mapping
  <2>6. OnceInOrder /\ MigratedBeforeUse
    BY DEF SInv, StartInv
  <2> QED BY <2>1, <2>2, <2>3, <2>4, <2>5, <2>6 DEF MigrationsSafe, TypeOK
<1> QED BY <1>1, ServiceInvariant, PTL

\* Whatever is registered and whenever, no sentinel has two entries, an error is
\* answered with the first entry that matches it and every answer can be rendered,
\* although Resolve takes the lock twice (error_resolver.go:87-151).
THEOREM ErrorsAreAnswered == Spec => []ErrorsAnswered
<1>1. SInv => ErrorsAnswered
  <2> SUFFICES ASSUME SInv PROVE ErrorsAnswered
    OBVIOUS
  <2>1. NoAliases
    BY DEF SInv, RegistryInv, Mapping, NoAliases
  <2>2. Renderable
    BY DEF SInv, ReqInv, InFlight, Renderable
  <2>3. ASSUME req # NoReq, req.step = "out", req.route \in {"api", "check"}, req.status # 200
        PROVE  LET match == {i \in 1..req.before : Is(req.err, entries[i].err)}
               IN  match # {} => req.hit \in match /\ \A i \in match : req.hit <= i
    <3>1. FirstMatch /\ req.before \in Nat
      BY <2>3 DEF SInv, ReqInv, InFlight, RegistryInv
    <3> DEFINE match == {i \in 1..req.before : Is(req.err, entries[i].err)}
    <3>2. \A i \in match : req.hit \in 1..i /\ Is(req.err, entries[req.hit].err)
      BY <3>1 DEF FirstMatch
    <3>3. \A i \in match : req.hit <= i /\ req.hit \in 1..req.before
      BY <3>1, <3>2
    <3>4. match # {} => req.hit \in match
      BY <3>2, <3>3
    <3> QED BY <3>3, <3>4
  <2>4. FirstMatchAnswers
    BY <2>3 DEF FirstMatchAnswers
  <2> QED BY <2>1, <2>2, <2>4 DEF ErrorsAnswered
<1> QED BY <1>1, ServiceInvariant, PTL

\* A report takes no longer than the one timeout it read, however many connections
\* stall, and speaks of the connections of its snapshot whatever is registered,
\* replaced or removed meanwhile (check.go:127-227).
THEOREM ReportsAreTrue == Spec => []ReportsTrue
<1>1. SInv => ReportsTrue
  BY DEF SInv, HealthInv, Reporting, NoReport, ReportsTrue, ReportInTime,
         ReportMatchesSnapshot, Pending
<1> QED BY <1>1, ServiceInvariant, PTL
-----------------------------------------------------------------------------
(* Rows in their order. *)

\* Whether s comes before r in the order of dir, and how many rows of S do.
Ahead(dir, s, r) == IF Descending(dir) THEN s > r ELSE s < r
Before(S, dir, r) == Cardinality({s \in S : Ahead(dir, s, r)})

\* What comes before r is counted, and is no part of what does not come before it.
LEMMA BeforeCounts ==
  ASSUME NEW S \in SUBSET Nat, IsFiniteSet(S), NEW dir, NEW r \in Nat
  PROVE  /\ Before(S, dir, r) \in Nat /\ Before(S, dir, r) <= Cardinality(S)
         /\ r \in S => Before(S, dir, r) < Cardinality(S)
<1> DEFINE P == {s \in S : Ahead(dir, s, r)}
<1>1. P \in SUBSET S /\ r \notin P
  BY DEF Ahead
<1> HIDE DEF P
<1>2. IsFiniteSet(P) /\ Cardinality(P) <= Cardinality(S) /\ (Cardinality(S) = Cardinality(P) => S = P)
  BY <1>1, FS_Subset
<1>3. Cardinality(P) \in Nat /\ Cardinality(S) \in Nat
  BY <1>2, FS_CardinalityType
<1>4. Before(S, dir, r) = Cardinality(P)
  BY DEF Before, P
<1> QED BY <1>1, <1>2, <1>3, <1>4

\* Of two rows the one that comes first has fewer before it.
LEMMA BeforeOrder ==
  ASSUME NEW S \in SUBSET Nat, IsFiniteSet(S), NEW dir, NEW q \in S, NEW r \in Nat, Ahead(dir, q, r)
  PROVE  Before(S, dir, q) < Before(S, dir, r)
<1> DEFINE P == {s \in S : Ahead(dir, s, q)}
           Q == {s \in S : Ahead(dir, s, r)}
<1>0. q \in Nat /\ \A s \in S : s \in Nat
  OBVIOUS
<1>1. P \union {q} \in SUBSET Q /\ q \notin P /\ Q \in SUBSET S
  <2>1. \A s \in S : Ahead(dir, s, q) => Ahead(dir, s, r)
    BY <1>0 DEF Ahead
  <2>2. ~Ahead(dir, q, q)
    BY <1>0 DEF Ahead
  <2> QED BY <2>1, <2>2
<1>2. Before(S, dir, q) = Cardinality(P) /\ Before(S, dir, r) = Cardinality(Q)
  BY DEF Before
<1> HIDE DEF P, Q
<1>3. IsFiniteSet(Q)
  BY <1>1, FS_Subset
<1>4. IsFiniteSet(P)
  BY <1>1, <1>3, FS_Subset
<1>5. Cardinality(P \union {q}) <= Cardinality(Q)
  BY <1>1, <1>3, FS_Subset
<1>6. Cardinality(P \union {q}) = Cardinality(P) + 1
  BY <1>1, <1>4, FS_AddElement
<1>7. Cardinality(P) \in Nat /\ Cardinality(Q) \in Nat
  BY <1>3, <1>4, FS_CardinalityType
<1> QED BY <1>2, <1>5, <1>6, <1>7

\* Rows are compared by what comes before them.
LEMMA BeforeCompares ==
  ASSUME NEW S \in SUBSET Nat, IsFiniteSet(S), NEW dir, NEW q \in S, NEW r \in S
  PROVE  /\ Before(S, dir, q) = Before(S, dir, r) <=> q = r
         /\ Before(S, dir, q) < Before(S, dir, r) <=> Ahead(dir, q, r)
<1>1. Before(S, dir, q) \in Nat /\ Before(S, dir, r) \in Nat
  BY BeforeCounts
<1>2. q = r \/ Ahead(dir, q, r) \/ Ahead(dir, r, q)
  BY DEF Ahead
<1>3. Ahead(dir, q, r) => Before(S, dir, q) < Before(S, dir, r)
  BY BeforeOrder
<1>4. Ahead(dir, r, q) => Before(S, dir, r) < Before(S, dir, q)
  BY BeforeOrder
<1> QED BY <1>1, <1>2, <1>3, <1>4

\* Every place has its row.
LEMMA BeforeOnto ==
  ASSUME NEW S \in SUBSET Nat, IsFiniteSet(S), NEW dir, NEW k \in 0..Cardinality(S) - 1
  PROVE  \E r \in S : Before(S, dir, r) = k
<1> DEFINE T == 0..Cardinality(S) - 1
           f == [r \in S |-> Before(S, dir, r)]
<1>1. Cardinality(S) \in Nat
  BY FS_CardinalityType
<1>2. f \in [S -> T]
  BY <1>1, BeforeCounts
<1>3. \A q, r \in S : f[q] = f[r] => q = r
  BY BeforeCompares
<1>4. IsFiniteSet(T) /\ Cardinality(T) = Cardinality(S)
  BY <1>1, FS_Interval
<1> HIDE DEF f, T
<1>5. f \in Injection(S, T)
  BY <1>2, <1>3, Fun_IsInj
<1>6. f \in Surjection(S, T)
  BY <1>4, <1>5, FS_Injection
<1>7. \A t \in T : \E s \in S : f[s] = t
  BY <1>6, Fun_SurjectionProperties
<1> QED BY <1>7 DEF f, T

\* applySorts puts the rows in their order: the i-th has i - 1 before it.
LEMMA Sorted ==
  ASSUME NEW S \in SUBSET Nat, IsFiniteSet(S), NEW dir
  PROVE  /\ ApplySorts(S, dir) \in [1..Cardinality(S) -> S]
         /\ \A i \in 1..Cardinality(S) : Before(S, dir, ApplySorts(S, dir)[i]) = i - 1
         /\ \A r \in S : ApplySorts(S, dir)[Before(S, dir, r) + 1] = r
<1> DEFINE N == Cardinality(S)
           Ordered(s) == \A i, j \in DOMAIN s : i < j => IF Descending(dir) THEN s[i] > s[j] ELSE s[i] < s[j]
           t == ApplySorts(S, dir)
<1>1. N \in Nat
  BY FS_CardinalityType
<1>2. \E s \in [1..N -> S] : Ordered(s)
  <2> DEFINE u == [i \in 1..N |-> CHOOSE r \in S : Before(S, dir, r) = i - 1]
  <2>1. ASSUME NEW i \in 1..N
        PROVE  u[i] \in S /\ Before(S, dir, u[i]) = i - 1
    <3>1. i - 1 \in 0..N - 1
      BY <1>1
    <3> QED BY <3>1, BeforeOnto
  <2> HIDE DEF u
  <2>2. ASSUME NEW i \in 1..N, NEW j \in 1..N, i < j
        PROVE  Ahead(dir, u[i], u[j])
    <3>1. u[i] \in S /\ u[j] \in S /\ Before(S, dir, u[i]) < Before(S, dir, u[j])
      BY <1>1, <2>1, <2>2
    <3> QED BY <3>1, BeforeCompares
  <2>3. u \in [1..N -> S]
    BY <2>1 DEF u
  <2> QED BY <2>2, <2>3 DEF Ahead
<1>3. t \in [1..N -> S] /\ Ordered(t)
  BY <1>2 DEF ApplySorts
<1> HIDE DEF t, N
<1>4. \A i, j \in 1..N : i < j => Ahead(dir, t[i], t[j])
  BY <1>3 DEF Ahead
<1>0. \A i \in 1..N : t[i] \in Nat
  BY <1>3
<1>5. ASSUME NEW i \in 1..N, NEW j \in 1..N, t[i] = t[j]
      PROVE  i = j
  <2>1. ~Ahead(dir, t[i], t[j]) /\ ~Ahead(dir, t[j], t[i])
    BY <1>0, <1>5 DEF Ahead
  <2> QED BY <1>1, <1>4, <2>1
<1>6. t \in Injection(1..N, S)
  BY <1>3, <1>5, Fun_IsInj
<1>7. Cardinality(1..N) = N
  BY <1>1, FS_Interval
<1>8. t \in Surjection(1..N, S)
  BY <1>6, <1>7, FS_Injection DEF N
<1>9. \A r \in S : \E i \in 1..N : t[i] = r
  BY <1>8 DEF Surjection
<1>10. ASSUME NEW i \in 1..N
       PROVE  Before(S, dir, t[i]) = i - 1
  <2> DEFINE P == {s \in S : Ahead(dir, s, t[i])}
             g == [j \in 1..i - 1 |-> t[j]]
  <2>1. ASSUME NEW j \in 1..N
        PROVE  Ahead(dir, t[j], t[i]) <=> j < i
    <3>1. Ahead(dir, t[i], t[j]) => ~Ahead(dir, t[j], t[i])
      BY <1>0 DEF Ahead
    <3>2. ~Ahead(dir, t[i], t[i])
      BY <1>0 DEF Ahead
    <3> QED BY <1>1, <1>4, <3>1, <3>2
  <2>2. g \in [1..i - 1 -> P]
    BY <1>1, <1>3, <2>1
  <2>3. \A j, k \in 1..i - 1 : g[j] = g[k] => j = k
    BY <1>1, <1>5
  <2>4. \A p \in P : \E j \in 1..i - 1 : g[j] = p
    BY <1>1, <1>9, <2>1
  <2>5. Before(S, dir, t[i]) = Cardinality(P)
    BY DEF Before
  <2> HIDE DEF P, g
  <2>6. g \in Bijection(1..i - 1, P)
    BY <2>2, <2>3, <2>4, Fun_IsBij
  <2>7. IsFiniteSet(1..i - 1) /\ Cardinality(1..i - 1) = i - 1
    BY <1>1, FS_Interval
  <2>8. ExistsBijection(1..i - 1, P)
    BY <2>6 DEF ExistsBijection
  <2> QED BY <2>5, <2>7, <2>8, FS_Bijection
<1>11. ASSUME NEW r \in S
       PROVE  t[Before(S, dir, r) + 1] = r
  <2>1. PICK i \in 1..N : t[i] = r
    BY <1>9
  <2> QED BY <1>1, <1>10, <2>1
<1> QED BY <1>3, <1>10, <1>11 DEF t, N

-----------------------------------------------------------------------------
(* Pages. *)

\* The fields of a listing, and how many rows come before its page.
IsListing(l) == l = [step |-> l.step, query |-> l.query, page |-> l.page, total |-> l.total,
                     rows |-> l.rows, result |-> l.result, from |-> l.from,
                     changed |-> l.changed, uncounted |-> l.uncounted]
Reached(p) == (p.number - 1) * p.perPage

\* The rows that a query is about, and how many of them come before r.
Meant(q) == table \intersect q.wanted
Place(q, r) == Before(Meant(q), q.dir, r)

\* A listing in progress: what it has read was asked for and is or was in the table,
\* and the offset of the next page is counted by an int.
InProgress ==
  /\ IsListing(listing) /\ listing.step \in {"count", "find", "done", "failed"}
  /\ listing.query \in Asked
  /\ listing.page \in [number : Nat \ {0}, perPage : Nat \ {0}]
  /\ listing.total \in 0..MaxInt /\ listing.rows \in Seq(Nat)
  /\ ToSet(listing.rows) \subseteq (table \union deleted) \intersect listing.query.wanted
  /\ "deleted" \notin listing.changed => listing.from \subseteq table
  /\ listing.step = "find" /\ listing.changed = {} /\ ~listing.uncounted =>
       listing.total = Cardinality(Meant(listing.query))
  /\ listing.query.all /\ listing.step \in {"count", "find"} => Reached(listing.page) <= MaxInt

\* No row was read twice, and those that will be read come later.
ReadOnce ==
  listing.query.all /\ ~(Descending(listing.query.dir) /\ "inserted" \in listing.changed) =>
    /\ IsInjective(listing.rows)
    /\ listing.step \in {"count", "find"} =>
         \A r \in ToSet(listing.rows) \intersect table : Place(listing.query, r) < Reached(listing.page)

\* Of the rows that were there from the beginning, those before the page were read;
\* the count knows of all of them.
ReadAll ==
  listing.query.all /\ "deleted" \notin listing.changed /\ ~listing.uncounted
    /\ ~(Descending(listing.query.dir) /\ "between" \in listing.changed) =>
    \A r \in listing.from \intersect listing.query.wanted :
      /\ listing.step \in {"count", "find"} /\ Place(listing.query, r) < Reached(listing.page) =>
           r \in ToSet(listing.rows)
      /\ listing.step = "find" => Place(listing.query, r) < listing.total
      /\ listing.step = "done" => r \in ToSet(listing.rows)

ListingInv ==
  /\ table \subseteq DOMAIN RowNames /\ deleted \subseteq DOMAIN RowNames
  /\ listing = NoListing \/ (InProgress /\ ReadOnce /\ ReadAll)
  /\ PageIsItsOwn


\* Page.Normalize leaves a page that counts from one.
LEMMA NormalizeType ==
  ASSUME NEW p, p.number \in Int, p.perPage \in Int
  PROVE  /\ Normalize(p) \in [number : Nat \ {0}, perPage : Nat \ {0}]
         /\ p.number <= 1 => Normalize(p).number = 1
<1> DEFINE n == IF p.number <= 0 THEN 1 ELSE p.number
           d == CASE p.perPage <= 0 -> DefPerPage
                  [] p.perPage > MaxPerPage -> MaxPerPage
                  [] OTHER -> p.perPage
<1>1. n \in Nat \ {0} /\ (p.number <= 1 => n = 1)
  OBVIOUS
<1>2. d \in Nat \ {0}
  BY PaginationAssumption
<1>3. Normalize(p) = [number |-> n, perPage |-> d]
  BY DEF Normalize
<1> HIDE DEF n, d
<1> QED BY <1>1, <1>2, <1>3

\* Page.Offset does not wrap below MaxInt.
LEMMA OffsetExact ==
  ASSUME NEW p \in [number : Nat \ {0}, perPage : Nat \ {0}]
  PROVE  /\ Reached(p) \in Nat /\ Offset(p) \in Int
         /\ Reached(p) <= MaxInt => Offset(p) = Reached(p)
         /\ Reached(p) + p.perPage = p.number * p.perPage
<1> DEFINE a == (p.number - 1) * p.perPage
<1>1. p.number - 1 \in Nat /\ p.perPage \in Nat
  OBVIOUS
<1>2. a \in Nat
  BY <1>1
<1>3. a + p.perPage = p.number * p.perPage
  BY <1>1
<1>4. Reached(p) = a /\ Offset(p) = ((a + MaxInt + 1) % (2 * MaxInt + 2)) - (MaxInt + 1)
  BY DEF Reached, Offset
<1> HIDE DEF a
<1>5. Offset(p) \in Int /\ (a <= MaxInt => Offset(p) = a)
  <2>1. MaxInt \in Nat
    BY PaginationAssumption
  <2> QED BY <1>2, <1>4, <2>1
<1> QED BY <1>2, <1>3, <1>4, <1>5

\* What a division rounds to.
LEMMA Quotient ==
  ASSUME NEW a \in Nat, NEW d \in Nat \ {0}, NEW q \in Nat
  PROVE  a \div d = q <=> q * d <= a /\ a < q * d + d
<1> DEFINE k == a \div d
<1>1. k \in Nat /\ k * d <= a /\ a < k * d + d
  OBVIOUS
<1>2. ASSUME q < k
      PROVE  a >= q * d + d
  <2>1. (k - q - 1) * d >= 0 /\ (k - q - 1) * d = k * d - q * d - d
    BY <1>1, <1>2
  <2> QED BY <1>1, <2>1
<1>3. ASSUME q > k
      PROVE  a < q * d
  <2>1. (q - k - 1) * d >= 0 /\ (q - k - 1) * d = q * d - k * d - d
    BY <1>1, <1>3
  <2> QED BY <1>1, <2>1
<1> HIDE DEF k
<1>4. k = q <=> q * d <= a /\ a < q * d + d
  BY <1>1, <1>2, <1>3
<1> QED BY <1>4 DEF k

\* There is a next page just if the count goes beyond this one.
LEMMA HasNext ==
  ASSUME NEW total \in Nat, NEW d \in Nat \ {0}, NEW n \in Nat \ {0}
  PROVE  n < (total + d - 1) \div d <=> total > n * d
<1> DEFINE k == (total + d - 1) \div d
<1>1. k \in Nat
  OBVIOUS
<1>2. k * d <= total + d - 1 /\ total + d - 1 < k * d + d
  <2>1. total + d - 1 \in Nat
    OBVIOUS
  <2> QED BY <1>1, <2>1, Quotient
<1> HIDE DEF k
<1>3. ASSUME n < k
      PROVE  total > n * d
  <2>1. (k - n - 1) * d >= 0 /\ (k - n - 1) * d = k * d - n * d - d
    BY <1>1, <1>3
  <2> QED BY <1>1, <1>2, <2>1
<1>4. ASSUME n >= k
      PROVE  total <= n * d
  <2>1. (n - k) * d >= 0 /\ (n - k) * d = n * d - k * d
    BY <1>1, <1>4
  <2> QED BY <1>1, <1>2, <2>1
<1>5. n < k <=> total > n * d
  BY <1>1, <1>3, <1>4
<1> QED BY <1>5 DEF k

\* What the filters of a query select are the rows that it is meant to list.
FiltersMean ==
  \A q \in Asked : \A r \in DOMAIN RowNames :
    r \in q.wanted <=>
      \A expr \in {FilterExpr[q.filters[i]] : i \in DOMAIN q.filters} \ {NoExpr} : r \in expr

\* applyFilters then selects those that are in the table.
LEMMA Filtered ==
  ASSUME FiltersMean, table \subseteq DOMAIN RowNames, NEW q \in Asked
  PROVE  /\ ApplyFilters(q.filters) = Meant(q)
         /\ Meant(q) \in SUBSET Nat /\ IsFiniteSet(Meant(q)) /\ Cardinality(Meant(q)) \in 0..MaxInt
<1>1. ApplyFilters(q.filters) = Meant(q)
  BY DEF FiltersMean, ApplyFilters, Meant
<1>2. Meant(q) \in SUBSET DOMAIN RowNames
  BY DEF Meant
<1>3. IsFiniteSet(Meant(q)) /\ Cardinality(Meant(q)) <= Cardinality(DOMAIN RowNames)
  BY <1>2, PaginationAssumption, FS_Subset
<1>4. Cardinality(Meant(q)) \in Nat /\ Cardinality(DOMAIN RowNames) \in Nat
  BY <1>3, PaginationAssumption, FS_CardinalityType
<1> QED BY <1>1, <1>2, <1>3, <1>4, PaginationAssumption

\* A part of a sequence.
LEMMA Cut ==
  ASSUME NEW S, NEW t \in Seq(S), NEW off \in Nat, NEW end \in Nat, end <= Len(t)
  PROVE  /\ SubSeq(t, off + 1, end) \in Seq(S)
         /\ Len(SubSeq(t, off + 1, end)) = (IF off + 1 <= end THEN end - off ELSE 0)
         /\ \A i \in 1..Len(SubSeq(t, off + 1, end)) : SubSeq(t, off + 1, end)[i] = t[off + i]
<1>1. \A i \in 1..end - off : off + 1 + i - 1 = off + i /\ off + i \in 1..Len(t)
  OBVIOUS
<1>2. Len(SubSeq(t, off + 1, end)) = (IF off + 1 <= end THEN end - off ELSE 0)
  OBVIOUS
<1>3. \A i \in 1..Len(SubSeq(t, off + 1, end)) : SubSeq(t, off + 1, end)[i] = t[off + i]
  BY <1>1, <1>2
<1>4. SubSeq(t, off + 1, end) \in Seq(S)
  BY <1>1, <1>2, <1>3
<1> QED BY <1>2, <1>3, <1>4

\* The rows of a page: those that have as many before them as the offset says, none
\* of them twice.
LEMMA PageHolds ==
  ASSUME FiltersMean, table \subseteq DOMAIN RowNames, NEW q \in Asked,
         NEW p \in [number : Nat \ {0}, perPage : Nat \ {0}]
  PROVE  /\ PageRows(q, p) \in Seq(Meant(q)) /\ PageRows(q, p) \in Seq(Nat)
         /\ IsInjective(PageRows(q, p))
         /\ ToSet(PageRows(q, p)) \subseteq Meant(q)
         /\ Reached(p) <= MaxInt =>
              ToSet(PageRows(q, p)) =
                {r \in Meant(q) : Reached(p) <= Place(q, r) /\ Place(q, r) < p.number * p.perPage}
<1> DEFINE S == Meant(q)
           N == Cardinality(S)
           t == ApplySorts(S, q.dir)
           off == IF Offset(p) > 0 THEN Offset(p) ELSE 0
           end == IF off + p.perPage < N THEN off + p.perPage ELSE N
           data == PageRows(q, p)
<1>1. S \in SUBSET Nat /\ IsFiniteSet(S) /\ N \in Nat /\ ApplyFilters(q.filters) = S
  <2>1. N \in 0..MaxInt /\ MaxInt \in Nat
    BY Filtered, PaginationAssumption
  <2> QED BY <2>1, Filtered
<1>2. /\ off \in Nat /\ (Reached(p) <= MaxInt => off = Reached(p)) /\ p.perPage \in Nat \ {0}
      /\ Reached(p) \in Nat /\ Reached(p) + p.perPage = p.number * p.perPage
  BY OffsetExact
<1> HIDE DEF S
<1>3. /\ t \in [1..N -> S]
      /\ \A i \in 1..N : Before(S, q.dir, t[i]) = i - 1
      /\ \A r \in S : t[Before(S, q.dir, r) + 1] = r
  BY <1>1, Sorted
<1>4. \A r \in S : Before(S, q.dir, r) \in Nat /\ Before(S, q.dir, r) < N
  <2>1. ASSUME NEW r \in S
        PROVE  Before(S, q.dir, r) \in Nat /\ Before(S, q.dir, r) < N
    <3>1. r \in Nat
      BY <1>1
    <3> QED BY <1>1, <3>1, BeforeCounts
  <2> QED BY <2>1
<1> HIDE DEF t, N
<1>5. t \in Seq(S) /\ Len(t) = N
  BY <1>1, <1>3
<1>6. data = SubSeq(t, off + 1, end)
  BY <1>1, <1>5 DEF PageRows, t
<1> HIDE DEF off
<1>7. end \in Nat /\ end <= N
  BY <1>1, <1>2
<1>8. /\ data \in Seq(S)
      /\ Len(data) = (IF off + 1 <= end THEN end - off ELSE 0)
      /\ \A i \in 1..Len(data) : data[i] = t[off + i]
  <2> HIDE DEF end, data
  <2> QED BY <1>2, <1>5, <1>6, <1>7, Cut
<1> HIDE DEF data
<1>9. /\ Len(data) \in Nat /\ DOMAIN data = 1..Len(data)
      /\ \A i \in 1..Len(data) : off + i \in 1..N /\ off + i <= end
  BY <1>1, <1>2, <1>7, <1>8
<1>10. \A i \in 1..Len(data) : data[i] \in S /\ Before(S, q.dir, data[i]) = off + i - 1
  BY <1>1, <1>2, <1>3, <1>8, <1>9
<1>11. IsInjective(data)
  BY <1>2, <1>9, <1>10 DEF IsInjective
<1>12. ToSet(data) \subseteq S
  BY <1>9, <1>10 DEF ToSet
<1>13. ASSUME NEW r \in S
       PROVE  r \in ToSet(data) <=> off <= Before(S, q.dir, r) /\ Before(S, q.dir, r) < off + p.perPage
  <2> DEFINE b == Before(S, q.dir, r)
  <2>1. b \in Nat /\ b < N /\ t[b + 1] = r
    BY <1>3, <1>4
  <2>2. \A i \in 1..Len(data) : data[i] = r => b = off + i - 1
    BY <1>10
  <2> HIDE DEF b
  <2>3. ASSUME r \in ToSet(data)
        PROVE  off <= b /\ b < off + p.perPage
    <3>1. PICK i \in 1..Len(data) : data[i] = r
      BY <1>9, <2>3 DEF ToSet
    <3>2. b = off + i - 1 /\ i \in Nat /\ i >= 1 /\ off + i <= end
      BY <1>9, <2>2, <3>1
    <3> QED BY <1>1, <1>2, <3>2
  <2>4. ASSUME off <= b, b < off + p.perPage
        PROVE  r \in ToSet(data)
    <3>1. b - off + 1 \in 1..Len(data)
      <4>1. off \in Nat /\ p.perPage \in Nat /\ N \in Nat /\ off + 1 <= end /\ b < end
        BY <1>1, <1>2, <2>1, <2>4
      <4>2. Len(data) = end - off
        BY <1>8, <4>1
      <4> HIDE DEF end
      <4> QED BY <1>7, <2>1, <2>4, <4>1, <4>2
    <3>2. data[b - off + 1] = t[off + (b - off + 1)]
      BY <1>8, <3>1
    <3>3. off + (b - off + 1) = b + 1
      BY <1>2, <2>1
    <3> QED BY <1>9, <2>1, <3>1, <3>2, <3>3 DEF ToSet
  <2> QED BY <2>3, <2>4 DEF b
<1>14. Reached(p) <= MaxInt =>
         ToSet(data) = {r \in S : Reached(p) <= Before(S, q.dir, r) /\ Before(S, q.dir, r) < p.number * p.perPage}
  BY <1>2, <1>12, <1>13
<1>15. data \in Seq(Nat)
  <2>1. \A i \in 1..Len(data) : data[i] \in Nat
    BY <1>1, <1>10
  <2> QED BY <1>8, <1>9, <2>1
<1> QED BY <1>8, <1>11, <1>12, <1>14, <1>15 DEF data, S, Place

-----------------------------------------------------------------------------
(* The steps of a listing. *)

\* Initially there is none.
LEMMA ListingStarts ==
  ASSUME ListingInit
  PROVE  ListingInv
BY PaginationAssumption DEF ListingInit, ListingInv, PageIsItsOwn

\* Nothing happens, or the listing is dropped.
LEMMA ListingFrame ==
  ASSUME ListingInv, UNCHANGED <<table, deleted>>, listing' \in {listing, NoListing}
  PROVE  ListingInv'
<1>1. CASE listing' = listing
  <2>1. \A q : Meant(q)' = Meant(q) /\ \A r : Place(q, r)' = Place(q, r)
    BY DEF Meant, Place
  <2>2. InProgress => InProgress'
    BY <1>1, <2>1 DEF InProgress
  <2>3. (ReadOnce => ReadOnce') /\ (ReadAll => ReadAll')
    BY <1>1, <2>1 DEF ReadOnce, ReadAll
  <2>4. PageIsItsOwn'
    BY <1>1 DEF ListingInv, PageIsItsOwn
  <2> QED BY <1>1, <2>2, <2>3, <2>4 DEF ListingInv
<1>2. CASE listing' = NoListing
  BY <1>2 DEF ListingInv, PageIsItsOwn
<1> QED BY <1>1, <1>2

\* How many rows come before one is a number.
LEMMA PlaceType ==
  ASSUME FiltersMean, table \subseteq DOMAIN RowNames, NEW q \in Asked, NEW r \in DOMAIN RowNames
  PROVE  /\ Place(q, r) \in Nat
         /\ r \in Meant(q) => Place(q, r) < Cardinality(Meant(q))
<1>1. Meant(q) \in SUBSET Nat /\ IsFiniteSet(Meant(q)) /\ r \in Nat
  BY Filtered, PaginationAssumption
<1> QED BY <1>1, BeforeCounts DEF Place

\* A listing begins.
LEMMA NewQueryKeeps ==
  ASSUME FiltersMean, ListingInv, NEW q \in Asked, NewQuery(q)
  PROVE  ListingInv'
<1> DEFINE p == Normalize(q.page)
<1>1. /\ listing' = [step |-> "count", query |-> q, page |-> p, total |-> 0,
                     rows |-> <<>>, result |-> [page |-> 0], from |-> table,
                     changed |-> {}, uncounted |-> FALSE]
      /\ UNCHANGED <<table, deleted>>
  BY DEF NewQuery, tableVars
<1>2. p \in [number : Nat \ {0}, perPage : Nat \ {0}] /\ (q.all => p.number = 1)
  BY NormalizeType, QueriesAssumption
<1> HIDE DEF p
<1>3. q.all => Reached(p) = 0
  BY <1>2 DEF Reached
<1>4. /\ IsListing(listing)' /\ listing'.step = "count" /\ listing'.query = q /\ listing'.page = p
      /\ listing'.total = 0 /\ listing'.rows = <<>> /\ listing'.result.page = 0
      /\ listing'.from = table /\ listing'.changed = {} /\ listing'.uncounted = FALSE
  BY <1>1 DEF IsListing
<1>5. ToSet(listing'.rows) = {} /\ IsInjective(listing'.rows) /\ listing'.rows \in Seq(Nat)
  BY <1>4 DEF ToSet, IsInjective
<1>6. InProgress'
  BY <1>1, <1>2, <1>3, <1>4, <1>5, PaginationAssumption DEF InProgress
<1>7. ReadOnce'
  BY <1>4, <1>5 DEF ReadOnce
<1>8. ReadAll'
  <2>1. ASSUME NEW r \in table, q.all
        PROVE  ~(Place(q, r)' < Reached(p))
    <3>1. Place(q, r) \in Nat /\ Place(q, r)' = Place(q, r)
      BY <1>1, PlaceType DEF ListingInv, Place, Meant
    <3> QED BY <1>3, <2>1, <3>1
  <2> QED BY <1>4, <2>1 DEF ReadAll
<1>9. PageIsItsOwn'
  BY <1>4 DEF PageIsItsOwn
<1> QED BY <1>1, <1>6, <1>7, <1>8, <1>9 DEF ListingInv

\* The count of a page.
LEMMA CountKeeps ==
  ASSUME FiltersMean, ListingInv, Count
  PROVE  ListingInv'
<1>1. InProgress /\ ReadOnce /\ ReadAll /\ listing.step = "count" /\ UNCHANGED <<table, deleted>>
  BY DEF ListingInv, Count, NoListing, tableVars
<1> DEFINE q == listing.query
<1>2. q \in Asked /\ IsListing(listing)
  BY <1>1 DEF InProgress
<1>3. PICK total, uncounted :
        /\ listing' = [listing EXCEPT !.step = "find", !.total = total, !.uncounted = uncounted]
        /\ \/ total = Cardinality(Meant(q)) /\ uncounted = listing.uncounted
           \/ total = 0 /\ uncounted = TRUE
  <2>1. CASE listing' = [listing EXCEPT !.step = "find", !.total = Cardinality(ApplyFilters(listing.query.filters))]
    <3>1. Cardinality(ApplyFilters(q.filters)) = Cardinality(Meant(q))
      BY <1>2, Filtered DEF ListingInv
    <3>2. listing' = [listing EXCEPT !.step = "find", !.total = Cardinality(Meant(q)),
                                     !.uncounted = listing.uncounted]
      BY <1>2, <2>1, <3>1 DEF IsListing
    <3> QED BY <3>2
  <2>2. CASE listing' = [listing EXCEPT !.step = "find", !.total = 0, !.uncounted = TRUE]
    BY <2>2
  <2> QED BY <2>1, <2>2 DEF Count
<1>4. /\ IsListing(listing)' /\ listing'.step = "find" /\ listing'.query = q
      /\ listing'.page = listing.page /\ listing'.total = total /\ listing'.rows = listing.rows
      /\ listing'.from = listing.from /\ listing'.changed = listing.changed
      /\ listing'.uncounted = uncounted
  <2>1. listing' = [step |-> "find", query |-> q, page |-> listing.page, total |-> total,
                    rows |-> listing.rows, result |-> listing.result, from |-> listing.from,
                    changed |-> listing.changed, uncounted |-> uncounted]
    BY <1>2, <1>3 DEF IsListing
  <2> QED BY <2>1 DEF IsListing
<1>5. total \in 0..MaxInt /\ (~uncounted => total = Cardinality(Meant(q)) /\ ~listing.uncounted)
  <2>1. Cardinality(Meant(q)) \in 0..MaxInt
    BY <1>2, Filtered DEF ListingInv
  <2> QED BY <1>3, <2>1, PaginationAssumption
<1>6. Meant(q)' = Meant(q) /\ \A r : Place(q, r)' = Place(q, r)
  BY <1>1, <1>4 DEF Meant, Place
<1>7. InProgress'
  BY <1>1, <1>4, <1>5, <1>6 DEF InProgress
<1>8. ReadOnce'
  BY <1>1, <1>4, <1>6 DEF ReadOnce
<1>9. ReadAll'
  <2> SUFFICES ASSUME q.all, "deleted" \notin listing.changed, ~uncounted,
                      ~(Descending(q.dir) /\ "between" \in listing.changed),
                      NEW r \in listing.from \intersect q.wanted
               PROVE  /\ Place(q, r) < Reached(listing.page) => r \in ToSet(listing.rows)
                      /\ Place(q, r) < total
    BY <1>4, <1>6 DEF ReadAll
  <2>1. r \in Meant(q) /\ r \in DOMAIN RowNames
    BY <1>1 DEF InProgress, Meant, ListingInv
  <2>2. Place(q, r) < Cardinality(Meant(q))
    BY <1>2, <2>1, PlaceType DEF ListingInv
  <2> QED BY <1>1, <1>5, <2>2 DEF ReadAll
<1>10. PageIsItsOwn'
  BY <1>4 DEF PageIsItsOwn
<1> QED BY <1>1, <1>7, <1>8, <1>9, <1>10 DEF ListingInv

\* The rows of two sequences, one after the other.
LEMMA Joined ==
  ASSUME NEW a \in Seq(Nat), NEW b \in Seq(Nat)
  PROVE  /\ a \o b \in Seq(Nat) /\ ToSet(a \o b) = ToSet(a) \union ToSet(b)
         /\ IsInjective(a) /\ IsInjective(b) /\ ToSet(a) \intersect ToSet(b) = {} => IsInjective(a \o b)
<1> DEFINE c == a \o b
           m == Len(a)
           n == Len(b)
<1>1. /\ c \in Seq(Nat) /\ Len(c) = m + n /\ m \in Nat /\ n \in Nat
      /\ DOMAIN c = 1..m + n /\ DOMAIN a = 1..m /\ DOMAIN b = 1..n
      /\ \A i \in 1..m : c[i] = a[i]
      /\ \A i \in 1..n : c[m + i] = b[i]
  OBVIOUS
<1> HIDE DEF c, m, n
<1>2. \A i \in 1..m + n : i \in 1..m \/ (i - m \in 1..n /\ c[i] = b[i - m])
  <2>1. ASSUME NEW i \in 1..m + n, i \notin 1..m
        PROVE  i - m \in 1..n /\ c[i] = b[i - m]
    <3>1. i - m \in 1..n /\ m + (i - m) = i
      BY <1>1, <2>1
    <3> QED BY <1>1, <3>1
  <2> QED BY <2>1
<1>3. ToSet(c) \subseteq ToSet(a) \union ToSet(b)
  BY <1>1, <1>2 DEF ToSet
<1>4. ToSet(a) \subseteq ToSet(c)
  <2>1. \A i \in 1..m : i \in 1..m + n
    BY <1>1
  <2> QED BY <1>1, <2>1 DEF ToSet
<1>5. ToSet(b) \subseteq ToSet(c)
  <2>1. \A i \in 1..n : m + i \in 1..m + n
    BY <1>1
  <2> QED BY <1>1, <2>1 DEF ToSet
<1>6. ASSUME IsInjective(a), IsInjective(b), ToSet(a) \intersect ToSet(b) = {},
             NEW i \in 1..m + n, NEW j \in 1..m + n, c[i] = c[j]
      PROVE  i = j
  <2>1. CASE i \in 1..m /\ j \in 1..m
    BY <1>1, <1>6, <2>1 DEF IsInjective
  <2>2. CASE i \notin 1..m /\ j \notin 1..m
    <3>1. i - m \in 1..n /\ j - m \in 1..n /\ b[i - m] = b[j - m]
      BY <1>2, <1>6, <2>2
    <3>2. i - m = j - m
      BY <1>1, <1>6, <3>1 DEF IsInjective
    <3> QED BY <1>1, <3>2
  <2>3. ASSUME NEW k \in 1..m, NEW l \in 1..m + n, l \notin 1..m
        PROVE  c[k] # c[l]
    <3>1. c[k] \in ToSet(a) /\ c[l] \in ToSet(b)
      BY <1>1, <1>2, <2>3 DEF ToSet
    <3> QED BY <1>6, <3>1
  <2> QED BY <1>6, <2>1, <2>2, <2>3
<1>7. IsInjective(a) /\ IsInjective(b) /\ ToSet(a) \intersect ToSet(b) = {} => IsInjective(c)
  BY <1>1, <1>6 DEF IsInjective
<1> QED BY <1>1, <1>3, <1>4, <1>5, <1>7 DEF c

\* The rows of a page are read.
LEMMA FindKeeps ==
  ASSUME FiltersMean, ListingInv, Find
  PROVE  ListingInv'
<1>1. InProgress /\ ReadOnce /\ ReadAll /\ listing.step = "find" /\ UNCHANGED <<table, deleted>>
  BY DEF ListingInv, Find, NoListing, tableVars
<1> DEFINE q == listing.query
           p == listing.page
           total == listing.total
           data == PageRows(q, p)
           more == q.all /\ total > p.number * p.perPage
<1>2. /\ q \in Asked /\ IsListing(listing) /\ p \in [number : Nat \ {0}, perPage : Nat \ {0}]
      /\ total \in Nat /\ total <= MaxInt /\ listing.rows \in Seq(Nat)
      /\ table \subseteq DOMAIN RowNames
  BY <1>1, PaginationAssumption DEF InProgress, ListingInv
<1>3. \A x : Meant(x)' = Meant(x) /\ \A r : Place(x, r)' = Place(x, r)
  BY <1>1 DEF Meant, Place
<1>4. CASE listing' = [listing EXCEPT !.step = "failed"]
  <2>1. /\ IsListing(listing)' /\ listing'.step = "failed" /\ listing'.query = q
        /\ listing'.page = p /\ listing'.total = total /\ listing'.rows = listing.rows
        /\ listing'.from = listing.from /\ listing'.changed = listing.changed
        /\ listing'.uncounted = listing.uncounted
    BY <1>2, <1>4 DEF IsListing
  <2>2. InProgress'
    BY <1>1, <2>1 DEF InProgress
  <2>3. ReadOnce' /\ ReadAll'
    BY <1>1, <2>1 DEF ReadOnce, ReadAll
  <2>4. PageIsItsOwn'
    BY <2>1 DEF PageIsItsOwn
  <2> QED BY <1>1, <2>2, <2>3, <2>4 DEF ListingInv
<1>5. CASE listing' # [listing EXCEPT !.step = "failed"]
  <2> DEFINE result == NewResult(data, total, p)
             n == p.number
             d == p.perPage
  <2>1. /\ n \in Nat \ {0} /\ d \in Nat \ {0} /\ n * d \in Nat
        /\ Reached(p) \in Nat /\ Reached(p) + d = n * d
        /\ p = [number |-> n, perPage |-> d]
    BY <1>2, OffsetExact
  <2>2. /\ result.data = data /\ result.page = n /\ result.perPage = d
        /\ result.hasNext <=> total > n * d
    BY <1>2, <2>1, HasNext DEF NewResult
  <2>3. /\ data \in Seq(Nat) /\ IsInjective(data) /\ ToSet(data) \subseteq Meant(q)
        /\ Reached(p) <= MaxInt =>
              ToSet(data) = {r \in Meant(q) : Reached(p) <= Place(q, r) /\ Place(q, r) < n * d}
    BY <1>2, PageHolds
  <2>4. listing' = [listing EXCEPT !.rows = @ \o data, !.result = result,
                                   !.step = IF more THEN "count" ELSE "done",
                                   !.page.number = IF more THEN @ + 1 ELSE @]
    BY <1>2, <1>5, <2>2 DEF Find
  <2> HIDE DEF result, data
  <2> DEFINE rows == listing.rows \o data
             next == [number |-> IF more THEN n + 1 ELSE n, perPage |-> d]
  <2>5. /\ IsListing(listing)' /\ listing'.step = (IF more THEN "count" ELSE "done")
        /\ listing'.query = q /\ listing'.page = next /\ listing'.total = total
        /\ listing'.rows = rows /\ listing'.result = result
        /\ listing'.from = listing.from /\ listing'.changed = listing.changed
        /\ listing'.uncounted = listing.uncounted
    <3>1. listing' = [step |-> IF more THEN "count" ELSE "done", query |-> q, page |-> next,
                      total |-> total, rows |-> rows, result |-> result, from |-> listing.from,
                      changed |-> listing.changed, uncounted |-> listing.uncounted]
      BY <1>2, <2>1, <2>4 DEF IsListing
    <3> QED BY <3>1 DEF IsListing
  <2>6. /\ next \in [number : Nat \ {0}, perPage : Nat \ {0}]
        /\ more => Reached(next) = n * d /\ n * d <= MaxInt
    <3>1. more => Reached(next) = n * d
      BY <2>1 DEF Reached
    <3> QED BY <1>2, <2>1, <3>1, PaginationAssumption
  <2>7. rows \in Seq(Nat) /\ ToSet(rows) = ToSet(listing.rows) \union ToSet(data)
        /\ (IsInjective(listing.rows) /\ ToSet(listing.rows) \intersect ToSet(data) = {} => IsInjective(rows))
    BY <1>2, <2>3, Joined
  <2> HIDE DEF rows, next, more
  <2>8. InProgress'
    <3>1. ToSet(rows) \subseteq (table \union deleted) \intersect q.wanted
      BY <1>1, <2>3, <2>7 DEF InProgress, Meant
    <3>2. listing'.step = "count" => more
      BY <2>5
    <3> QED BY <1>1, <2>5, <2>6, <2>7, <3>1, <3>2 DEF InProgress
  <2>9. q.all => /\ Reached(p) <= MaxInt
                 /\ ToSet(data) = {r \in Meant(q) : Reached(p) <= Place(q, r) /\ Place(q, r) < n * d}
    BY <1>1, <2>3 DEF InProgress
  <2>10. \A r \in Meant(q) : Place(q, r) \in Nat
    BY <1>2, PlaceType DEF Meant
  <2>11. ReadOnce'
    <3> SUFFICES ASSUME q.all, ~(Descending(q.dir) /\ "inserted" \in listing.changed)
                 PROVE  /\ IsInjective(rows)
                        /\ more => \A r \in ToSet(rows) \intersect table : Place(q, r) < n * d
      BY <1>1, <1>3, <2>5, <2>6 DEF ReadOnce
    <3>1. /\ IsInjective(listing.rows)
          /\ \A r \in ToSet(listing.rows) \intersect table : Place(q, r) < Reached(p)
      BY <1>1 DEF ReadOnce
    <3>2. ToSet(listing.rows) \intersect table \subseteq Meant(q)
      BY <1>1 DEF InProgress, Meant
    <3>3. ToSet(listing.rows) \intersect ToSet(data) = {}
      <4> SUFFICES ASSUME NEW r \in ToSet(listing.rows) \intersect ToSet(data) PROVE FALSE
        OBVIOUS
      <4>1. r \in table /\ r \in Meant(q) /\ Reached(p) <= Place(q, r)
        BY <2>9 DEF Meant
      <4> QED BY <2>1, <2>10, <3>1, <4>1
    <3>4. ASSUME NEW r \in ToSet(rows) \intersect table
          PROVE  Place(q, r) < n * d
      BY <2>1, <2>7, <2>9, <2>10, <3>1, <3>2
    <3> QED BY <2>7, <3>1, <3>3, <3>4
  <2>12. ReadAll'
    <3> SUFFICES ASSUME q.all, "deleted" \notin listing.changed, ~listing.uncounted,
                        ~(Descending(q.dir) /\ "between" \in listing.changed),
                        NEW r \in listing.from \intersect q.wanted
                 PROVE  /\ more /\ Place(q, r) < n * d => r \in ToSet(rows)
                        /\ ~more => r \in ToSet(rows)
      BY <1>3, <2>5, <2>6 DEF ReadAll
    <3>1. (Place(q, r) < Reached(p) => r \in ToSet(listing.rows)) /\ Place(q, r) < total
      BY <1>1 DEF ReadAll
    <3>2. r \in Meant(q) /\ Place(q, r) \in Nat
      BY <1>1, <2>10 DEF InProgress, Meant
    <3>3. Place(q, r) < n * d => r \in ToSet(rows)
      BY <2>1, <2>7, <2>9, <3>1, <3>2
    <3>4. ~more => Place(q, r) < n * d
      BY <1>2, <2>1, <3>1, <3>2 DEF more
    <3> QED BY <3>3, <3>4
  <2>13. PageIsItsOwn'
    <3> SUFFICES ASSUME listing.changed = {}, ~listing.uncounted, n * d <= MaxInt
                 PROVE  /\ ToSet(data) = {r \in Meant(q) : Place(q, r) \div d = n - 1}
                        /\ total > n * d <=> Cardinality(Meant(q)) > n * d
      <4>1. result.data = data /\ result.page = n /\ result.perPage = d /\ (result.hasNext <=> total > n * d)
        BY <2>2
      <4>2. listing'.result = result /\ listing'.query = q /\ listing'.changed = listing.changed
            /\ listing'.uncounted = listing.uncounted
        BY <2>5
      <4> QED BY <1>1, <4>1, <4>2 DEF PageIsItsOwn, Place, Meant, Before, Ahead
    <3>1. total = Cardinality(Meant(q))
      BY <1>1 DEF InProgress
    <3>2. Reached(p) <= MaxInt /\ Reached(p) = (n - 1) * d
      BY <2>1, PaginationAssumption DEF Reached
    <3>3. ASSUME NEW r \in Meant(q)
          PROVE  Place(q, r) \div d = n - 1 <=> Reached(p) <= Place(q, r) /\ Place(q, r) < n * d
      <4>1. Place(q, r) \in Nat /\ n - 1 \in Nat
        BY <2>1, <2>10
      <4> QED BY <2>1, <3>2, <4>1, Quotient
    <3> QED BY <2>3, <3>1, <3>2, <3>3
  <2> QED BY <1>1, <2>8, <2>11, <2>12, <2>13 DEF ListingInv
<1> QED BY <1>4, <1>5

\* With more rows no fewer come before one; with another that does not, as many.
LEMMA BeforeGrows ==
  ASSUME NEW S \in SUBSET Nat, NEW T \in SUBSET Nat, IsFiniteSet(T), S \subseteq T, NEW dir, NEW x \in Nat
  PROVE  /\ Before(S, dir, x) \in Nat /\ Before(T, dir, x) \in Nat
         /\ Before(S, dir, x) <= Before(T, dir, x)
         /\ (\A y \in T \ S : ~Ahead(dir, y, x)) => Before(S, dir, x) = Before(T, dir, x)
<1> DEFINE P == {s \in S : Ahead(dir, s, x)}
           Q == {s \in T : Ahead(dir, s, x)}
<1>1. P \in SUBSET Q /\ Q \in SUBSET T /\ ((\A y \in T \ S : ~Ahead(dir, y, x)) => P = Q)
  OBVIOUS
<1>2. Before(S, dir, x) = Cardinality(P) /\ Before(T, dir, x) = Cardinality(Q)
  BY DEF Before
<1> HIDE DEF P, Q
<1>3. IsFiniteSet(Q)
  BY <1>1, FS_Subset
<1>4. IsFiniteSet(P) /\ Cardinality(P) <= Cardinality(Q)
  BY <1>1, <1>3, FS_Subset
<1>5. Cardinality(P) \in Nat /\ Cardinality(Q) \in Nat
  BY <1>3, <1>4, FS_CardinalityType
<1> QED BY <1>1, <1>2, <1>4, <1>5

\* What another client's change leaves of a listing.
LEMMA NotedIs ==
  ASSUME InProgress, listing # NoListing, NEW how, Noted(how)
  PROVE  /\ IsListing(listing)' /\ listing'.step = listing.step /\ listing'.query = listing.query
         /\ listing'.page = listing.page /\ listing'.total = listing.total
         /\ listing'.rows = listing.rows /\ listing'.from = listing.from
         /\ listing'.uncounted = listing.uncounted
         /\ listing.changed \subseteq listing'.changed /\ how \in listing'.changed
         /\ listing'.changed \subseteq listing.changed \union {how, "between"}
         /\ listing.step = "find" => "between" \in listing'.changed
         /\ listing' # NoListing
<1> DEFINE new == listing.changed \union {how} \union (IF listing.step = "find" THEN {"between"} ELSE {})
<1>1. IsListing(listing) /\ listing' = [listing EXCEPT !.changed = new]
  BY DEF InProgress, Noted
<1>2. listing.changed \subseteq new /\ how \in new /\ new \subseteq listing.changed \union {how, "between"}
      /\ (listing.step = "find" => "between" \in new)
  OBVIOUS
<1> HIDE DEF new
<1>3. listing' = [step |-> listing.step, query |-> listing.query, page |-> listing.page,
                  total |-> listing.total, rows |-> listing.rows, result |-> listing.result,
                  from |-> listing.from, changed |-> new, uncounted |-> listing.uncounted]
  BY <1>1 DEF IsListing
<1>4. listing' # NoListing
  <2>1. DOMAIN listing' # DOMAIN NoListing
    BY <1>3 DEF NoListing
  <2> QED BY <2>1
<1> QED BY <1>2, <1>3, <1>4 DEF IsListing

\* Another client inserts a row.
LEMMA InsertKeeps ==
  ASSUME FiltersMean, ListingInv, NEW r \in DOMAIN RowNames, Insert(r)
  PROVE  ListingInv'
<1>1. /\ table' = table \union {r} /\ deleted' = deleted /\ Noted("inserted")
      /\ r \notin table \union deleted
      /\ table \subseteq DOMAIN RowNames /\ table' \subseteq DOMAIN RowNames /\ deleted \subseteq DOMAIN RowNames
      /\ \A s \in table : s \in Nat /\ s < r
  BY PaginationAssumption DEF Insert, ListingInv
<1>2. CASE listing = NoListing
  BY <1>1, <1>2 DEF ListingInv, Noted, PageIsItsOwn
<1>3. CASE listing # NoListing
  <2> DEFINE q == listing.query
  <2>1. InProgress /\ ReadOnce /\ ReadAll /\ q \in Asked
    BY <1>3 DEF ListingInv, InProgress
  <2>2. /\ IsListing(listing)' /\ listing'.step = listing.step /\ listing'.query = q
        /\ listing'.page = listing.page /\ listing'.total = listing.total
        /\ listing'.rows = listing.rows /\ listing'.from = listing.from
        /\ listing'.uncounted = listing.uncounted
        /\ listing.changed \subseteq listing'.changed /\ "inserted" \in listing'.changed
        /\ listing'.changed \subseteq listing.changed \union {"inserted", "between"}
        /\ listing.step = "find" => "between" \in listing'.changed
        /\ listing' # NoListing
    BY <1>1, <1>3, <2>1, NotedIs
  <2> DEFINE T == table' \intersect q.wanted
  <2>3. ASSUME NEW s \in table
        PROVE  /\ Place(q, s) \in Nat /\ Before(T, q.dir, s) \in Nat /\ Place(q, s) <= Before(T, q.dir, s)
               /\ ~Descending(q.dir) => Before(T, q.dir, s) = Place(q, s)
    <3>1. Meant(q) \subseteq T /\ T \in SUBSET DOMAIN RowNames /\ T \ Meant(q) \subseteq {r}
      BY <1>1 DEF Meant
    <3>2. IsFiniteSet(T)
      BY <3>1, FS_Subset, PaginationAssumption
    <3>3. T \in SUBSET Nat /\ Meant(q) \in SUBSET Nat /\ s \in Nat
      BY <1>1, <3>1, PaginationAssumption
    <3>4. ~Descending(q.dir) => ~Ahead(q.dir, r, s)
      BY <1>1, PaginationAssumption DEF Ahead
    <3> HIDE DEF T, q
    <3> QED BY <3>1, <3>2, <3>3, <3>4, BeforeGrows DEF Place
  <2>4. \A x : Place(q, x)' = Before(T, q.dir, x)
    BY <2>2 DEF Place, Meant
  <2> HIDE DEF T
  <2>5. InProgress'
    BY <1>1, <2>1, <2>2 DEF InProgress
  <2>6. ReadOnce'
    <3> SUFFICES ASSUME q.all, ~Descending(q.dir)
                 PROVE  /\ IsInjective(listing.rows)
                        /\ listing.step \in {"count", "find"} =>
                             \A s \in ToSet(listing.rows) \intersect table' :
                               Before(T, q.dir, s) < Reached(listing.page)
      BY <2>2, <2>4 DEF ReadOnce
    <3>1. ToSet(listing.rows) \intersect table' \subseteq table
      BY <1>1, <2>1 DEF InProgress
    <3> QED BY <2>1, <2>3, <3>1 DEF ReadOnce
  <2>7. ReadAll'
    <3> SUFFICES ASSUME q.all, "deleted" \notin listing'.changed, ~listing.uncounted,
                        ~(Descending(q.dir) /\ "between" \in listing'.changed),
                        NEW s \in listing.from \intersect q.wanted
                 PROVE  /\ listing.step \in {"count", "find"} /\ Before(T, q.dir, s) < Reached(listing.page) =>
                             s \in ToSet(listing.rows)
                        /\ listing.step = "find" => Before(T, q.dir, s) < listing.total
                        /\ listing.step = "done" => s \in ToSet(listing.rows)
      BY <2>2, <2>4 DEF ReadAll
    <3>1. /\ listing.step \in {"count", "find"} /\ Place(q, s) < Reached(listing.page) =>
               s \in ToSet(listing.rows)
          /\ listing.step = "find" => Place(q, s) < listing.total
          /\ listing.step = "done" => s \in ToSet(listing.rows)
      BY <2>1, <2>2 DEF ReadAll
    <3>2. s \in table
      BY <2>1, <2>2 DEF InProgress
    <3>3. Reached(listing.page) \in Nat
      BY <2>1, OffsetExact DEF InProgress
    <3>4. listing.step = "find" => ~Descending(q.dir)
      BY <2>2
    <3> QED BY <2>3, <3>1, <3>2, <3>3, <3>4
  <2>8. PageIsItsOwn'
    BY <2>2 DEF PageIsItsOwn
  <2> QED BY <1>1, <2>5, <2>6, <2>7, <2>8 DEF ListingInv
<1> QED BY <1>2, <1>3

\* Another client deletes a row.
LEMMA DeleteKeeps ==
  ASSUME FiltersMean, ListingInv, NEW r \in DOMAIN RowNames, Delete(r)
  PROVE  ListingInv'
<1>1. /\ table' = table \ {r} /\ deleted' = deleted \union {r} /\ Noted("deleted") /\ r \in table
      /\ table \subseteq DOMAIN RowNames /\ table' \subseteq DOMAIN RowNames /\ deleted' \subseteq DOMAIN RowNames
  BY DEF Delete, ListingInv
<1>2. CASE listing = NoListing
  BY <1>1, <1>2 DEF ListingInv, Noted, PageIsItsOwn
<1>3. CASE listing # NoListing
  <2> DEFINE q == listing.query
  <2>1. InProgress /\ ReadOnce /\ ReadAll /\ q \in Asked
    BY <1>3 DEF ListingInv, InProgress
  <2>2. /\ IsListing(listing)' /\ listing'.step = listing.step /\ listing'.query = q
        /\ listing'.page = listing.page /\ listing'.total = listing.total
        /\ listing'.rows = listing.rows /\ listing'.from = listing.from
        /\ listing'.uncounted = listing.uncounted
        /\ listing.changed \subseteq listing'.changed /\ "deleted" \in listing'.changed
        /\ listing'.changed \subseteq listing.changed \union {"deleted", "between"}
    BY <1>1, <1>3, <2>1, NotedIs
  <2> DEFINE T == table' \intersect q.wanted
  <2>3. ASSUME NEW s \in table
        PROVE  Place(q, s) \in Nat /\ Before(T, q.dir, s) \in Nat /\ Before(T, q.dir, s) <= Place(q, s)
    <3>1. T \subseteq Meant(q) /\ Meant(q) \in SUBSET DOMAIN RowNames
      BY <1>1 DEF Meant
    <3>2. IsFiniteSet(Meant(q))
      BY <3>1, FS_Subset, PaginationAssumption
    <3>3. T \in SUBSET Nat /\ Meant(q) \in SUBSET Nat /\ s \in Nat
      BY <1>1, <3>1, PaginationAssumption
    <3> HIDE DEF T, q
    <3> QED BY <3>1, <3>2, <3>3, BeforeGrows DEF Place
  <2>4. \A x : Place(q, x)' = Before(T, q.dir, x)
    BY <2>2 DEF Place, Meant
  <2> HIDE DEF T
  <2>5. InProgress'
    BY <1>1, <2>1, <2>2 DEF InProgress
  <2>6. ReadOnce'
    <3> SUFFICES ASSUME q.all, ~(Descending(q.dir) /\ "inserted" \in listing.changed)
                 PROVE  /\ IsInjective(listing.rows)
                        /\ listing.step \in {"count", "find"} =>
                             \A s \in ToSet(listing.rows) \intersect table' :
                               Before(T, q.dir, s) < Reached(listing.page)
      BY <2>2, <2>4 DEF ReadOnce
    <3>1. ToSet(listing.rows) \intersect table' \subseteq ToSet(listing.rows) \intersect table
      BY <1>1
    <3>2. Reached(listing.page) \in Nat
      BY <2>1, OffsetExact DEF InProgress
    <3>3. /\ IsInjective(listing.rows)
          /\ listing.step \in {"count", "find"} =>
               \A s \in ToSet(listing.rows) \intersect table : Place(q, s) < Reached(listing.page)
      BY <2>1 DEF ReadOnce
    <3> QED BY <2>3, <3>1, <3>2, <3>3
  <2>7. ReadAll'
    BY <2>2 DEF ReadAll
  <2>8. PageIsItsOwn'
    BY <2>2 DEF PageIsItsOwn
  <2> QED BY <1>1, <2>5, <2>6, <2>7, <2>8 DEF ListingInv
<1> QED BY <1>2, <1>3

-----------------------------------------------------------------------------
(* Files. *)

\* The fields of a writer, and the tabs that its first k sheets make if each has one
\* of its own.
IsWriter(w) == w = [pc |-> w.pc, format |-> w.format, sheets |-> w.sheets, next |-> w.next,
                    tabs |-> w.tabs, ok |-> w.ok, waiting |-> w.waiting, ended |-> w.ended]
Tabs(sheets, k) == [i \in 1..k |-> [name |-> ResolveSheetName(sheets[i].name), rows |-> sheets[i].rows]]
Distinct(sheets) ==
  IsInjective([i \in DOMAIN sheets |-> SheetKey(ResolveSheetName(sheets[i].name))])

\* A writer at work: one without an error has written the sheets before the next
\* one, and sends when there is none left.
Written(w) ==
  /\ IsWriter(w) /\ w.pc \in {"write", "send", "sent"} /\ w.next \in Nat \ {0}
  /\ w.ok => /\ w.next <= 2 \/ Distinct(w.sheets) => w.tabs = Tabs(w.sheets, w.next - 1)
             /\ IF w.pc = "write" THEN w.next <= Len(w.sheets) /\ (w.format = "csv" => w.next = 1)
                ELSE w.next = IF w.format = "csv" THEN 2 ELSE Len(w.sheets) + 1
  /\ ~w.ok => w.pc # "write"

\* A request for a file: while it waits for the writer, which writes what was listed,
\* and when it has the file.
Waits ==
  /\ listing # NoListing /\ listing.step = "done"
  /\ writer # NoWriter /\ writer.waiting = TRUE /\ Written(writer)
  /\ writer.format = req.export.format /\ writer.format \in {"xlsx", "csv"}
  /\ writer.sheets = Sheets(req.export.book, listing.rows) /\ req.export.book # <<>>
ExportInv ==
  req # NoReq =>
    /\ req.route = "export" => req.export \in Exports
    /\ req.step = "write" => req.route = "export" /\ req.file = None /\ Waits
    /\ req.file # None => /\ req.step = "out" /\ listing # NoListing /\ listing.step = "done"
                          /\ WrittenWhole

\* The sheets of a book.
LEMMA SheetsAre ==
  ASSUME NEW book \in Seq(STRING), NEW rows
  PROVE  LET sheets == Sheets(book, rows) IN
         /\ DOMAIN sheets = 1..Len(book) /\ sheets \in Seq({sheets[i] : i \in 1..Len(book)})
         /\ Len(sheets) = Len(book) /\ Len(book) \in Nat
         /\ 1 \in 1..Len(book) => sheets[1].rows = rows
         /\ sheets # <<>> => book # <<>>
<1> DEFINE sheets == Sheets(book, rows)
           T == {sheets[i] : i \in 1..Len(book)}
<1>1. Len(book) \in Nat /\ DOMAIN book = 1..Len(book)
  OBVIOUS
<1>2. DOMAIN sheets = 1..Len(book) /\ (1 \in 1..Len(book) => sheets[1].rows = rows)
  BY <1>1 DEF Sheets
<1>3. sheets = [i \in 1..Len(book) |-> sheets[i]]
  BY <1>1 DEF Sheets
<1> HIDE DEF sheets
<1>4. sheets \in [1..Len(book) -> T]
  BY <1>3
<1> HIDE DEF T
<1>5. sheets \in Seq(T) /\ Len(sheets) = Len(book)
  BY <1>1, <1>4
<1>6. sheets # <<>> => book # <<>>
  BY <1>1, <1>5
<1> QED BY <1>1, <1>2, <1>5, <1>6 DEF sheets, T

\* A sheet whose name no tab has yet gets a tab of its own behind the others.
LEMMA TabAdded ==
  ASSUME NEW sheets, NEW k \in Nat, k + 1 \in DOMAIN sheets, 1..k \subseteq DOMAIN sheets,
         k = 0 \/ Distinct(sheets)
  PROVE  AddTab(Tabs(sheets, k), sheets[k + 1]) = Tabs(sheets, k + 1)
<1> DEFINE Tab(i) == [name |-> ResolveSheetName(sheets[i].name), rows |-> sheets[i].rows]
           tabs == Tabs(sheets, k)
           X == {Tab(i) : i \in 1..k + 1}
           Key(i) == SheetKey(ResolveSheetName(sheets[i].name))
           old == {i \in DOMAIN tabs : SheetKey(tabs[i].name) = Key(k + 1)}
<1>1. tabs = [i \in 1..k |-> Tab(i)] /\ Tabs(sheets, k + 1) = [i \in 1..k + 1 |-> Tab(i)]
  BY DEF Tabs
<1>2. DOMAIN tabs = 1..k /\ \A i \in 1..k : tabs[i].name = ResolveSheetName(sheets[i].name)
  BY <1>1
<1>3. old = {}
  <2> SUFFICES ASSUME NEW i \in 1..k, Key(i) = Key(k + 1)
               PROVE  FALSE
    BY <1>2
  <2>1. Distinct(sheets) /\ i # k + 1 /\ i \in DOMAIN sheets
    OBVIOUS
  <2> QED BY <2>1 DEF Distinct, IsInjective
<1>4. AddTab(tabs, sheets[k + 1]) = Append(tabs, Tab(k + 1))
  BY <1>3 DEF AddTab
<1>5. \A i \in 1..k + 1 : Tab(i) \in X
  OBVIOUS
<1>6. tabs \in [1..k -> X] /\ Tab(k + 1) \in X
  BY <1>1, <1>5
<1> HIDE DEF Tab, tabs, X, old
<1>7. tabs \in Seq(X) /\ Len(tabs) = k
  BY <1>6
<1>8. /\ Append(tabs, Tab(k + 1)) \in [1..k + 1 -> X]
      /\ \A i \in 1..k : Append(tabs, Tab(k + 1))[i] = tabs[i]
      /\ Append(tabs, Tab(k + 1))[k + 1] = Tab(k + 1)
  <2> DEFINE e == Tab(k + 1)
  <2>1. e \in X
    BY <1>6
  <2> HIDE DEF e
  <2>2. Append(tabs, e) \in Seq(X) /\ Len(Append(tabs, e)) = k + 1
    BY <1>7, <2>1
  <2>3. (\A i \in 1..k : Append(tabs, e)[i] = tabs[i]) /\ Append(tabs, e)[k + 1] = e
    BY <1>7, <2>1
  <2>4. Append(tabs, e) \in [1..k + 1 -> X]
    <3> DEFINE a == Append(tabs, e)
    <3>1. a \in Seq(X) /\ Len(a) = k + 1
      BY <2>2
    <3> HIDE DEF a
    <3>2. a \in [1..k + 1 -> X]
      BY <3>1
    <3> QED BY <3>2 DEF a
  <2> QED BY <2>3, <2>4 DEF e
<1>9. \A i \in 1..k + 1 : Append(tabs, Tab(k + 1))[i] = Tab(i)
  <2>1. \A i \in 1..k : tabs[i] = Tab(i)
    BY <1>1
  <2>2. \A i \in 1..k + 1 : i \in 1..k \/ i = k + 1
    OBVIOUS
  <2> QED BY <1>8, <2>1, <2>2
<1>10. Append(tabs, Tab(k + 1)) = [i \in 1..k + 1 |-> Tab(i)]
  BY <1>8, <1>9
<1> QED BY <1>1, <1>4, <1>10 DEF tabs

\* The goroutine goes on, or the client goes away.
LEMMA WriterKeeps ==
  ASSUME Written(writer), writer.waiting = TRUE, NEW book \in Seq(STRING), book # <<>>, NEW rows,
         writer.sheets = Sheets(book, rows),
         WriteSheet \/ SendResult \/ Disconnect
  PROVE  /\ Written(writer') /\ writer' # NoWriter /\ writer'.waiting = TRUE
         /\ writer'.format = writer.format /\ writer'.sheets = writer.sheets
<1> DEFINE w == writer
           With(pc, next, tabs, ok, ended) ==
             [pc |-> pc, format |-> w.format, sheets |-> w.sheets, next |-> next,
              tabs |-> tabs, ok |-> ok, waiting |-> TRUE, ended |-> ended]
<1>0. /\ DOMAIN w.sheets = 1..Len(w.sheets) /\ Len(w.sheets) \in Nat /\ Len(w.sheets) >= 1
  <2>1. Len(book) >= 1
    OBVIOUS
  <2>2. DOMAIN Sheets(book, rows) = 1..Len(book) /\ Len(Sheets(book, rows)) = Len(book) /\ Len(book) \in Nat
    BY SheetsAre
  <2> QED BY <2>1, <2>2
<1>1. /\ IsWriter(w) /\ w.pc \in {"write", "send", "sent"} /\ w.next \in Nat \ {0}
      /\ w = With(w.pc, w.next, w.tabs, w.ok, w.ended)
  BY DEF Written, IsWriter
<1>2. ASSUME NEW pc, NEW next, NEW tabs, NEW ok, NEW ended, writer' = With(pc, next, tabs, ok, ended)
      PROVE  /\ IsWriter(writer') /\ writer' # NoWriter /\ writer'.waiting = TRUE
             /\ writer'.format = w.format /\ writer'.sheets = w.sheets
             /\ writer'.pc = pc /\ writer'.next = next /\ writer'.tabs = tabs /\ writer'.ok = ok
  <2>1. DOMAIN writer' # DOMAIN NoWriter
    BY <1>2 DEF NoWriter
  <2> QED BY <1>2, <2>1 DEF IsWriter
<1>3. CASE WriteSheet
  <2> DEFINE pc == IF w.format = "csv" \/ w.next = Len(w.sheets) THEN "send" ELSE "write"
             tabs == AddTab(w.tabs, w.sheets[w.next])
  <2>1. CASE writer' = With("send", w.next, w.tabs, FALSE, w.ended)
    BY <1>1, <1>2, <2>1 DEF Written
  <2>2. CASE writer' = With(pc, w.next + 1, tabs, w.ok, w.ended)
    <3>1. /\ IsWriter(writer') /\ writer' # NoWriter /\ writer'.waiting = TRUE
          /\ writer'.format = w.format /\ writer'.sheets = w.sheets
          /\ writer'.pc = pc /\ writer'.next = w.next + 1 /\ writer'.tabs = tabs /\ writer'.ok = w.ok
      <4> HIDE DEF pc, tabs, w
      <4> QED BY <1>2, <2>2
    <3>2. w.ok /\ w.pc = "write" /\ w.next <= Len(w.sheets) /\ (w.format = "csv" => w.next = 1)
          /\ (w.next <= 2 \/ Distinct(w.sheets) => w.tabs = Tabs(w.sheets, w.next - 1))
      BY <1>3 DEF WriteSheet, Written
    <3>3. w.next + 1 <= 2 \/ Distinct(w.sheets) => tabs = Tabs(w.sheets, w.next + 1 - 1)
      <4> SUFFICES ASSUME w.next + 1 <= 2 \/ Distinct(w.sheets)
                   PROVE  tabs = Tabs(w.sheets, w.next + 1 - 1)
        OBVIOUS
      <4> DEFINE k == w.next - 1
      <4>1. k \in Nat /\ k + 1 = w.next /\ w.next + 1 - 1 = w.next /\ (k = 0 \/ Distinct(w.sheets))
            /\ w.next \in 1..Len(w.sheets) /\ 1..k \subseteq 1..Len(w.sheets)
        BY <1>0, <1>1, <3>2
      <4>2. w.tabs = Tabs(w.sheets, k)
        BY <3>2, <4>1
      <4> HIDE DEF k
      <4>3. AddTab(Tabs(w.sheets, k), w.sheets[k + 1]) = Tabs(w.sheets, k + 1)
        BY <1>0, <4>1, TabAdded
      <4> QED BY <4>1, <4>2, <4>3
    <3>4. IF writer'.pc = "write" THEN writer'.next <= Len(w.sheets) /\ (w.format = "csv" => writer'.next = 1)
          ELSE writer'.next = IF w.format = "csv" THEN 2 ELSE Len(w.sheets) + 1
      <4> HIDE DEF tabs
      <4> QED BY <1>0, <1>1, <3>1, <3>2
    <3>5. Written(writer')
      <4> HIDE DEF tabs
      <4>1. writer'.pc \in {"write", "send", "sent"} /\ writer'.next \in Nat \ {0}
        BY <1>1, <3>1
      <4> QED BY <3>1, <3>2, <3>3, <3>4, <4>1 DEF Written
    <3> QED BY <3>1, <3>5
  <2>3. writer' = With("send", w.next, w.tabs, FALSE, w.ended) \/ writer' = With(pc, w.next + 1, tabs, w.ok, w.ended)
    BY <1>1, <1>3 DEF WriteSheet
  <2> QED BY <2>1, <2>2, <2>3
<1>4. CASE SendResult
  <2>1. writer' = With("sent", w.next, w.tabs, w.ok, w.ended) /\ w.pc = "send"
    BY <1>1, <1>4 DEF SendResult, Sent
  <2>2. /\ IsWriter(writer') /\ writer' # NoWriter /\ writer'.waiting = TRUE
        /\ writer'.format = w.format /\ writer'.sheets = w.sheets
        /\ writer'.pc = "sent" /\ writer'.next = w.next /\ writer'.tabs = w.tabs /\ writer'.ok = w.ok
    BY <1>2, <2>1
  <2> QED BY <1>1, <2>1, <2>2 DEF Written
<1>5. CASE Disconnect
  <2>1. writer' = With(w.pc, w.next, w.tabs, w.ok, TRUE)
    BY <1>1, <1>5 DEF Disconnect
  <2>2. /\ IsWriter(writer') /\ writer' # NoWriter /\ writer'.waiting = TRUE
        /\ writer'.format = w.format /\ writer'.sheets = w.sheets
        /\ writer'.pc = w.pc /\ writer'.next = w.next /\ writer'.tabs = w.tabs /\ writer'.ok = w.ok
    BY <1>2, <2>1
  <2> QED BY <1>1, <2>2 DEF Written
<1> QED BY <1>3, <1>4, <1>5

\* What the writer sends without an error is the file that was asked for.
LEMMA FileIs ==
  ASSUME NEW w, Written(w), w.ok, w.pc # "write", NEW book \in Seq(STRING), book # <<>>, NEW rows,
         w.sheets = Sheets(book, rows)
  PROVE  LET file == [i \in DOMAIN w.tabs |-> w.tabs[i].rows] IN
         /\ w.format = "csv" => file = <<rows>>
         /\ w.format # "csv" /\ Distinct(w.sheets) => file = [i \in DOMAIN w.sheets |-> w.sheets[i].rows]
<1> DEFINE sheets == w.sheets
           file == [i \in DOMAIN w.tabs |-> w.tabs[i].rows]
<1>1. /\ DOMAIN sheets = 1..Len(sheets) /\ Len(sheets) \in Nat /\ Len(sheets) >= 1
      /\ sheets[1].rows = rows
  <2>1. Len(book) \in Nat /\ Len(book) >= 1
    OBVIOUS
  <2>2. /\ DOMAIN Sheets(book, rows) = 1..Len(book) /\ Len(Sheets(book, rows)) = Len(book)
        /\ 1 \in 1..Len(book) => Sheets(book, rows)[1].rows = rows
    BY SheetsAre
  <2> QED BY <2>1, <2>2
<1>2. ASSUME NEW k \in Nat, w.tabs = Tabs(sheets, k)
      PROVE  file = [i \in 1..k |-> sheets[i].rows]
  <2>1. DOMAIN w.tabs = 1..k /\ \A i \in 1..k : w.tabs[i].rows = sheets[i].rows
    BY <1>2 DEF Tabs
  <2> QED BY <2>1
<1>3. /\ w.next <= 2 \/ Distinct(sheets) => w.tabs = Tabs(sheets, w.next - 1)
      /\ w.next = IF w.format = "csv" THEN 2 ELSE Len(sheets) + 1
  BY DEF Written
<1>4. ASSUME w.format = "csv"
      PROVE  file = <<rows>>
  <2>1. w.tabs = Tabs(sheets, 1)
    BY <1>3, <1>4
  <2>2. file = [i \in 1..1 |-> sheets[i].rows]
    BY <1>2, <2>1
  <2> HIDE DEF file, sheets
  <2>3. DOMAIN file = 1..1 /\ file[1] = rows /\ file = [i \in 1..1 |-> file[i]]
    BY <1>1, <2>2
  <2> QED BY <2>3
<1>5. ASSUME w.format # "csv", Distinct(sheets)
      PROVE  file = [i \in DOMAIN sheets |-> sheets[i].rows]
  <2>1. w.tabs = Tabs(sheets, Len(sheets))
    BY <1>1, <1>3, <1>5
  <2> QED BY <1>1, <1>2, <2>1
<1> QED BY <1>4, <1>5

\* A step that keeps the request, its writer and what it has listed.
LEMMA ExportFrame ==
  ASSUME ExportInv, UNCHANGED <<req, writer>>,
         listing # NoListing /\ listing.step = "done" =>
           listing' # NoListing /\ listing'.step = "done" /\ listing'.rows = listing.rows
  PROVE  ExportInv'
<1> SUFFICES ASSUME req # NoReq
             PROVE  ExportInv'
  BY DEF ExportInv
<1>1. ASSUME req.step = "write"
      PROVE  Waits'
  BY <1>1 DEF ExportInv, Waits
<1>2. ASSUME req.file # None
      PROVE  WrittenWhole'
  BY <1>2 DEF ExportInv, WrittenWhole
<1> QED BY <1>1, <1>2 DEF ExportInv

\* A step of a request that has no file yet to another place than the writer's.
LEMMA ExportMoves ==
  ASSUME ExportInv, req # NoReq, req.step # "out", req'.route = req.route, req'.export = req.export,
         req'.file = req.file, req'.step # "write"
  PROVE  ExportInv'
BY DEF ExportInv

\* Every step of serving keeps the files right.
LEMMA ServingExports ==
  ASSUME SInv, ListingInv, ExportInv, Serving
  PROVE  ExportInv'
<1>1. req # NoReq => IsReq(req)
  BY DEF SInv, ReqInv, InFlight
<1>2. ASSUME req # NoReq, req.step # "out", NEW status, NEW hit, NEW step, step # "write",
             \/ req' = [req EXCEPT !.step = step]
             \/ req' = [req EXCEPT !.status = status, !.step = step]
             \/ req' = [req EXCEPT !.step = step, !.hit = hit, !.status = status]
      PROVE  ExportInv'
  <2>1. req'.route = req.route /\ req'.export = req.export /\ req'.file = req.file /\ req'.step = step
    BY <1>1, <1>2 DEF IsReq
  <2> QED BY <1>2, <2>1, ExportMoves
<1>3. CASE NoRoute \/ ProbeReturns \/ Fallback \/ Listed
  <2>1. req # NoReq /\ req.step # "out"
    BY <1>3 DEF NoRoute, ProbeReturns, Fallback, Listed, In
  <2>2. PICK status : Answer(status)
    BY <1>3 DEF NoRoute, ProbeReturns, Fallback, Listed
  <2>3. req' = [req EXCEPT !.status = status, !.step = "out"]
    BY <2>2 DEF Answer
  <2> QED BY <1>2, <2>1, <2>3
<1>4. CASE Probe
  <2>1. PICK step \in {"probe", "resolve"} : req # NoReq /\ req.step # "out" /\ req' = [req EXCEPT !.step = step]
    BY <1>4 DEF Probe, In
  <2> QED BY <1>2, <2>1
<1>5. CASE Handler
  <2>1. /\ req # NoReq /\ req.step # "out"
        /\ \/ req' = [req EXCEPT !.status = 200, !.step = "out"]
           \/ req' = [req EXCEPT !.step = "resolve"]
    BY <1>5 DEF Handler, Answer, In
  <2>2. CASE req' = [req EXCEPT !.status = 200, !.step = "out"]
    BY <1>2, <2>1, <2>2
  <2>3. CASE req' = [req EXCEPT !.step = "resolve"]
    BY <1>2, <2>1, <2>3
  <2> QED BY <2>1, <2>2, <2>3
<1>6. CASE Resolve
  <2>1. /\ req # NoReq /\ req.step # "out"
        /\ \/ req' = [req EXCEPT !.step = "fallback"]
           \/ \E i : req' = [req EXCEPT !.step = "out", !.hit = i, !.status = entries[i].status]
    BY <1>6 DEF Resolve
  <2> QED BY <1>2, <2>1
<1>7. CASE Respond
  BY <1>7 DEF Respond, ExportInv
<1>8. CASE Paging
  <2>1. UNCHANGED <<req, writer>> /\ listing.step # "done"
    BY <1>8 DEF Paging, Count, Find
  <2> QED BY <2>1, ExportFrame
<1>9. CASE PagingFails
  BY <1>2, <1>9 DEF PagingFails, Fails
<1>10. CASE Export
  <2> DEFINE book == req.export.book
             sheets == Sheets(book, listing.rows)
             format == req.export.format
  <2>1. /\ req # NoReq /\ req.step = "in" /\ req.route = "export" /\ listing.step = "done"
        /\ listing # NoListing /\ UNCHANGED listing /\ req.export \in Exports
        /\ book \in Seq(STRING) /\ req.file = None
    BY <1>10, QueriesAssumption DEF Export, In, ExportInv, listingVars, NoListing
  <2>2. CASE Fails
    BY <1>2, <2>1, <2>2 DEF Fails
  <2>3. CASE ~Fails
    <3>1. ~Refused(format, sheets) /\ BeginWrite(format, sheets) /\ req' = [req EXCEPT !.step = "write"]
      BY <1>10, <2>3 DEF Export
    <3>2. sheets # <<>> /\ format \in {"xlsx", "csv"}
      BY <3>1 DEF Refused
    <3>3. book # <<>> /\ Len(sheets) \in Nat /\ Len(sheets) >= 1
      <4>1. Len(sheets) = Len(book) /\ (sheets # <<>> => book # <<>>)
        BY <2>1, SheetsAre
      <4>2. book # <<>> => Len(book) \in Nat /\ Len(book) >= 1
        BY <2>1
      <4> QED BY <3>2, <4>1, <4>2
    <3> HIDE DEF sheets
    <3>4. /\ IsWriter(writer') /\ writer' # NoWriter /\ writer'.waiting = TRUE /\ writer'.pc = "write"
          /\ writer'.next = 1 /\ writer'.tabs = <<>> /\ writer'.ok = TRUE
          /\ writer'.format = format /\ writer'.sheets = sheets
      <4>1. writer' = [pc |-> "write", format |-> format, sheets |-> sheets, next |-> 1,
                       tabs |-> <<>>, ok |-> TRUE, waiting |-> TRUE, ended |-> FALSE]
        BY <3>1 DEF BeginWrite
      <4>2. DOMAIN writer' # DOMAIN NoWriter
        BY <4>1 DEF NoWriter
      <4> QED BY <4>1, <4>2 DEF IsWriter
    <3>5. Tabs(sheets, 1 - 1) = <<>>
      BY DEF Tabs
    <3>6. Written(writer')
      BY <3>3, <3>4, <3>5 DEF Written
    <3>7. /\ req'.route = "export" /\ req'.export = req.export /\ req'.file = None /\ req'.step = "write"
      BY <1>1, <2>1, <3>1 DEF IsReq
    <3>8. Waits'
      BY <2>1, <3>2, <3>3, <3>4, <3>6, <3>7 DEF Waits, sheets
    <3> QED BY <2>1, <3>7, <3>8 DEF ExportInv
  <2> QED BY <2>2, <2>3
<1>11. CASE Exported
  <2>1. /\ req # NoReq /\ req.step = "write" /\ req.route = "export" /\ Waits
        /\ req.export \in Exports /\ req.export.book \in Seq(STRING)
        /\ UNCHANGED listing
    BY <1>11, QueriesAssumption DEF Exported, ExportInv, listingVars
  <2>2. CASE Fails
    BY <1>2, <2>1, <2>2 DEF Fails
  <2>3. CASE ~Fails
    <3> DEFINE file == writer.tabs
    <3>1. writer.pc = "sent" /\ writer.ok /\ req' = [req EXCEPT !.status = 200, !.step = "out", !.file = file]
      BY <1>11, <2>3 DEF Exported, TakeResult
    <3>2. req'.route = "export" /\ req'.export = req.export /\ req'.file = file /\ req'.step = "out"
      BY <1>1, <2>1, <3>1 DEF IsReq
    <3>3. /\ writer.format = "csv" => [i \in DOMAIN file |-> file[i].rows] = <<listing.rows>>
          /\ writer.format # "csv" /\ Distinct(writer.sheets) =>
               [i \in DOMAIN file |-> file[i].rows] = [i \in DOMAIN writer.sheets |-> writer.sheets[i].rows]
      BY <2>1, <3>1, FileIs DEF Waits
    <3>4. WrittenWhole'
      <4>1. /\ writer.sheets = Sheets(req.export.book, listing.rows)
            /\ writer.format = req.export.format /\ writer.format \in {"xlsx", "csv"}
        BY <2>1 DEF Waits
      <4> HIDE DEF file
      <4> QED BY <2>1, <3>2, <3>3, <4>1 DEF WrittenWhole, Distinct
    <3> QED BY <2>1, <3>2, <3>4 DEF ExportInv, Waits
  <2> QED BY <2>2, <2>3
<1> QED
  BY <1>3, <1>4, <1>5, <1>6, <1>7, <1>8, <1>9, <1>10, <1>11 DEF Serving

\* A change of the table leaves what was listed.
LEMMA ChangeNotes ==
  ASSUME ListingInv, NEW how, Noted(how), listing # NoListing, listing.step = "done"
  PROVE  listing' # NoListing /\ listing'.step = "done" /\ listing'.rows = listing.rows
BY NotedIs DEF ListingInv

\* Every step of the service keeps the files right.
LEMMA ExportNext ==
  ASSUME SInv, ListingInv, ExportInv, Next
  PROVE  ExportInv'
<1>1. ASSUME UNCHANGED exportVars, UNCHANGED req
      PROVE  ExportInv'
  BY <1>1, ExportFrame DEF exportVars, listingVars
<1>2. ASSUME Forget
      PROVE  ExportInv'
  BY <1>2 DEF Forget, ExportInv
<1>3. ASSUME UNCHANGED <<listing, writer, req>>
      PROVE  ExportInv'
  BY <1>3, ExportFrame
<1>4. ASSUME NEW r \in Replicas, Dies(r)
      PROVE  ExportInv'
  BY <1>2, <1>3, <1>4 DEF Dies
<1>5. CASE (\E c \in Configs : Build(c)) \/ Listen
  BY <1>2, <1>3, <1>5 DEF Build, Listen
<1>6. CASE Shutdown \/ ShutdownDone \/ ShutdownExpires
  BY <1>1, <1>6 DEF Shutdown, ShutdownDone, ShutdownExpires
<1>7. ASSUME NEW route, NEW err, NEW export, Arrives(route, err, export),
             route = "export" => export \in Exports
      PROVE  ExportInv'
  <2>1. req'.route = route /\ req'.export = export /\ req'.step = "in" /\ req'.file = None
    BY <1>7 DEF Arrives
  <2> QED BY <1>7, <2>1 DEF ExportInv
<1>8. CASE \/ \E err \in Errors : Request("api", err)
           \/ \E route \in {"health", "check", "nowhere"} : Request(route, "unregistered")
  BY <1>7, <1>8 DEF Request
<1>9. CASE (\E q \in Queries : RequestPage(q)) \/ (\E e \in Exports : RequestExport(e))
  BY <1>7, <1>9 DEF RequestPage, RequestExport
<1>10. CASE Serving
  BY <1>10, ServingExports
<1>11. CASE Writing \/ Leaves
  <2>1. UNCHANGED <<listing, req>> /\ (WriteSheet \/ SendResult \/ Disconnect)
    BY <1>11 DEF Writing, Leaves, listingVars
  <2>2. ASSUME req # NoReq, req.step = "write"
        PROVE  Waits'
    <3>1. Waits /\ req.export \in Exports /\ req.export.book \in Seq(STRING) /\ req.export.book # <<>>
      BY <2>2, QueriesAssumption DEF ExportInv, Waits
    <3>2. /\ Written(writer') /\ writer' # NoWriter /\ writer'.waiting = TRUE
          /\ writer'.format = writer.format /\ writer'.sheets = writer.sheets
      BY <2>1, <3>1, WriterKeeps DEF Waits
    <3> QED BY <2>1, <3>1, <3>2 DEF Waits
  <2>3. WrittenWhole => WrittenWhole'
    BY <2>1 DEF WrittenWhole
  <2> QED BY <2>1, <2>2, <2>3 DEF ExportInv
<1>12. CASE Change
  <2>1. /\ UNCHANGED <<req, writer>>
        /\ \/ UNCHANGED listing
           \/ \E how : Noted(how)
    BY <1>12 DEF Change, Insert, Delete, listingVars
  <2> QED BY <2>1, ExportFrame, ChangeNotes
<1>13. CASE Pinging
  BY <1>1, <1>13 DEF Pinging
<1>14. ASSUME NEW r \in Replicas, Booting(r)
       PROVE  ExportInv'
  BY <1>1, <1>14 DEF Booting
<1>15. CASE /\ (\E r \in Replicas : Start(r)) \/ Repair
            /\ UNCHANGED <<resolverVars, healthVars, exportVars, server, req, changes>>
  BY <1>1, <1>15
<1> QED
  BY <1>4, <1>5, <1>6, <1>8, <1>9, <1>10, <1>11, <1>12, <1>13, <1>14, <1>15 DEF Next

\* Every step of the service keeps the listings right.
LEMMA ListingNext ==
  ASSUME FiltersMean, ListingInv, Next
  PROVE  ListingInv'
<1>1. ASSUME UNCHANGED exportVars \/ UNCHANGED listingVars
      PROVE  ListingInv'
  BY <1>1, ListingFrame DEF exportVars, listingVars, tableVars
<1>2. ASSUME UNCHANGED tableVars, Forget \/ UNCHANGED listing
      PROVE  ListingInv'
  BY <1>2, ListingFrame DEF Forget, tableVars
<1>3. ASSUME NEW r \in Replicas, Dies(r)
      PROVE  ListingInv'
  BY <1>2, <1>3 DEF Dies
<1>4. CASE (\E c \in Configs : Build(c)) \/ Listen
  BY <1>2, <1>4 DEF Build, Listen
<1>5. CASE Shutdown \/ ShutdownDone \/ ShutdownExpires
  BY <1>1, <1>5 DEF Shutdown, ShutdownDone, ShutdownExpires
<1>6. CASE \/ \E err \in Errors : Request("api", err)
           \/ \E route \in {"health", "check", "nowhere"} : Request(route, "unregistered")
  BY <1>1, <1>6 DEF Request
<1>7. CASE (\E q \in Queries : RequestPage(q)) \/ (\E e \in Exports : RequestExport(e))
  BY <1>7, NewQueryKeeps DEF RequestPage, RequestExport, Asked
<1>8. CASE Serving
  <2>1. CASE Respond
    <3>1. UNCHANGED <<table, deleted>> /\ listing' = NoListing
      BY <2>1 DEF Respond, tableVars
    <3> QED BY <3>1, ListingFrame
  <2>2. CASE Paging
    BY <2>2, CountKeeps, FindKeeps DEF Paging
  <2>3. CASE NoRoute \/ Probe \/ ProbeReturns \/ Handler \/ Resolve \/ Fallback \/ PagingFails
             \/ Listed \/ Export \/ Exported
    BY <1>1, <2>3 DEF NoRoute, Probe, ProbeReturns, Handler, Resolve, Fallback, PagingFails,
                      Listed, Export, Exported
  <2> QED BY <1>8, <2>1, <2>2, <2>3 DEF Serving
<1>9. CASE Writing \/ Leaves
  BY <1>1, <1>9 DEF Writing, Leaves
<1>10. CASE Change
  <2>1. \/ UNCHANGED listingVars
        \/ \E r \in DOMAIN RowNames : Insert(r) \/ Delete(r)
    BY <1>10 DEF Change
  <2> QED BY <1>1, <2>1, InsertKeeps, DeleteKeeps
<1>11. CASE Pinging
  BY <1>1, <1>11 DEF Pinging
<1>12. ASSUME NEW r \in Replicas, Booting(r)
       PROVE  ListingInv'
  BY <1>1, <1>12 DEF Booting
<1>13. CASE /\ (\E r \in Replicas : Start(r)) \/ Repair
            /\ UNCHANGED <<resolverVars, healthVars, exportVars, server, req, changes>>
  BY <1>1, <1>13
<1> QED
  BY <1>3, <1>4, <1>5, <1>6, <1>7, <1>8, <1>9, <1>10, <1>11, <1>12, <1>13 DEF Next

\* Provided that the filters of the queries mean what they are to list: on a table
\* that stands still a page holds its own rows and knows whether rows are left;
\* reading all pages while rows are inserted and deleted yields no row twice and
\* leaves none out, with the exceptions that AllPagesOnce names; and a file that
\* answers an export holds every sheet with all of its rows, for any table, page
\* sizes, queries, books and any number of changes (paginator.go:17-63,
\* gorm_scope.go:22-124, excelize.go:73-233).
THEOREM ListingsAreTrue ==
  ASSUME FiltersMean
  PROVE  Spec => []ListingsTrue
<1> DEFINE Inv == ListingInv /\ ExportInv
<1>1. Init => Inv
  BY ListingStarts DEF Init, ExportInv
<1>2. SInv /\ Inv /\ [Next]_vars => Inv'
  <2> SUFFICES ASSUME SInv, Inv, [Next]_vars PROVE Inv'
    OBVIOUS
  <2>1. CASE Next
    BY <2>1, ListingNext, ExportNext
  <2>2. CASE UNCHANGED vars
    <3>1. UNCHANGED <<table, deleted, listing, writer, req>>
      BY <2>2 DEF vars, exportVars, listingVars, tableVars
    <3> QED BY <3>1, ListingFrame, ExportFrame
  <2> QED BY <2>1, <2>2
<1>3. Inv => ListingsTrue
  <2> SUFFICES ASSUME Inv PROVE ListingsTrue
    OBVIOUS
  <2>1. PageIsItsOwn
    BY DEF ListingInv
  <2>2. AllPagesOnce
    BY DEF ListingInv, InProgress, ReadOnce, ReadAll, AllPagesOnce
  <2>3. WrittenWhole
    BY DEF ExportInv, WrittenWhole
  <2> QED BY <2>1, <2>2, <2>3 DEF ListingsTrue
<1> HIDE DEF Inv
<1> QED BY <1>1, <1>2, <1>3, ServiceInvariant, PTL DEF Spec

-----------------------------------------------------------------------------
(* Searches. *)

\* What holds at 0 and after every number for which it holds, holds up to n.
LEMMA UpTo ==
  ASSUME NEW n \in Nat, NEW Good, 0 \in Good, \A k \in 0..n - 1 : k \in Good => k + 1 \in Good
  PROVE  \A k \in 0..n : k \in Good
<1> DEFINE Bad == {k \in 0..n : k \notin Good}
<1> SUFFICES ASSUME Bad # {}
             PROVE  FALSE
  OBVIOUS
<1>1. Bad \subseteq Nat
  OBVIOUS
<1>2. Min(Bad) \in Bad /\ \A y \in Bad : Min(Bad) <= y
  BY <1>1, MinExists
<1> DEFINE b == Min(Bad)
<1> HIDE DEF b
<1>3. b \in 0..n /\ b \notin Good /\ \A y \in Bad : b <= y
  BY <1>2 DEF b
<1>4. b # 0
  BY <1>3
<1>5. b - 1 \in 0..n - 1 /\ b - 1 + 1 = b /\ b - 1 \in 0..n
  BY <1>3, <1>4
<1>6. b - 1 \notin Bad
  BY <1>3, <1>5
<1> QED BY <1>3, <1>5, <1>6

-----------------------------------------------------------------------------
(* Searches: EscapeLike. *)

\* What the characters of a text become.
Escapes(text) ==
  [i \in DOMAIN text |-> IF text[i] \in {"!", "%", "_"} THEN <<"!", text[i]>> ELSE <<text[i]>>]

\* Joining sequences one after the other.
Joins(f, seqs) == f = [i \in 1..Len(seqs) |-> IF i = 1 THEN seqs[i] ELSE f[i - 1] \o seqs[i]]

\* FlattenSeq's recursive function exists.
LEMMA JoinsExists ==
  ASSUME NEW S, NEW seqs \in Seq(Seq(S))
  PROVE  \E f : Joins(f, seqs)
<1> DEFINE n == Len(seqs)
           D == 1..n
           Step(f, i) == IF i = 1 THEN seqs[i] ELSE f[i - 1] \o seqs[i]
           Good == {k \in 0..n : \E f : f = [i \in D |-> f[i]] /\ \A i \in 1..k : f[i] = Step(f, i)}
<1>1. n \in Nat
  OBVIOUS
<1>2. 0 \in Good
  <2> DEFINE f == [i \in D |-> 0]
  <2>1. f = [i \in D |-> f[i]] /\ \A i \in 1..0 : f[i] = Step(f, i)
    OBVIOUS
  <2> HIDE DEF f
  <2>2. \E g : g = [i \in D |-> g[i]] /\ \A i \in 1..0 : g[i] = Step(g, i)
    BY <2>1
  <2> QED BY <1>1, <2>2
<1>3. ASSUME NEW k \in 0..n - 1, k \in Good
      PROVE  k + 1 \in Good
  <2>1. PICK f : f = [i \in D |-> f[i]] /\ \A i \in 1..k : f[i] = Step(f, i)
    BY <1>3
  <2> DEFINE g == [i \in D |-> IF i = k + 1 THEN Step(f, k + 1) ELSE f[i]]
  <2>2. k + 1 \in D /\ k \in Nat /\ k + 1 \in 0..n
    BY <1>1, <1>3
  <2>3. g = [i \in D |-> g[i]] /\ g[k + 1] = Step(f, k + 1) /\ \A i \in D : i # k + 1 => g[i] = f[i]
    BY <2>2
  <2> HIDE DEF g
  <2>4. ASSUME NEW i \in 1..k + 1
        PROVE  g[i] = Step(g, i)
    <3>1. i # 1 => i - 1 \in D /\ i - 1 # k + 1 /\ g[i - 1] = f[i - 1]
      <4>1. i # 1 => i - 1 \in D /\ i - 1 # k + 1
        BY <1>1, <2>2, <2>4
      <4> QED BY <2>3, <4>1
    <3>2. Step(g, i) = Step(f, i)
      BY <3>1
    <3>3. CASE i = k + 1
      BY <2>3, <3>2, <3>3
    <3>4. CASE i # k + 1
      <4>1. i \in 1..k /\ i \in D
        BY <1>1, <2>2, <2>4, <3>4
      <4> QED BY <2>1, <2>3, <3>2, <3>4, <4>1
    <3> QED BY <3>3, <3>4
  <2>5. \E h : h = [i \in D |-> h[i]] /\ \A i \in 1..k + 1 : h[i] = Step(h, i)
    BY <2>3, <2>4
  <2> QED BY <2>2, <2>5
<1> HIDE DEF Good
<1>4. n \in Good
  <2>1. \A k \in 0..n : k \in Good
    <3> HIDE DEF n
    <3> QED BY <1>1, <1>2, <1>3, UpTo
  <2> QED BY <1>1, <2>1
<1>5. PICK f : f = [i \in D |-> f[i]] /\ \A i \in 1..n : f[i] = Step(f, i)
  BY <1>4 DEF Good
<1>6. f = [i \in D |-> Step(f, i)]
  BY <1>5
<1> QED BY <1>6 DEF Joins

\* Every part is found in the flat sequence, behind those before it: at says where.
Laid(at, seqs, flat) ==
  /\ at \in [0..Len(seqs) -> Nat] /\ at[0] = 0 /\ at[Len(seqs)] = Len(flat)
  /\ \A i \in 1..Len(seqs) : /\ at[i] = at[i - 1] + Len(seqs[i]) /\ at[i] <= Len(flat)
                             /\ \A x \in 1..Len(seqs[i]) : flat[at[i - 1] + x] = seqs[i][x]

\* What FlattenSeq returns holds every part in its place.
LEMMA FlattenIs ==
  ASSUME NEW S, NEW seqs \in Seq(Seq(S))
  PROVE  FlattenSeq(seqs) \in Seq(S) /\ \E at : Laid(at, seqs, FlattenSeq(seqs))
<1> DEFINE n == Len(seqs)
           flat == FlattenSeq(seqs)
<1>1. n \in Nat /\ \A i \in 1..n : seqs[i] \in Seq(S) /\ Len(seqs[i]) \in Nat
  OBVIOUS
<1>2. CASE n = 0
  <2>1. flat = <<>> /\ flat \in Seq(S) /\ Len(flat) = 0
    BY <1>2 DEF FlattenSeq
  <2> DEFINE at == [i \in 0..n |-> 0]
  <2>2. at \in [0..n -> Nat] /\ at[0] = 0 /\ at[n] = 0
    BY <1>2
  <2> HIDE DEF flat, at
  <2>3. Laid(at, seqs, flat)
    BY <1>2, <2>1, <2>2 DEF Laid
  <2> QED BY <2>1, <2>3 DEF flat
<1>3. CASE n # 0
  <2> DEFINE f == CHOOSE g : Joins(g, seqs)
  <2>1. Joins(f, seqs)
    BY JoinsExists
  <2>2. flat = f[n]
    BY <1>3 DEF FlattenSeq, Joins
  <2> HIDE DEF f, flat
  <2>3. \A i \in 1..n : f[i] = IF i = 1 THEN seqs[i] ELSE f[i - 1] \o seqs[i]
    BY <2>1 DEF Joins
  <2> DEFINE at == [i \in 0..n |-> IF i = 0 THEN 0 ELSE Len(f[i])]
             Placed(i, j) == /\ at[j] = at[j - 1] + Len(seqs[j]) /\ at[j] <= Len(f[i])
                             /\ \A x \in 1..Len(seqs[j]) : f[i][at[j - 1] + x] = seqs[j][x]
             Good == {i \in 0..n : i # 0 => f[i] \in Seq(S) /\ \A j \in 1..i : at[j - 1] \in Nat /\ Placed(i, j)}
  <2>4. 0 \in Good
    BY <1>1
  <2>5. at[0] = 0 /\ \A i \in 1..n : at[i] = Len(f[i])
    BY <1>1
  <2> HIDE DEF at, n
  <2>6. ASSUME NEW k \in 0..n - 1, k \in Good
        PROVE  k + 1 \in Good
    <3>0. k \in Nat /\ k + 1 \in 1..n /\ k + 1 \in 0..n /\ (k + 1) - 1 = k /\ seqs[k + 1] \in Seq(S)
      BY <1>1, <2>6
    <3>1. CASE k = 0
      <4>1. f[1] = seqs[1] /\ at[1] = Len(f[1]) /\ 1 \in 1..n
        BY <2>3, <2>5, <3>0, <3>1
      <4>2. f[1] \in Seq(S) /\ at[1 - 1] \in Nat /\ Placed(1, 1)
        BY <2>5, <3>0, <3>1, <4>1
      <4>3. \A j \in 1..1 : j = 1
        OBVIOUS
      <4> HIDE DEF Placed
      <4> QED BY <3>0, <3>1, <4>2, <4>3
    <3>2. CASE k # 0
      <4> DEFINE a == f[k]
                 b == seqs[k + 1]
      <4>1. a \in Seq(S) /\ b \in Seq(S) /\ f[k + 1] = a \o b /\ k \in 1..n
            /\ \A j \in 1..k : at[j - 1] \in Nat /\ Placed(k, j)
        <5>1. k \in 1..n /\ k + 1 # 1
          BY <1>1, <3>0, <3>2
        <5>2. f[k + 1] = f[k] \o seqs[k + 1]
          <6>1. f[k + 1] = IF k + 1 = 1 THEN seqs[k + 1] ELSE f[(k + 1) - 1] \o seqs[k + 1]
            BY <2>3, <3>0
          <6> QED BY <3>0, <5>1, <6>1
        <5> HIDE DEF Placed
        <5> QED BY <2>6, <3>0, <3>2, <5>1, <5>2
      <4>2. at[k] = Len(a) /\ at[k + 1] = Len(f[k + 1])
        BY <2>5, <3>0, <4>1
      <4> HIDE DEF a, b
      <4>3. /\ a \o b \in Seq(S) /\ Len(a \o b) = Len(a) + Len(b)
            /\ \A i \in 1..Len(a) : (a \o b)[i] = a[i]
            /\ \A i \in 1..Len(b) : (a \o b)[Len(a) + i] = b[i]
            /\ Len(a) \in Nat /\ Len(b) \in Nat
        BY <4>1, ConcatIs
      <4>4. at[(k + 1) - 1] \in Nat /\ Placed(k + 1, k + 1)
        <5>1. at[(k + 1) - 1] = Len(a) /\ seqs[k + 1] = b
          BY <3>0, <4>2 DEF b
        <5>2. at[k + 1] = Len(a) + Len(b) /\ at[k + 1] <= Len(f[k + 1])
          BY <4>1, <4>2, <4>3
        <5>3. \A x \in 1..Len(b) : f[k + 1][Len(a) + x] = b[x]
          BY <4>1, <4>3
        <5>4. \A x \in 1..Len(seqs[k + 1]) : f[k + 1][at[(k + 1) - 1] + x] = seqs[k + 1][x]
          BY <5>1, <5>3
        <5>5. at[k + 1] = at[(k + 1) - 1] + Len(seqs[k + 1])
          BY <5>1, <5>2
        <5>6. at[k + 1] <= Len(f[k + 1]) /\ at[(k + 1) - 1] \in Nat
          BY <4>3, <5>1, <5>2
        <5>7. Placed(k + 1, k + 1)
          BY <5>4, <5>5, <5>6, Zenon
        <5> HIDE DEF Placed
        <5> QED BY <5>6, <5>7
      <4>5. ASSUME NEW j \in 1..k
            PROVE  at[j - 1] \in Nat /\ Placed(k + 1, j)
        <5>1. /\ at[j - 1] \in Nat /\ at[j] = at[j - 1] + Len(seqs[j]) /\ at[j] <= Len(a)
              /\ \A x \in 1..Len(seqs[j]) : a[at[j - 1] + x] = seqs[j][x]
          BY <4>1 DEF a
        <5>2. Len(seqs[j]) \in Nat
          BY <1>1, <3>0, <4>5
        <5>3. at[j] <= Len(f[k + 1])
          <6>1. Len(f[k + 1]) = Len(a) + Len(b) /\ Len(a) \in Nat /\ Len(b) \in Nat
            BY <4>1, <4>3
          <6>2. at[j] \in Nat /\ at[j] <= Len(a)
            BY <5>1, <5>2
          <6> QED BY <6>1, <6>2
        <5>4. ASSUME NEW x \in 1..Len(seqs[j])
              PROVE  f[k + 1][at[j - 1] + x] = seqs[j][x]
          <6>1. at[j - 1] + x \in 1..Len(a)
            BY <4>3, <5>1, <5>2, <5>4
          <6> QED BY <4>1, <4>3, <5>1, <6>1
        <5> QED BY <5>1, <5>3, <5>4
      <4>6. \A j \in 1..k + 1 : j \in 1..k \/ j = k + 1
        BY <3>0
      <4> HIDE DEF Placed
      <4>7. f[k + 1] \in Seq(S) /\ \A j \in 1..k + 1 : at[j - 1] \in Nat /\ Placed(k + 1, j)
        <5>1. ASSUME NEW j \in 1..k + 1
              PROVE  at[j - 1] \in Nat /\ Placed(k + 1, j)
          <6>1. CASE j \in 1..k
            BY <4>5, <6>1
          <6>2. CASE j = k + 1
            BY <4>4, <6>2
          <6> QED BY <4>6, <5>1, <6>1, <6>2
        <5> QED BY <4>1, <4>3, <5>1
      <4> QED BY <3>0, <4>7
    <3> QED BY <3>1, <3>2
  <2>7. n \in Good
    <3>1. \A k \in 0..n : k \in Good
      <4> HIDE DEF Good
      <4> QED BY <1>1, <2>4, <2>6, UpTo
    <3> HIDE DEF Good
    <3> QED BY <1>1, <3>1
  <2>8. flat \in Seq(S) /\ \A j \in 1..n : at[j - 1] \in Nat /\ Placed(n, j)
    BY <1>3, <2>2, <2>7
  <2>9. at \in [0..n -> Nat] /\ at[n] = Len(flat)
    <3>1. \A j \in 1..n : at[j] \in Nat
      <4> SUFFICES ASSUME NEW j \in 1..n PROVE at[j] \in Nat
        OBVIOUS
      <4>1. at[j - 1] \in Nat /\ at[j] = at[j - 1] + Len(seqs[j]) /\ Len(seqs[j]) \in Nat
        BY <1>1, <2>8
      <4> QED BY <4>1
    <3>2. \A j \in 0..n : at[j] \in Nat
      BY <1>1, <2>5, <3>1
    <3>3. at = [i \in 0..n |-> at[i]]
      BY DEF at
    <3>4. n \in 1..n
      BY <1>1, <1>3
    <3> QED BY <2>2, <2>5, <3>2, <3>3, <3>4
  <2>10. \A i \in 1..n : /\ at[i] = at[i - 1] + Len(seqs[i]) /\ at[i] <= Len(flat)
                         /\ \A x \in 1..Len(seqs[i]) : flat[at[i - 1] + x] = seqs[i][x]
    BY <2>2, <2>8
  <2>11. Laid(at, seqs, flat)
    BY <2>5, <2>9, <2>10 DEF Laid, n
  <2> QED BY <2>8, <2>11 DEF flat
<1> QED BY <1>2, <1>3

-----------------------------------------------------------------------------
(* Searches: LIKE. *)

\* Where a text may begin to match the rest of a pattern from j on, if f says it of
\* the shorter rests: for a wildcard, an escaped and any other character.
Ended(text) == {Len(text) + 1}
Wild(f, text, j) == {i \in 1..Len(text) + 1 : \E k \in f[j + 1] : i <= k}
Literal(f, text, pattern, j) == {i \in 1..Len(text) : text[i] = pattern[j + 1] /\ i + 1 \in f[j + 2]}
Single(f, text, pattern, j) ==
  {i \in 1..Len(text) : pattern[j] \in {"_", text[i]} /\ i + 1 \in f[j + 1]}
Rest(f, text, pattern, j) ==
  CASE j > Len(pattern) -> Ended(text)
    [] j <= Len(pattern) /\ pattern[j] = "%" -> Wild(f, text, j)
    [] j < Len(pattern) /\ pattern[j] = "!" -> Literal(f, text, pattern, j)
    [] OTHER -> Single(f, text, pattern, j)
Rests(f, text, pattern) == f = [j \in 1..Len(pattern) + 1 |-> Rest(f, text, pattern, j)]

\* The cases exclude each other.
LEMMA RestCases ==
  ASSUME NEW f, NEW text, NEW pattern, Len(pattern) \in Nat, NEW j \in Nat
  PROVE  /\ j > Len(pattern) => Rest(f, text, pattern, j) = Ended(text)
         /\ j <= Len(pattern) /\ pattern[j] = "%" => Rest(f, text, pattern, j) = Wild(f, text, j)
         /\ j < Len(pattern) /\ pattern[j] = "!" => Rest(f, text, pattern, j) = Literal(f, text, pattern, j)
         /\ j <= Len(pattern) /\ pattern[j] # "%" /\ ~(j < Len(pattern) /\ pattern[j] = "!") =>
              Rest(f, text, pattern, j) = Single(f, text, pattern, j)
<1>1. (j > Len(pattern) => ~(j <= Len(pattern)) /\ ~(j < Len(pattern))) /\ (pattern[j] = "%" => pattern[j] # "!")
  OBVIOUS
<1> QED BY <1>1 DEF Rest

\* Like's recursive function exists.
LEMMA RestsExists ==
  ASSUME NEW text, NEW T, NEW pattern \in Seq(T)
  PROVE  \E f : Rests(f, text, pattern)
<1> DEFINE m == Len(pattern)
           N == m + 1
           D == 1..N
           Step(f, j) == Rest(f, text, pattern, j)
           Fun(f) == f = [j \in D |-> f[j]]
           Upper(f, k) == \A j \in D : j + k > N => f[j] = Step(f, j)
           Good == {k \in 0..N : \E f : Fun(f) /\ Upper(f, k)}
<1>1. m \in Nat /\ N \in Nat
  OBVIOUS
<1>2. 0 \in Good
  <2> DEFINE f == [j \in D |-> {}]
  <2>1. Fun(f)
    OBVIOUS
  <2>2. \A j \in D : ~(j + 0 > N)
    BY <1>1
  <2> HIDE DEF f, Fun, Step
  <2>3. Upper(f, 0)
    BY <2>2
  <2>4. 0 \in 0..N
    BY <1>1
  <2> HIDE DEF Upper, D, N
  <2> QED BY <2>1, <2>3, <2>4
<1>3. ASSUME NEW k \in 0..N - 1, k \in Good
      PROVE  k + 1 \in Good
  <2>1. PICK f : Fun(f) /\ Upper(f, k)
    <3> HIDE DEF Fun, Upper
    <3> QED BY <1>3
  <2> DEFINE g == [j \in D |-> IF j + k = N THEN Step(f, j) ELSE f[j]]
  <2>2. Fun(g) /\ \A j \in D : g[j] = IF j + k = N THEN Step(f, j) ELSE f[j]
    <3> HIDE DEF Step
    <3> QED OBVIOUS
  <2> HIDE DEF g
  <2>3. ASSUME NEW j \in D, j + (k + 1) > N
        PROVE  g[j] = Step(g, j)
    <3>1. j <= m => g[j + 1] = f[j + 1]
      <4>1. j <= m => j + 1 \in D /\ ~((j + 1) + k = N)
        BY <1>1, <2>3
      <4> HIDE DEF Step, Fun
      <4> QED BY <2>2, <4>1
    <3>2. j < m => g[j + 2] = f[j + 2]
      <4>1. j < m => j + 2 \in D /\ ~((j + 2) + k = N)
        BY <1>1, <2>3
      <4> HIDE DEF Step, Fun
      <4> QED BY <2>2, <4>1
    <3>3. Step(g, j) = Step(f, j)
      <4>0. j \in Nat
        BY <1>1
      <4>1. j <= m => Wild(g, text, j) = Wild(f, text, j) /\ Single(g, text, pattern, j) = Single(f, text, pattern, j)
        BY <3>1 DEF Wild, Single
      <4>2. j < m => Literal(g, text, pattern, j) = Literal(f, text, pattern, j)
        BY <3>2 DEF Literal
      <4>3. ASSUME NEW h
            PROVE  /\ j > m => Step(h, j) = Ended(text)
                   /\ j <= m /\ pattern[j] = "%" => Step(h, j) = Wild(h, text, j)
                   /\ j < m /\ pattern[j] = "!" => Step(h, j) = Literal(h, text, pattern, j)
                   /\ j <= m /\ pattern[j] # "%" /\ ~(j < m /\ pattern[j] = "!") =>
                        Step(h, j) = Single(h, text, pattern, j)
        BY <1>1, <4>0, RestCases
      <4> HIDE DEF Step, m
      <4> QED BY <1>1, <4>0, <4>1, <4>2, <4>3
    <3>4. j + k = N \/ j + k > N
      BY <1>1, <2>3
    <3> HIDE DEF Step, Fun
    <3> QED BY <2>1, <2>2, <3>3, <3>4
  <2>4. k + 1 \in 0..N
    BY <1>1
  <2> HIDE DEF Fun, Step
  <2>5. Upper(g, k + 1)
    BY <2>3
  <2> HIDE DEF Upper, N, D
  <2> QED BY <2>2, <2>4, <2>5
<1> HIDE DEF Good
<1>4. N \in Good
  <2> HIDE DEF N
  <2>1. \A k \in 0..N : k \in Good
    BY <1>1, <1>2, <1>3, UpTo
  <2> QED BY <1>1, <2>1
<1>5. PICK f : Fun(f) /\ Upper(f, N)
  <2> HIDE DEF Fun, Upper
  <2> QED BY <1>4 DEF Good
<1>6. \A j \in D : f[j] = Step(f, j)
  <2>1. \A j \in D : j + N > N
    BY <1>1
  <2> HIDE DEF Step, Fun
  <2> QED BY <1>5, <2>1
<1>7. f = [j \in D |-> Step(f, j)]
  <2> HIDE DEF Step
  <2> QED BY <1>5, <1>6
<1> QED BY <1>7 DEF Rests

\* The pattern of a search: at says how much of it stands for the first characters.
Search(value) == <<"%">> \o EscapeLike(value) \o <<"%">>
Spells(at, pattern, value) ==
  LET n == Len(value) IN
  /\ at \in [0..n -> Nat] /\ at[0] = 0 /\ at[n] + 2 = Len(pattern)
  /\ pattern[1] = "%" /\ pattern[Len(pattern)] = "%"
  /\ \A k \in 0..n - 1 :
       LET c == value[k + 1] IN
       IF c \in {"!", "%", "_"}
       THEN /\ at[k + 1] = at[k] + 2 /\ 2 + at[k] < Len(pattern)
            /\ pattern[2 + at[k]] = "!" /\ pattern[2 + at[k] + 1] = c
       ELSE at[k + 1] = at[k] + 1 /\ 2 + at[k] < Len(pattern) /\ pattern[2 + at[k]] = c

\* The pattern of a search spells the text that was asked for.
LEMMA SearchSpells ==
  ASSUME NEW S, NEW value \in Seq(S)
  PROVE  /\ Search(value) \in Seq(S \union {"!", "%", "_"})
         /\ \E at : Spells(at, Search(value), value)
<1> DEFINE C == S \union {"!", "%", "_"}
           n == Len(value)
           seqs == Escapes(value)
           flat == FlattenSeq(seqs)
           pattern == Search(value)
<1>1. n \in Nat /\ DOMAIN value = 1..n /\ \A i \in 1..n : value[i] \in C
  <2>1. \A i \in 1..n : value[i] \in S
    OBVIOUS
  <2>2. n \in Nat /\ DOMAIN value = 1..n
    OBVIOUS
  <2> HIDE DEF n
  <2>3. \A i \in 1..n : value[i] \in C
    BY <2>1
  <2> QED BY <2>2, <2>3
<1>2. ASSUME NEW i \in 1..n
      PROVE  /\ seqs[i] \in Seq(C)
             /\ value[i] \in {"!", "%", "_"} => seqs[i] = <<"!", value[i]>>
             /\ value[i] \notin {"!", "%", "_"} => seqs[i] = <<value[i]>>
  <2> DEFINE c == value[i]
  <2>1. c \in C /\ "!" \in C
    BY <1>1
  <2>2. seqs[i] = IF c \in {"!", "%", "_"} THEN <<"!", c>> ELSE <<c>>
    BY <1>1 DEF Escapes
  <2> HIDE DEF c, C, seqs
  <2>3. <<"!", c>> \in Seq(C) /\ <<c>> \in Seq(C)
    BY <2>1
  <2> QED BY <2>2, <2>3 DEF c
<1>3. seqs \in Seq(Seq(C)) /\ Len(seqs) = n
  <2>1. seqs = [i \in 1..n |-> seqs[i]]
    BY <1>1 DEF Escapes
  <2> HIDE DEF seqs, C, n
  <2>2. seqs \in [1..n -> Seq(C)]
    BY <1>2, <2>1
  <2> QED BY <1>1, <2>2
<1>4. pattern = <<"%">> \o flat \o <<"%">>
  BY DEF Search, EscapeLike, Escapes
<1> HIDE DEF seqs, flat, pattern, n, C
<1>5. PICK at \in [0..n -> Nat] :
        /\ flat \in Seq(C) /\ at[0] = 0 /\ at[n] = Len(flat)
        /\ \A i \in 1..n : /\ at[i] = at[i - 1] + Len(seqs[i]) /\ at[i] <= Len(flat)
                           /\ \A x \in 1..Len(seqs[i]) : flat[at[i - 1] + x] = seqs[i][x]
  <2>1. PICK at : Laid(at, seqs, flat)
    BY <1>3, FlattenIs DEF flat
  <2>2. flat \in Seq(C)
    BY <1>3, FlattenIs DEF flat
  <2> QED BY <1>3, <2>1, <2>2 DEF Laid
<1>6. "%" \in C /\ <<"%">> \in Seq(C) /\ Len(<<"%">>) = 1
  BY DEF C
<1>7. /\ pattern \in Seq(C) /\ Len(pattern) = Len(flat) + 2 /\ Len(flat) \in Nat
      /\ pattern[1] = "%" /\ pattern[Len(flat) + 2] = "%"
      /\ \A y \in 1..Len(flat) : pattern[1 + y] = flat[y]
  <2> DEFINE a == <<"%">>
             b == a \o flat
  <2>1. /\ b \in Seq(C) /\ Len(b) = 1 + Len(flat) /\ b[1] = "%" /\ Len(flat) \in Nat
        /\ \A y \in 1..Len(flat) : b[1 + y] = flat[y]
    <3>1. /\ b \in Seq(C) /\ Len(b) = Len(a) + Len(flat)
          /\ \A i \in 1..Len(a) : b[i] = a[i]
          /\ \A i \in 1..Len(flat) : b[Len(a) + i] = flat[i]
      BY <1>5, <1>6, ConcatIs
    <3>2. Len(a) = 1 /\ a[1] = "%" /\ 1 \in 1..Len(a) /\ Len(flat) \in Nat
      BY <1>5
    <3> HIDE DEF a, b
    <3> QED BY <3>1, <3>2
  <2>2. pattern = b \o a
    BY <1>4
  <2> HIDE DEF b
  <2>3. /\ b \o a \in Seq(C) /\ Len(b \o a) = Len(b) + Len(a)
        /\ \A i \in 1..Len(b) : (b \o a)[i] = b[i]
        /\ \A i \in 1..Len(a) : (b \o a)[Len(b) + i] = a[i]
    BY <1>6, <2>1, ConcatIs
  <2>4. Len(a) = 1 /\ a[1] = "%" /\ 1 \in 1..Len(a)
    OBVIOUS
  <2> HIDE DEF a
  <2>5. Len(pattern) = Len(flat) + 2 /\ 1 \in 1..Len(b) /\ \A y \in 1..Len(flat) : 1 + y \in 1..Len(b)
    BY <2>1, <2>2, <2>3, <2>4
  <2>6. pattern[Len(b) + 1] = "%" /\ Len(b) + 1 = Len(flat) + 2
    BY <2>1, <2>2, <2>3, <2>4
  <2> QED BY <2>1, <2>2, <2>3, <2>5, <2>6
<1>8. ASSUME NEW k \in 0..n - 1
      PROVE  LET c == value[k + 1] IN
             IF c \in {"!", "%", "_"}
             THEN /\ at[k + 1] = at[k] + 2 /\ 2 + at[k] < Len(pattern)
                  /\ pattern[2 + at[k]] = "!" /\ pattern[2 + at[k] + 1] = c
             ELSE at[k + 1] = at[k] + 1 /\ 2 + at[k] < Len(pattern) /\ pattern[2 + at[k]] = c
  <2> DEFINE i == k + 1
             c == value[i]
  <2>1. i \in 1..n /\ i - 1 = k /\ k \in 0..n /\ at[k] \in Nat
    BY <1>1, <1>8
  <2> HIDE DEF i
  <2>2. /\ at[i] = at[k] + Len(seqs[i]) /\ at[i] <= Len(flat)
        /\ \A x \in 1..Len(seqs[i]) : flat[at[k] + x] = seqs[i][x]
    BY <1>5, <2>1
  <2>3. CASE c \in {"!", "%", "_"}
    <3>0. seqs[i] = <<"!", c>>
      BY <1>2, <2>1, <2>3
    <3>1. Len(seqs[i]) = 2 /\ seqs[i][1] = "!" /\ seqs[i][2] = c
      BY <3>0
    <3>2. at[i] = at[k] + 2 /\ at[k] + 2 <= Len(flat) /\ flat[at[k] + 1] = "!" /\ flat[at[k] + 2] = c
      BY <2>2, <3>1
    <3>3. at[k] + 1 \in 1..Len(flat) /\ at[k] + 2 \in 1..Len(flat)
      BY <1>7, <2>1, <3>2
    <3>4. pattern[1 + (at[k] + 1)] = "!" /\ pattern[1 + (at[k] + 2)] = c
      BY <1>7, <3>2, <3>3
    <3>5. 1 + (at[k] + 1) = 2 + at[k] /\ 1 + (at[k] + 2) = 2 + at[k] + 1 /\ 2 + at[k] < Len(pattern)
      BY <1>7, <2>1, <3>2
    <3> QED BY <2>3, <3>2, <3>4, <3>5 DEF i
  <2>4. CASE c \notin {"!", "%", "_"}
    <3>0. seqs[i] = <<c>>
      BY <1>2, <2>1, <2>4
    <3>1. Len(seqs[i]) = 1 /\ seqs[i][1] = c
      BY <3>0
    <3>2. at[i] = at[k] + 1 /\ at[k] + 1 <= Len(flat) /\ flat[at[k] + 1] = c
      BY <2>2, <3>1
    <3>3. at[k] + 1 \in 1..Len(flat)
      BY <1>7, <2>1, <3>2
    <3>4. pattern[1 + (at[k] + 1)] = c
      BY <1>7, <3>2, <3>3
    <3>5. 1 + (at[k] + 1) = 2 + at[k] /\ 2 + at[k] < Len(pattern)
      BY <1>7, <2>1, <3>2
    <3> QED BY <2>4, <3>2, <3>4, <3>5 DEF i
  <2> QED BY <2>3, <2>4
<1>9. Spells(at, pattern, value)
  BY <1>5, <1>7, <1>8 DEF Spells, n
<1> QED BY <1>7, <1>9 DEF pattern, C

\* The places of a text where the last d characters of value follow.
Ends(text, value, d) ==
  {i \in 1..Len(text) + 1 : i + d <= Len(text) + 1
                            /\ \A x \in 1..d : text[i + (x - 1)] = value[(Len(value) - d) + x]}

\* Those with the character before in front of them.
Longer(text, value, d) ==
  {i \in 1..Len(text) : text[i] = value[Len(value) - d] /\ i + 1 \in Ends(text, value, d)}

\* One more character in front.
LEMMA EndsGrow ==
  ASSUME NEW text, NEW value, NEW d \in Nat, Len(text) \in Nat, Len(value) \in Nat, d < Len(value)
  PROVE  Ends(text, value, d + 1) = Longer(text, value, d)
<1> DEFINE n == Len(text)
           L == Len(value)
<1> HIDE DEF n, L
<1>1. n \in Nat /\ L \in Nat /\ d < L
  BY DEF n, L
<1>2. ASSUME NEW i, i \in Ends(text, value, d + 1)
      PROVE  i \in Longer(text, value, d)
  <2>1. i \in 1..n + 1 /\ i + (d + 1) <= n + 1 /\ \A x \in 1..d + 1 : text[i + (x - 1)] = value[(L - (d + 1)) + x]
    BY <1>2 DEF Ends, n, L
  <2>2. i \in 1..n /\ i + 1 \in 1..n + 1 /\ (i + 1) + d <= n + 1
    BY <1>1, <2>1
  <2>3. text[i] = value[L - d]
    <3>1. 1 \in 1..d + 1 /\ i + (1 - 1) = i /\ (L - (d + 1)) + 1 = L - d
      BY <1>1, <2>2
    <3>2. text[i + (1 - 1)] = value[(L - (d + 1)) + 1]
      BY <2>1, <3>1
    <3> QED BY <3>1, <3>2
  <2>4. ASSUME NEW x \in 1..d
        PROVE  text[(i + 1) + (x - 1)] = value[(L - d) + x]
    <3>1. x + 1 \in 1..d + 1 /\ i + ((x + 1) - 1) = (i + 1) + (x - 1) /\ (L - (d + 1)) + (x + 1) = (L - d) + x
      BY <1>1, <2>2
    <3>2. text[i + ((x + 1) - 1)] = value[(L - (d + 1)) + (x + 1)]
      BY <2>1, <3>1
    <3> QED BY <3>1, <3>2
  <2>5. i + 1 \in Ends(text, value, d)
    BY <2>2, <2>4 DEF Ends, n, L
  <2> QED BY <2>2, <2>3, <2>5 DEF Longer, n, L
<1>3. ASSUME NEW i, i \in Longer(text, value, d)
      PROVE  i \in Ends(text, value, d + 1)
  <2>1. i \in 1..n /\ text[i] = value[L - d] /\ i + 1 \in Ends(text, value, d)
    BY <1>3 DEF Longer, n, L
  <2>2. (i + 1) + d <= n + 1 /\ \A x \in 1..d : text[(i + 1) + (x - 1)] = value[(L - d) + x]
    BY <2>1 DEF Ends, n, L
  <2>3. i \in 1..n + 1 /\ i + (d + 1) <= n + 1
    BY <1>1, <2>1, <2>2
  <2>4. ASSUME NEW x \in 1..d + 1
        PROVE  text[i + (x - 1)] = value[(L - (d + 1)) + x]
    <3>1. CASE x = 1
      <4>1. i + (x - 1) = i /\ (L - (d + 1)) + x = L - d
        BY <1>1, <2>1, <3>1
      <4> QED BY <2>1, <4>1
    <3>2. CASE x # 1
      <4>1. x - 1 \in 1..d /\ (i + 1) + ((x - 1) - 1) = i + (x - 1) /\ (L - d) + (x - 1) = (L - (d + 1)) + x
        <5>0. i \in Nat /\ x \in 1..d + 1 /\ x # 1
          BY <2>1, <3>2
        <5>1. x - 1 \in 1..d
          BY <5>0
        <5> QED BY <1>1, <5>0
      <4>2. text[(i + 1) + ((x - 1) - 1)] = value[(L - d) + (x - 1)]
        BY <2>2, <4>1
      <4> QED BY <4>1, <4>2
    <3> QED BY <3>1, <3>2
  <2> QED BY <2>3, <2>4 DEF Ends, n, L
<1> QED BY <1>2, <1>3

\* A search finds the names in which the text that was asked for occurs, as it is:
\* EscapeLike takes the meaning from every character that has one in a pattern.
THEOREM SearchesAreLiteral ==
  ASSUME NEW S, NEW text \in Seq(S), NEW value \in Seq(S)
  PROVE  Like(text, Search(value)) <=>
           \E k \in 0..Len(text) - Len(value) : \A x \in 1..Len(value) : text[k + x] = value[x]
<1> DEFINE P == Search(value)
           m == Len(P)
           n == Len(text)
           L == Len(value)
           f == CHOOSE g : Rests(g, text, P)
<1> DEFINE C == S \union {"!", "%", "_"}
<1>0. P \in Seq(C)
  BY SearchSpells
<1>1. n \in Nat /\ L \in Nat
  OBVIOUS
<1>2. PICK at : Spells(at, P, value)
  BY SearchSpells
<1>3. Rests(f, text, P)
  BY <1>0, RestsExists
<1>4. Like(text, P) <=> 1 \in f[1]
  BY DEF Like, Rests, Rest, Ended, Wild, Literal, Single
<1> HIDE DEF P, f, C
<1>5. m \in Nat
  BY <1>0
<1> HIDE DEF m, n, L
<1>6. \A j \in 1..m + 1 : f[j] = Rest(f, text, P, j)
  BY <1>3 DEF Rests, m
<1> DEFINE special == {"!", "%", "_"}
<1>7. /\ at \in [0..L -> Nat] /\ at[0] = 0 /\ at[L] + 2 = m
      /\ P[1] = "%" /\ P[m] = "%"
      /\ \A k \in 0..L - 1 :
           /\ 2 + at[k] < m
           /\ value[k + 1] \in special =>
                at[k + 1] = at[k] + 2 /\ P[2 + at[k]] = "!" /\ P[2 + at[k] + 1] = value[k + 1]
           /\ value[k + 1] \notin special => at[k + 1] = at[k] + 1 /\ P[2 + at[k]] = value[k + 1]
  BY <1>2 DEF Spells, m, L
<1> HIDE DEF special
<1>8. ASSUME NEW j \in 1..m + 1
      PROVE  /\ j > m => f[j] = Ended(text)
             /\ j <= m /\ P[j] = "%" => f[j] = Wild(f, text, j)
             /\ j < m /\ P[j] = "!" => f[j] = Literal(f, text, P, j)
             /\ j <= m /\ P[j] # "%" /\ ~(j < m /\ P[j] = "!") => f[j] = Single(f, text, P, j)
  <2>1. j \in Nat
    BY <1>5
  <2> QED BY <1>5, <1>6, <2>1, RestCases DEF m
<1>9. at[L] \in Nat /\ m \in 1..m + 1 /\ m + 1 \in 1..m + 1 /\ 1 \in 1..m + 1 /\ 1 <= m
  <2>1. L \in 0..L
    BY <1>1
  <2>2. at[L] \in Nat /\ at[L] + 2 = m
    BY <1>7, <2>1
  <2> QED BY <2>2
<1>10. f[m + 1] = {n + 1}
  BY <1>5, <1>8, <1>9 DEF Ended, n
<1>11. f[m] = 1..n + 1
  <2>1. f[m] = {i \in 1..n + 1 : \E k \in f[m + 1] : i <= k}
    <3>1. m <= m /\ P[m] = "%"
      BY <1>5, <1>7
    <3> QED BY <1>8, <1>9, <3>1 DEF Wild, n
  <2> QED BY <1>1, <1>10, <2>1
<1>12. ASSUME NEW k \in 0..L - 1
       PROVE  f[2 + at[k]] = {i \in 1..n : text[i] = value[k + 1] /\ i + 1 \in f[2 + at[k + 1]]}
  <2> DEFINE j == 2 + at[k]
             c == value[k + 1]
  <2>1. at[k] \in Nat
    <3>1. k \in 0..L
      BY <1>1
    <3> QED BY <1>7, <3>1
  <2>2. j < m /\ j \in 1..m + 1
    <3>1. j < m
      BY <1>7
    <3> QED BY <1>5, <2>1, <3>1
  <2>3. CASE c \in special
    <3>1. at[k + 1] = at[k] + 2 /\ P[j] = "!" /\ P[j + 1] = c
      BY <1>7, <2>3
    <3>2. 2 + at[k + 1] = j + 2
      BY <2>1, <3>1
    <3> HIDE DEF j
    <3>3. f[j] = Literal(f, text, P, j)
      BY <1>8, <2>2, <3>1
    <3>4. f[j] = {i \in 1..n : text[i] = P[j + 1] /\ i + 1 \in f[j + 2]}
      BY <3>3 DEF Literal, n
    <3>5. f[j] = {i \in 1..n : text[i] = c /\ i + 1 \in f[2 + at[k + 1]]}
      BY <3>1, <3>2, <3>4
    <3> QED BY <3>5 DEF j
  <2>4. CASE c \notin special
    <3>0. c # "%" /\ c # "!" /\ c # "_"
      <4> HIDE DEF c
      <4> QED BY <2>4 DEF special
    <3>1. at[k + 1] = at[k] + 1 /\ P[j] = c
      BY <1>7, <2>4
    <3>2. 2 + at[k + 1] = j + 1
      <4>1. at[k + 1] = at[k] + 1
        BY <3>1
      <4> QED BY <2>1, <4>1
    <3> HIDE DEF j
    <3>3. f[j] = Single(f, text, P, j)
      <4> HIDE DEF c
      <4>1. j <= m /\ P[j] # "%" /\ P[j] # "!"
        <5>1. j <= m
          BY <1>5, <2>2
        <5> QED BY <3>0, <3>1, <5>1
      <4> QED BY <1>8, <2>2, <4>1
    <3>4. f[j] = {i \in 1..n : P[j] \in {"_", text[i]} /\ i + 1 \in f[j + 1]}
      BY <3>3 DEF Single, n
    <3>5. f[j] = {i \in 1..n : text[i] = c /\ i + 1 \in f[2 + at[k + 1]]}
      <4> HIDE DEF c
      <4> QED BY <3>0, <3>1, <3>2, <3>4
    <3> QED BY <3>5 DEF j
  <2> QED BY <2>3, <2>4
<1> DEFINE Good == {d \in 0..L : f[2 + at[L - d]] = Ends(text, value, d)}
<1>13. 0 \in Good
  <2>1. L - 0 = L /\ 2 + at[L] = m /\ 0 \in 0..L
    <3>1. at[L] + 2 = m
      BY <1>7
    <3> QED BY <1>1, <1>9, <3>1
  <2>2. Ends(text, value, 0) = 1..n + 1
    BY <1>1 DEF Ends, n
  <2> QED BY <1>11, <2>1, <2>2
<1>14. ASSUME NEW d \in 0..L - 1, d \in Good
       PROVE  d + 1 \in Good
  <2> DEFINE k == L - (d + 1)
  <2>1. k \in 0..L - 1 /\ k + 1 = L - d /\ d \in Nat /\ d < L /\ d + 1 \in 0..L
    BY <1>1, <1>14
  <2>2. f[2 + at[L - d]] = Ends(text, value, d)
    BY <1>14
  <2> HIDE DEF k
  <2>3. f[2 + at[k]] = {i \in 1..n : text[i] = value[L - d] /\ i + 1 \in Ends(text, value, d)}
    BY <1>12, <2>1, <2>2
  <2>4. Ends(text, value, d + 1) = {i \in 1..n : text[i] = value[L - d] /\ i + 1 \in Ends(text, value, d)}
    <3>1. Len(text) \in Nat /\ Len(value) \in Nat /\ d < Len(value)
      BY <1>1, <2>1 DEF n, L
    <3>2. d \in Nat
      BY <2>1
    <3>3. Ends(text, value, d + 1) = Longer(text, value, d)
      BY <3>1, <3>2, EndsGrow
    <3> QED BY <3>3 DEF Longer, n, L
  <2>5. f[2 + at[k]] = Ends(text, value, d + 1)
    BY <2>3, <2>4
  <2> QED BY <2>1, <2>5 DEF k
<1>15. f[2] = Ends(text, value, L)
  <2> HIDE DEF Good
  <2>1. \A d \in 0..L : d \in Good
    BY <1>1, <1>13, <1>14, UpTo
  <2>2. L \in Good
    BY <1>1, <2>1
  <2>3. f[2 + at[L - L]] = Ends(text, value, L) /\ L - L = 0
    BY <1>1, <2>2 DEF Good
  <2>4. 2 + at[L - L] = 2
    <3>1. at[0] = 0
      BY <1>7
    <3>2. L - L = 0
      BY <1>1
    <3> QED BY <3>1, <3>2
  <2> QED BY <2>3, <2>4
<1>16. 1 \in f[1] <=> \E i \in Ends(text, value, L) : 1 <= i
  <2>1. f[1] = {i \in 1..n + 1 : \E k \in f[1 + 1] : i <= k}
    BY <1>5, <1>7, <1>8, <1>9 DEF Wild, n
  <2> QED BY <1>1, <1>15, <2>1
<1>17. ASSUME NEW i \in Ends(text, value, L)
       PROVE  i - 1 \in 0..n - L /\ \A x \in 1..L : text[(i - 1) + x] = value[x]
  <2>1. i \in 1..n + 1 /\ i + L <= n + 1 /\ \A x \in 1..L : text[i + (x - 1)] = value[(L - L) + x]
    BY DEF Ends, n, L
  <2>2. i - 1 \in 0..n - L
    BY <1>1, <2>1
  <2>3. ASSUME NEW x \in 1..L
        PROVE  text[(i - 1) + x] = value[x]
    <3>1. (i - 1) + x = i + (x - 1) /\ (L - L) + x = x
      BY <1>1, <2>1
    <3> QED BY <2>1, <3>1
  <2> QED BY <2>2, <2>3
<1>18. ASSUME NEW k \in 0..n - L, \A x \in 1..L : text[k + x] = value[x]
       PROVE  k + 1 \in Ends(text, value, L) /\ 1 <= k + 1
  <2>1. k + 1 \in 1..n + 1 /\ (k + 1) + L <= n + 1 /\ 1 <= k + 1
    BY <1>1
  <2>2. ASSUME NEW x \in 1..L
        PROVE  text[(k + 1) + (x - 1)] = value[(L - L) + x]
    <3>1. (k + 1) + (x - 1) = k + x /\ (L - L) + x = x
      BY <1>1
    <3> QED BY <1>18, <3>1
  <2> QED BY <2>1, <2>2 DEF Ends, n, L
<1>19. 1 \in f[1] <=> \E k \in 0..n - L : \A x \in 1..L : text[k + x] = value[x]
  <2>1. ASSUME NEW i \in Ends(text, value, L)
        PROVE  1 <= i
    BY <1>1 DEF Ends, n
  <2> QED BY <1>16, <1>17, <1>18, <2>1
<1> QED BY <1>4, <1>19 DEF P, n, L
=============================================================================
