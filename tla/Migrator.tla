------------------------------ MODULE Migrator ------------------------------
(***************************************************************************)
(* The start of the replicas of a service on one database: gorm.New        *)
(* connects with retries (src/database/gorm), migrate.New, Migrate and     *)
(* Populate bring the schema up to date (src/database/migrate).  A replica *)
(* may crash between any two steps and start again.                        *)
(*                                                                         *)
(* golang-migrate is external: Up takes the database's lock, refuses a     *)
(* dirty schema, and marks the schema dirty while a migration runs.  The   *)
(* lock belongs to a connection and ends with its process (PostgreSQL,     *)
(* MySQL).                                                                 *)
(***************************************************************************)
EXTENDS Integers, Sequences

CONSTANTS
  None,
  Replicas,
  LastVersion,          \* the migrations are 1 .. LastVersion
  Seeds,         \* the .sql files of PopulationPath are 1 .. Seeds
  RetryAttempts,
  MaxStarts      \* replica -> bound on its starts

ASSUME MigratorAssumption ==
  /\ LastVersion \in Nat \ {0} /\ Seeds \in Nat /\ RetryAttempts \in Nat
  /\ MaxStarts \in [Replicas -> Nat] /\ None \notin Replicas

VARIABLES
  schema, \* [version, dirty] and the holder of the lock
  done,   \* history: the migrations whose statements have all taken effect
  boot    \* replica -> where it is in its start

migratorVars == <<schema, done, boot>>

\* tries: of gorm.Open; ran: Up has run a migration; seed: the files executed.
Down(starts) == [pc |-> "down", tries |-> 0, ran |-> FALSE, seed |-> 0, starts |-> starts]

MigratorInit ==
  /\ schema = [version |-> 0, dirty |-> FALSE, holder |-> None]
  /\ done = <<>>
  /\ boot = [r \in Replicas |-> Down(0)]

At(r, pc) == boot[r].pc = pc
Goto(r, pc) == boot' = [boot EXCEPT ![r] = [Down(@.starts) EXCEPT !.pc = pc]]
\* An error is reported and the process ends.
Exit(r) == Goto(r, "down")

Start(r) ==
  /\ At(r, "down") /\ boot[r].starts < MaxStarts[r]
  /\ boot' = [boot EXCEPT ![r] = [Down(boot[r].starts + 1) EXCEPT !.pc = "open"]]
  /\ UNCHANGED <<schema, done>>

-----------------------------------------------------------------------------
\* Mutant: the count begins anew when it is used up.
Open_Forever(r) ==
  /\ At(r, "open")
  /\ Goto(r, "new") \/ boot' = [boot EXCEPT ![r].tries = (@ + 1) % (RetryAttempts + 1)]
  /\ UNCHANGED <<schema, done>>

\* Mutant: one attempt more than configured.
Open_OneMore(r) ==
  /\ At(r, "open")
  /\ \/ Goto(r, "new")
     \/ /\ boot[r].tries <= RetryAttempts
        /\ boot' = [boot EXCEPT ![r].tries = @ + 1]
     \/ Exit(r)
  /\ UNCHANGED <<schema, done>>

\* gorm.New: one gorm.Open, and the wait before the next one.  Invalid
\* configurations and a pool that cannot be had end the start.
Open(r) ==
  /\ At(r, "open")
  /\ \/ Goto(r, "new")
     \/ /\ boot[r].tries < RetryAttempts
        /\ boot' = [boot EXCEPT ![r].tries = @ + 1]
     \/ Exit(r)
  /\ UNCHANGED <<schema, done>>

\* migrate.New: validation, Ping and the driver may each fail.
New(r) ==
  /\ At(r, "new")
  /\ Goto(r, "migrate") \/ Exit(r)
  /\ UNCHANGED <<schema, done>>

\* Mutant: a dirty version is forced clean and migration goes on.
Migrate_Force(r) ==
  /\ At(r, "migrate")
  /\ schema' = [schema EXCEPT !.dirty = FALSE]
  /\ Goto(r, "lock")
  /\ UNCHANGED done

\* Migrate up to the call of Up: cancelled, no version, or dirty (which it
\* reads without the lock).
Migrate(r) ==
  /\ At(r, "migrate")
  /\ Exit(r) \/ (~schema.dirty /\ Goto(r, "lock"))
  /\ UNCHANGED <<schema, done>>

\* External: Up takes the lock or gives up waiting for it.
Lock(r) ==
  /\ At(r, "lock")
  /\ \/ /\ schema.holder = None
        /\ schema' = [schema EXCEPT !.holder = r]
        /\ Goto(r, "up")
     \/ Exit(r) /\ UNCHANGED schema
  /\ UNCHANGED done

\* External: Up begins the next migration.
Begin(r) ==
  /\ At(r, "up") /\ ~schema.dirty /\ schema.version < LastVersion
  /\ schema' = [schema EXCEPT !.version = @ + 1, !.dirty = TRUE]
  /\ boot' = [boot EXCEPT ![r].pc = "run"]
  /\ UNCHANGED done

\* External: the migration succeeds, or fails and leaves the schema dirty.
Run(r) ==
  /\ At(r, "run")
  /\ \/ /\ schema' = [schema EXCEPT !.dirty = FALSE]
        /\ done' = Append(done, schema.version)
        /\ boot' = [boot EXCEPT ![r].pc = "up", ![r].ran = TRUE]
     \/ /\ schema' = [schema EXCEPT !.holder = None]
        /\ Exit(r)
        /\ UNCHANGED done

\* Mutant: every error of Up is taken for "no change".
Migrated_AnyError(r) ==
  /\ At(r, "up") /\ (schema.dirty \/ schema.version = LastVersion)
  /\ schema' = [schema EXCEPT !.holder = None]
  /\ Goto(r, "populate")
  /\ UNCHANGED done

\* Up returns: ErrDirty, ErrNoChange, which is success, or nil, after which
\* Migrate still reports a cancelled context.
Migrated(r) ==
  /\ At(r, "up") /\ (schema.dirty \/ schema.version = LastVersion)
  /\ schema' = [schema EXCEPT !.holder = None]
  /\ \/ ~schema.dirty /\ Goto(r, "populate")
     \/ (schema.dirty \/ boot[r].ran) /\ Exit(r)
  /\ UNCHANGED done

\* Populate: the next file, unless the context is cancelled, the file cannot be
\* read or it fails to execute.
Populate(r) ==
  /\ At(r, "populate")
  /\ \/ boot[r].seed < Seeds /\ boot' = [boot EXCEPT ![r].seed = @ + 1]
     \/ boot[r].seed < Seeds /\ Exit(r)
     \/ boot[r].seed = Seeds /\ Goto(r, "ready")
  /\ UNCHANGED <<schema, done>>

\* The process dies: the lock goes, the dirty flag stays.
Crash(r) ==
  /\ ~At(r, "down")
  /\ boot' = [boot EXCEPT ![r] = Down(boot[r].starts)]
  /\ schema' = [schema EXCEPT !.holder = IF @ = r THEN None ELSE @]
  /\ UNCHANGED done

\* The manual intervention that a dirty schema needs: an operator completes the
\* migration or takes it back, and sets the version.
Repair ==
  /\ schema.dirty /\ schema.holder = None
  /\ \/ /\ schema' = [schema EXCEPT !.dirty = FALSE]
        /\ done' = Append(done, schema.version)
     \/ /\ schema' = [schema EXCEPT !.dirty = FALSE, !.version = @ - 1]
        /\ UNCHANGED done
  /\ UNCHANGED boot

StartStep(r) ==
  Open(r) \/ New(r) \/ Migrate(r) \/ Lock(r) \/ Begin(r) \/ Run(r) \/ Migrated(r) \/ Populate(r)

-----------------------------------------------------------------------------
(* Properties. *)

\* Migrations take effect once and in order, and the recorded version counts
\* them exactly, whatever replicas start, fail and crash at the same time
\* (migrator.go:101-128).
OnceInOrder ==
  /\ \A i \in DOMAIN done : done[i] = i
  /\ Len(done) = IF schema.dirty THEN schema.version - 1 ELSE schema.version

\* No seed file is executed and no replica is ready on a schema that is dirty or
\* behind, although Populate holds no lock (migrator.go:116-163).
MigratedBeforeUse ==
  \A r \in Replicas : boot[r].pc \in {"populate", "ready"} =>
    schema.version = LastVersion /\ ~schema.dirty

\* A start ends, ready or with an error, however many attempts fail and whoever
\* holds the lock (gorm.go:80-93).
StartEnds == \A r \in Replicas : At(r, "open") ~> boot[r].pc \in {"ready", "down"}
=============================================================================
