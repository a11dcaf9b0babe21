----------------------------- MODULE HealthCheck -----------------------------
(***************************************************************************)
(* healthcheck.Check: Report and CheckDB take a snapshot of the registered *)
(* connections and of the timeout under the lock, ping the connections     *)
(* concurrently without it, and wait for all.  Connections are registered, *)
(* replaced and removed meanwhile.  A driver returns from PingContext when *)
(* its context ends.                                                       *)
(***************************************************************************)
EXTENDS Integers, FiniteSets

CONSTANTS
  NoConn,   \* not registered
  Names, Conns,
  Initial,  \* the entries given to New
  Timeouts, \* what SetPingTimeout is called with, 0 for a value that is not positive
  DefaultPingTimeout

ASSUME HealthAssumption ==
  Initial \in [Names -> Conns \union {NoConn}] /\ Timeouts \subseteq Nat /\ DefaultPingTimeout \in Nat \ {0}

VARIABLES
  databases,   \* name -> connection
  pingTimeout,
  report       \* the call in progress

healthVars == <<databases, pingTimeout, report>>

NoReport == [busy |-> FALSE]

HealthInit ==
  /\ databases = Initial
  /\ pingTimeout = DefaultPingTimeout
  /\ report = NoReport

SetPingTimeout(d) ==
  /\ pingTimeout' = IF d = 0 THEN DefaultPingTimeout ELSE d
  /\ UNCHANGED <<databases, report>>

AddDB(n, c) ==
  /\ databases' = [databases EXCEPT ![n] = c]
  /\ UNCHANGED <<pingTimeout, report>>

RemoveDB(n) ==
  /\ databases' = [databases EXCEPT ![n] = NoConn]
  /\ UNCHANGED <<pingTimeout, report>>

Registered == {n \in Names : databases[n] # NoConn}

\* The snapshot of Report, with every name, or of CheckDB, with one of them.
Snapshot(names) ==
  /\ ~report.busy
  /\ report' = [busy |-> TRUE, age |-> 0, timeout |-> pingTimeout,
                snapshot |-> [n \in names |-> databases[n]],
                probe |-> [n \in names |-> [status |-> "pending", conn |-> NoConn,
                                            left |-> pingTimeout]]]
  /\ UNCHANGED <<databases, pingTimeout>>

Pending == IF report.busy THEN {n \in DOMAIN report.probe : report.probe[n].status = "pending"}
           ELSE {}

\* Mutant: one probe after the other.
Started_OneByOne(pending) == IF pending = {} THEN {} ELSE {CHOOSE n \in pending : TRUE}
\* probeAllDBs: every connection has its goroutine.
Started(pending) == pending

\* Mutant: the registry is read again when the probe runs.
ProbeDB_Live(n) ==
  /\ n \in Started(Pending)
  /\ \E status \in {"healthy", "unhealthy"} :
       report' = [report EXCEPT !.probe[n].status = status, !.probe[n].conn = databases[n]]
  /\ UNCHANGED <<databases, pingTimeout>>
\* Mutant: a ping that fails does not count down the wait group.
ProbeDB_NoDone(n) ==
  /\ n \in Started(Pending)
  /\ report' = [report EXCEPT !.probe[n].status = "healthy", !.probe[n].conn = report.snapshot[n]]
  /\ report.probe[n].left > 0
  /\ UNCHANGED <<databases, pingTimeout>>

\* probeDB: the ping is answered, fails, or runs into its deadline.
ProbeDB(n) ==
  /\ n \in Started(Pending)
  /\ \E status \in {"healthy", "unhealthy"} :
       report' = [report EXCEPT !.probe[n] = [status |-> status, conn |-> report.snapshot[n],
                                              left |-> report.probe[n].left]]
  /\ UNCHANGED <<databases, pingTimeout>>

\* Time passes until the deadline of a running probe.
Tick ==
  /\ Pending # {}
  /\ \A n \in Started(Pending) : report.probe[n].left > 0
  /\ report' = [report EXCEPT !.age = @ + 1, !.probe = [n \in DOMAIN report.probe |->
                  IF n \in Started(Pending) THEN [report.probe[n] EXCEPT !.left = @ - 1]
                  ELSE report.probe[n]]]
  /\ UNCHANGED <<databases, pingTimeout>>

\* wg.Wait has returned.
Finished == report.busy /\ Pending = {}
Return ==
  /\ Finished
  /\ report' = NoReport
  /\ UNCHANGED <<databases, pingTimeout>>

-----------------------------------------------------------------------------
(* Properties. *)

\* "one slow connection does not delay others" (README.md:106): a call takes no
\* longer than the one timeout it read, however many connections stall and
\* whatever SetPingTimeout does meanwhile (check.go:75-77, 177-209).
ReportInTime == report.busy => report.age <= report.timeout

\* A report speaks of the connections of its snapshot under their own names, also
\* when they are replaced or removed while they are pinged (check.go:177-203).
ReportMatchesSnapshot ==
  report.busy => \A n \in DOMAIN report.probe \ Pending :
                   report.probe[n].conn = report.snapshot[n] /\ report.probe[n].conn # NoConn
=============================================================================
