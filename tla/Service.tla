------------------------------- MODULE Service -------------------------------
(***************************************************************************)
(* The life of a service built from the packages: its replicas start       *)
(* against one database (Migrator); the one called Main then registers its *)
(* error mappings (ErrorResolver) and connections (HealthCheck), builds a  *)
(* Gin engine (src/httpserver/gin.go), serves one request at a time and is *)
(* shut down, or crashes.  net/http's Server is external: Shutdown refuses *)
(* new requests and waits for the one in flight.  Two of the handlers list *)
(* a table (Pagination) and export it as a file (Spreadsheet).             *)
(***************************************************************************)
EXTENDS Migrator, ErrorResolver, HealthCheck, Pagination, Spreadsheet

CONSTANTS
  Main,
  Configs,    \* GinConfigs: [port, host, ssl, cert, redirect, json, limit,
              \* tables]: tables tells whether the listing routes are the engine's
  BootBatch,  \* what MustAddEntries registers
  Batches, Fallbacks, \* what is registered while the service runs
  Errors,     \* of the handlers, "none", "tooLarge" and "unregistered" among them
  Queries,    \* of the listings
  Exports,    \* [query, format, book]: book names the sheets, the first for the rows listed
  MaxChanges  \* bound on the changes to the registries and the table

ASSUME ServiceAssumption ==
  /\ Main \in Replicas /\ MaxChanges \in Nat
  /\ BootBatch \in Seq(Err) /\ Batches \subseteq Seq(Err) /\ Fallbacks \subseteq Err

Asked == Queries \union {e.query : e \in Exports}

\* Whoever reads all pages begins with the first.
ASSUME QueriesAssumption ==
  /\ \A q \in Asked : /\ q.page.number \in Int /\ q.page.perPage \in Int
                      /\ q.all => q.page.number <= 1
  /\ \A e \in Exports : e.book \in Seq(STRING)

VARIABLES
  server,  \* the engine of Main
  req,     \* the request in flight
  changes  \* changes to the registries and the table so far

exportVars == <<listingVars, writer>>
vars == <<migratorVars, resolverVars, healthVars, exportVars, server, req, changes>>

DefaultFallback == [err |-> "unmapped", status |-> 500, ok |-> TRUE]
NoServer == [state |-> "none"]
NoReq == [route |-> "idle"]

Init ==
  /\ MigratorInit /\ HealthInit
  /\ entries = <<>> /\ fallback = DefaultFallback
  /\ ListingInit /\ writer = NoWriter
  /\ server = NoServer /\ req = NoReq /\ changes = 0

-----------------------------------------------------------------------------
(* Start and end of the process. *)

\* The memory of Main is gone with its process.
Forget ==
  /\ entries' = <<>> /\ fallback' = DefaultFallback
  /\ databases' = Initial /\ pingTimeout' = DefaultPingTimeout /\ report' = NoReport
  /\ listing' = NoListing /\ writer' = NoWriter
  /\ server' = NoServer /\ req' = NoReq

\* validateConfig
ValidateConfig(c) == c.port # 0 /\ c.host # "unknown" /\ (c.ssl => c.cert)

\* NewErrorResolver and MustAddEntries, healthcheck.New and NewGin; a panic or an
\* error ends the process.  A bound: listings are explored when the other replicas,
\* which have nothing to do with them, are down for good.
Build(c) ==
  LET added == Added(<<>>, BootBatch) IN
  /\ At(Main, "ready") /\ server = NoServer
  /\ c.tables => \A r \in Replicas \ {Main} : At(r, "down") /\ boot[r].starts = MaxStarts[r]
  /\ IF added.failed \/ ~ValidateConfig(c) THEN Exit(Main) /\ Forget
     ELSE /\ server' = [state |-> "built", config |-> c]
          /\ entries' = added.list
          /\ UNCHANGED <<boot, fallback, healthVars, listing, writer, req>>
  /\ UNCHANGED <<schema, done, tableVars, changes>>

\* Listen serves, or returns an error such as an address in use.
Listen ==
  /\ server.state = "built"
  /\ \/ /\ server' = [server EXCEPT !.state = "listening"]
        /\ UNCHANGED <<boot, resolverVars, healthVars, listing, writer, req>>
     \/ Exit(Main) /\ Forget
  /\ UNCHANGED <<schema, done, tableVars, changes>>

\* Shutdown: a Listen that comes after it returns at once.
Shutdown ==
  /\ server.state \in {"built", "listening"}
  /\ server' = [server EXCEPT !.state = "draining"]
  /\ UNCHANGED <<migratorVars, resolverVars, healthVars, exportVars, req, changes>>

\* External: Shutdown has waited for the request in flight, or its context ended.
ShutdownDone ==
  /\ server.state = "draining" /\ req = NoReq
  /\ server' = [server EXCEPT !.state = "closed"]
  /\ UNCHANGED <<migratorVars, resolverVars, healthVars, exportVars, req, changes>>

ShutdownExpires ==
  /\ server.state = "draining" /\ req # NoReq
  /\ server' = [server EXCEPT !.state = "closed"]
  /\ UNCHANGED <<migratorVars, resolverVars, healthVars, exportVars, req, changes>>

\* A replica crashes; Main loses what it holds in memory.
Dies(r) ==
  /\ Crash(r)
  /\ IF r = Main THEN Forget ELSE UNCHANGED <<resolverVars, healthVars, listing, writer, server, req>>
  /\ UNCHANGED <<tableVars, changes>>

-----------------------------------------------------------------------------
(* Requests. *)

Arrives(route, err, export) ==
  /\ server.state = "listening" /\ req = NoReq
  /\ req' = [route |-> route, err |-> err, before |-> Len(entries), hit |-> 0,
             status |-> 0, step |-> "in", export |-> export, file |-> None]

\* A request comes in; what its handler will do is chosen here.
Request(route, err) ==
  /\ Arrives(route, err, None) /\ (server.config.tables => route = "nowhere")
  /\ UNCHANGED <<migratorVars, resolverVars, healthVars, exportVars, server, changes>>

Answer(status) == req' = [req EXCEPT !.status = status, !.step = "out"]
In(route) == req # NoReq /\ req.step = "in" /\ req.route = route

\* setupNoRouteHandler
NoRoute ==
  /\ In("nowhere")
  /\ Answer(IF server.config.redirect /\ ~server.config.json THEN 307 ELSE 404)
  /\ UNCHANGED <<migratorVars, resolverVars, healthVars, exportVars, server, changes>>

\* Report and CheckDB; a name that is not registered is an error to resolve.
Probe ==
  /\ \/ /\ In("health")
        /\ Snapshot(Registered)
        /\ req' = [req EXCEPT !.step = "probe"]
     \/ \E n \in Names :
          /\ In("check")
          /\ IF n \in Registered THEN Snapshot({n}) /\ req' = [req EXCEPT !.step = "probe"]
             ELSE req' = [req EXCEPT !.step = "resolve"] /\ UNCHANGED healthVars
  /\ UNCHANGED <<migratorVars, resolverVars, exportVars, server, changes>>

ProbeReturns ==
  /\ req # NoReq /\ req.step = "probe"
  /\ Return
  /\ Answer(200)
  /\ UNCHANGED <<migratorVars, resolverVars, exportVars, server, changes>>

\* The handler of an API route; a body above the limit is an error when it is read.
Handler ==
  /\ In("api")
  /\ IF req.err = "none" \/ (req.err = "tooLarge" /\ server.config.limit = 0)
     THEN Answer(200)
     ELSE req' = [req EXCEPT !.step = "resolve"]
  /\ UNCHANGED <<migratorVars, resolverVars, healthVars, exportVars, server, changes>>

\* Resolve: Lookup under one lock ...
Resolve ==
  /\ req # NoReq /\ req.step = "resolve"
  /\ LET i == Lookup(entries, req.err) IN
     IF i = 0 THEN req' = [req EXCEPT !.step = "fallback"]
     ELSE req' = [req EXCEPT !.step = "out", !.hit = i, !.status = entries[i].status]
  /\ UNCHANGED <<migratorVars, resolverVars, healthVars, exportVars, server, changes>>

\* ... and the fallback under another.
Fallback ==
  /\ req # NoReq /\ req.step = "fallback"
  /\ Answer(fallback.status)
  /\ UNCHANGED <<migratorVars, resolverVars, healthVars, exportVars, server, changes>>

Respond ==
  /\ req # NoReq /\ req.step = "out"
  /\ req' = NoReq /\ listing' = NoListing
  /\ UNCHANGED <<migratorVars, resolverVars, healthVars, tableVars, writer, server, changes>>

-----------------------------------------------------------------------------
(* Listings and exports. *)

otherVars == <<migratorVars, resolverVars, healthVars, server, changes>>

\* One page, or all of them for a file.  At most one writer is modelled at a time:
\* an export waits for a goroutine that an earlier one left behind.
RequestPage(q) ==
  /\ Arrives("list", "unregistered", None) /\ server.config.tables /\ NewQuery(q)
  /\ UNCHANGED <<otherVars, writer>>
RequestExport(e) ==
  /\ writer = NoWriter
  /\ Arrives("export", "unregistered", e) /\ server.config.tables /\ NewQuery(e.query)
  /\ UNCHANGED <<otherVars, writer>>

Paging == (Count \/ Find) /\ UNCHANGED <<otherVars, writer, req>>

\* An error of the database or of Write is resolved as any other.
Fails == req' = [req EXCEPT !.step = "resolve"]
PagingFails ==
  /\ listing.step = "failed" /\ req # NoReq /\ req.step = "in"
  /\ Fails
  /\ UNCHANGED <<otherVars, exportVars>>
Listed ==
  /\ In("list") /\ listing.step = "done"
  /\ Answer(200)
  /\ UNCHANGED <<otherVars, exportVars>>

\* The other sheets have a row of their own.
Sheets(book, rows) ==
  [i \in DOMAIN book |-> [name |-> book[i], headers |-> 1, rows |-> IF i = 1 THEN rows ELSE <<i>>]]
Export ==
  /\ In("export") /\ listing.step = "done"
  /\ LET sheets == Sheets(req.export.book, listing.rows) IN
     IF Refused(req.export.format, sheets) THEN Fails /\ UNCHANGED writer
     ELSE BeginWrite(req.export.format, sheets) /\ req' = [req EXCEPT !.step = "write"]
  /\ UNCHANGED <<otherVars, listingVars>>

Exported ==
  /\ req # NoReq /\ req.step = "write"
  /\ \/ TakeResult /\ (IF writer.ok THEN req' = [req EXCEPT !.status = 200, !.step = "out", !.file = writer.tabs]
                       ELSE Fails)
     \/ GiveUp /\ Fails
  /\ UNCHANGED <<otherVars, listingVars>>

\* The goroutine, on its own, and the client.
Writing == (WriteSheet \/ SendResult) /\ UNCHANGED <<otherVars, listingVars, req>>
Leaves == Disconnect /\ UNCHANGED <<otherVars, listingVars, req>>

-----------------------------------------------------------------------------
(* Changes while Main runs: to the table if its engine lists it (a bound),   *)
(* else to the registries.                                                   *)

Change ==
  /\ server # NoServer /\ changes < MaxChanges
  /\ changes' = changes + 1
  /\ \/ /\ ~server.config.tables
        /\ \/ \E batch \in Batches : AddEntries(batch)
           \/ \E e \in Fallbacks : SetFallback(e)
        /\ UNCHANGED <<healthVars, listingVars>>
     \/ /\ ~server.config.tables
        /\ \/ \E n \in Names, c \in Conns : AddDB(n, c)
           \/ \E n \in Names : RemoveDB(n)
           \/ \E d \in Timeouts : SetPingTimeout(d)
        /\ UNCHANGED <<resolverVars, listingVars>>
     \/ /\ server.config.tables
        /\ \E r \in DOMAIN RowNames : Insert(r) \/ Delete(r)
        /\ UNCHANGED <<resolverVars, healthVars>>
  /\ UNCHANGED <<migratorVars, writer, server, req>>

Booting(r) == StartStep(r) /\ UNCHANGED <<resolverVars, healthVars, exportVars, server, req, changes>>
Pinging == (Tick \/ \E n \in Names : ProbeDB(n)) /\ UNCHANGED <<migratorVars, resolverVars, exportVars, server, req, changes>>
Serving == NoRoute \/ Probe \/ ProbeReturns \/ Handler \/ Resolve \/ Fallback \/ Respond
           \/ Paging \/ PagingFails \/ Listed \/ Export \/ Exported

Next ==
  \/ \E r \in Replicas :
       \/ Booting(r) \/ Dies(r)
       \/ Start(r) /\ UNCHANGED <<resolverVars, healthVars, exportVars, server, req, changes>>
  \/ Repair /\ UNCHANGED <<resolverVars, healthVars, exportVars, server, req, changes>>
  \/ (\E c \in Configs : Build(c)) \/ Listen \/ Shutdown \/ ShutdownDone \/ ShutdownExpires
  \/ \E err \in Errors : Request("api", err)
  \/ \E route \in {"health", "check", "nowhere"} : Request(route, "unregistered")
  \/ (\E q \in Queries : RequestPage(q)) \/ (\E e \in Exports : RequestExport(e))
  \/ Serving \/ Pinging \/ Writing \/ Leaves \/ Change

\* The steps of a start, of a request of its probes and of a
\* writer are taken; time passes.
Spec == Init /\ [][Next]_vars
FairSpec ==
  /\ Spec
  /\ \A r \in Replicas : WF_vars(Booting(r))
  /\ WF_vars(Serving) /\ WF_vars(Pinging) /\ WF_vars(Writing) /\ WF_vars(ShutdownDone)

-----------------------------------------------------------------------------
(* Properties. *)

\* Every variable has its type; a request is in flight only in a running server.
TypeOK ==
  /\ schema.version \in 0..LastVersion /\ schema.holder \in Replicas \union {None}
  /\ \A r \in Replicas : boot[r].tries <= RetryAttempts /\ boot[r].seed <= Seeds
  /\ databases \in [Names -> Conns \union {NoConn}] /\ pingTimeout # 0
  /\ req # NoReq => server.state \in {"listening", "draining", "closed"}
  /\ \A i \in DOMAIN entries : Validate(entries[i])

\* Resolve "always returns a renderable response" (error_resolver.go:138):
\* whatever was registered, and also if the fallback changes between the locks.
Renderable == req # NoReq /\ req.step = "out" => req.status \in 100..599

\* An error is answered with the first of the entries registered before the
\* request that match it, whatever is registered meanwhile: "Match priority
\* follows registration order" (error_resolver.go:50-51, 120-136).
FirstMatchAnswers ==
  req # NoReq /\ req.step = "out" /\ req.route \in {"api", "check"} /\ req.status # 200 =>
    LET match == {i \in 1..req.before : Is(req.err, entries[i].err)}
    IN match # {} => req.hit \in match /\ \A i \in match : req.hit <= i

\* A file that answers an export holds every sheet with all of its rows, the first one
\* if it is CSV, however late its context ended (excelize.go:114-233); sheets that
\* share a name share a tab.
WrittenWhole ==
  req # NoReq /\ req.route = "export" /\ req.file # None =>
    LET sheets == Sheets(req.export.book, listing.rows)
        rows == [i \in DOMAIN sheets |-> sheets[i].rows]
        names == [i \in DOMAIN sheets |-> SheetKey(ResolveSheetName(sheets[i].name))]
        written == [i \in DOMAIN req.file |-> req.file[i].rows]
    IN IF req.export.format = "csv" THEN written = <<listing.rows>>
       ELSE req.export.format = "xlsx" /\ (IsInjective(names) => written = rows)

\* The goroutine of every export ends, also when its caller has left: the channel
\* has room for its result (excelize.go:91-104).
WritersEnd == writer # NoWriter ~> writer = NoWriter

\* Shutdown without a deadline returns: no handler is stuck in a lock, and a health
\* report not behind a stalled database (gin.go:183-190, check.go:201).  A listing's
\* Count and Find have no deadline of their own; they are assumed to return.
ShutdownCompletes ==
  server.state = "draining" ~> server.state \in {"closed", "none"}

\* Starts of any replicas, in any order and with any crash, bring the schema up to
\* date once, and none serves before (gorm.go:80-93, migrator.go:101-163).
MigrationsSafe == TypeOK /\ OnceInOrder /\ MigratedBeforeUse

\* Errors are answered from the registry as it was meant: no sentinel has two
\* entries, the first match answers, and every answer can be rendered
\* (error_resolver.go:87-151).
ErrorsAnswered == NoAliases /\ FirstMatchAnswers /\ Renderable

\* A report comes in time and is of one moment's registry (check.go:127-227).
ReportsTrue == ReportInTime /\ ReportMatchesSnapshot

\* Pages and files hold the rows that were asked for (gorm_scope.go:22-124,
\* excelize.go:73-233).
ListingsTrue == PageIsItsOwn /\ AllPagesOnce /\ WrittenWhole

\* What begins ends: starts, shutdowns and the goroutines of exports (gorm.go:80-93,
\* gin.go:183-190, check.go:201, excelize.go:91-104).
WorkEnds == StartEnds /\ ShutdownCompletes /\ WritersEnd
=============================================================================
