SPECIFICATION FairSpec
CONSTANTS
  None = None
  NilErr = NilErr
  NoConn = NoConn
  Replicas = {r1, r2}
  Main = r1
  LastVersion = 2
  Seeds = 1
  RetryAttempts = 1
  MaxStarts <- Starts
  Names = {n1, n2}
  Conns = {c1, c2}
  Initial <- AllFirst
  Timeouts = {0, 1}
  DefaultPingTimeout = 2
  Sentinels = {"special", "generic", "generic2", "tooLarge", "other", NilErr}
  IsErr <- Matches
  Configs <- Engines
  BootBatch <- First
  Batches <- Later
  Fallbacks <- Others
  Errors = {"none", "tooLarge", "special"}
  MaxChanges = 1
  MaxInt = 7
  DefPerPage = 3
  MaxPerPage = 3
  RowNames <- Rows
  FirstRows = {1, 2, 3}
  Filters <- AllFilters
  NoExpr = NoExpr
  Queries <- Pages
  DefaultSheetName = "Sheet1"
  TrimSpace <- Trimmed
  SheetKey <- Folded
  Exports <- Files
INVARIANTS
  MigrationsSafe
  ErrorsAnswered
  ReportsTrue
  ListingsTrue
PROPERTIES
  WorkEnds
CHECK_DEADLOCK FALSE
