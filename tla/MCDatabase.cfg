CONSTANTS
  Parts = {"builder", "records", "scope", "migrations", "models"}
  Callers = {r1, r2}
  Programs <- MCPrograms
  Final <- MCFinal
  Halfway <- MCHalfway
  Piecemeal <- MCPiecemeal
  MaxSaves = 2
  c1 = c1
  c2 = c2
  r1 = r1
  r2 = r2
  i1 = i1
  i2 = i2
  None = None
  Units = {"a", "b", "d"}
  Kinds <- Separate
  Clients = {c1, c2}
  MaxWrites = 2
  Runners = {1, 2, 3}
  Processes = {"p", "q"}
  ProcessOf <- MCProcessOf
  Sessions = {c1, c2}
  Home = c1
  NoLock = NoLock
  Migrations = 2
  Reversible = {1}
  Modes = {TRUE, FALSE}
  MaxRuns = 2
  Requests = {r1, r2}
  Ids = {i1, i2}
  SoftIds = {i1}
  Fields = {"status", "counter"}
  Values = {1}
  NoValue = 0
  RawFields = {"counter"}
  MaxVersion = 2
  Builds = {"select", "count", "delete", "insert", "bulk", "update"}
  MaxValues = 6
  MaxClauses = 4
  WhereUpdates = FALSE
  Unset = Unset
SPECIFICATION MCSpec
INVARIANTS PlaceholdersBound VersionIdentifiesContents Atomic Isolated MigrationsSound FailuresChangeNothing
PROPERTIES ImplementsStore EndedStays
SYMMETRY RequestSymmetry
CHECK_DEADLOCK FALSE
