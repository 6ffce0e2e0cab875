SPECIFICATION Spec
CONSTANTS
  Clusters = {a, b}
  Standalone = standalone
  Default = a
  Requests = {r1, r2}
  Routes = {b}
  None = None
  MaxVersion = 2
  MaxFailures = 0
  MaxCrashes = 0
INVARIANT
  MigrationKeepsData
CHECK_DEADLOCK FALSE
