SPECIFICATION Spec
CONSTANTS
  g0 = g0
  g1 = g1
  g2 = g2
  a = a
  b = b
  Groups = {g0, g1, g2}
  All = All
  Patterns = {All, a, b}
  Contain <- Answers
  Configs <- GroupConfigs
  FirstTables <- GroupTables
  Editors = {e1, e2}
  None = None
  MaxEdits = 2
  MaxDeletes = 1
  MaxRefreshes = 1
  Clusters = {c1, c2}
  Rows = {1}
  InitialRows = {{1}}
  MaxRequests = 2
  MaxFaults = 1
  t1 = t1
  t2 = t2
  Total = Total
  PerDay = 2
  MaxRuns = 2
  MaxTrafficFaults = 1
  HealthClusters = {h1, h2}
  BeatsOnPing = TRUE
  MaxOutages = 2
  MaxChecks = 1
  Admins = {a1, a2}
  RowIds = {1, 2}
  MaxChanges = 3
  MaxLoads = 3
INVARIANTS
  TreeSound
  StaleOnlyIfExcused
  CountedOnce
  ReportsAddUp
  ReportsWorked
PROPERTY
  LoneStaysInService
SYMMETRY ClusterSymmetry
CHECK_DEADLOCK FALSE
