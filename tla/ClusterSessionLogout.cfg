SPECIFICATION Spec
CONSTANTS
  Clusters = {a, b}
  Standalone = standalone
  Default = a
  Requests = {r1, r2}
  Routes = {a, b}
  None = None
  MaxVersion = 2
  MaxFailures = 0
  MaxCrashes = 0
INVARIANT
  LogoutIsFinal
CHECK_DEADLOCK FALSE
