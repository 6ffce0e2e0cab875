SPECIFICATION Spec
CONSTANTS
  Clusters = {a, b, c}
  Standalone = standalone
  Default = a
  Requests = {r1}
  Routes = {a, b, c}
  None = None
  MaxVersion = 3
  MaxFailures = 3
  MaxCrashes = 1
INVARIANTS
  TypeOK
  SessionKept
PROPERTY
  ActsAsOneSession
CHECK_DEADLOCK FALSE
