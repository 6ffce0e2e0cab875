SPECIFICATION Spec
CONSTANTS
  None = None
  Processes = {q1, q2}
  NumNodes = 3
  MaxEvents = 3
  MaxCommands = 2
  Tabs = {t1, t2}
  NoTab = NoTab
  Timeout = 2
  MaxSessions = 3
  MaxVisits = 4
  MaxTicks = 2
  MaxUserChanges = 1
INVARIANTS
  FailoverSound
  SleptSessionAsksPassword
PROPERTY
  ComesToRest
CHECK_DEADLOCK FALSE
