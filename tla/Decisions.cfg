SPECIFICATION Spec
CONSTANTS
  Groups = {g1, g2, g3, g4}
  Emails = {e1}
  Domains = {d1, d2}
  Paths = {p1, p2}
  Hierarchies <- Forests
  AccessTrees <- Trees
  AuthTables <- MCAuthTables
  FlowDomains = {d1}
  FlowRows = 2
  FlowRequests = 3
  SharedDomains = {d1, d2}
  SharedRows = 1
  SharedRequests = 2
  g1 = g1
  g2 = g2
  g3 = g3
  g4 = g4
  e1 = e1
  d1 = d1
  d2 = d2
  p1 = p1
  p2 = p2
  All = All
  None = None
  Letters = {"a", "b"}
  Others = {"'"}
  MaxLocal = 3
  MaxEmail = 4
  Clusters = {c1, c2}
  Now = 4
  Earliest = 1
  Alive = 1
  Replaced = 2
  MaxServers = 2
  Classes = {k1, k2}
  MaxChanges = 1
  Day = 6
  MaxTime = 18
  Intervals = {1, 2, 3, 4, 6, 8}
  NotChecked = NotChecked
INVARIANTS
  ReturnsDeepestMatches
  FailsOnlyWithTwoRoots
  AgreesWithCheckAuthorization
  ReturnsFindAuthorizations
  ContainsIsSound
  ShowsWhoWasOnline
  AnswersAsConfigured
  RunsInEverySlot
PROPERTY
  Terminates
CHECK_DEADLOCK FALSE
