SPECIFICATION Spec
CONSTANTS
  g0 = g0
  g1 = g1
  g2 = g2
  e1 = e1
  e2 = e2
  d1 = d1
  p1 = p1
  Groups = {g0, g1, g2}
  Emails = {e1}
  Domains = {d1}
  Paths = {p1}
  All = All
  None = None
  Requests = {r1, r2}
  Cooperative = TRUE
  PublicGroup = g0
  Trees <- LeaveTrees
  AuthTables <- OneAuthTable
  EmailGroupsSize = 2
  AuthMapSize = 2
  MaxChanges = 1
  MaxFailures = 0
INVARIANT
  StaleOnlyThroughWindow
SYMMETRY RequestSymmetry
