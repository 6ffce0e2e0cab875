SPECIFICATION FairSpec
CONSTANTS
  c1 = c1
  c2 = c2
  w1 = w1
  w2 = w2
  Clusters = {c1, c2}
  Workers = {w1, w2}
  Home <- MCHome
  None = None
  MaxSaves = 1
  MaxFailures = 1
INVARIANTS
  TypeOK
  CachedUserCurrent
  OutdatedOnlyIfLate
PROPERTY
  EventuallyCurrent
