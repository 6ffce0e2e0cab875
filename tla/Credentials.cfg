SPECIFICATION UnionSpec
CONSTANTS
  Emails = {e1}
  Requests = {p, q}
  None = None
  TryTimes = 2
  DailyLimit = 2
  MaxCodes = 3
  MaxKeys = 4
  MaxRequests = 6
  Visitors = {p, q}
  Allowed = {2}
  MaxCaptchas = 2
  MaxHours = 3
  MaxVisits = 6
  Callers = {p, q}
  ValidWindow = 1
  MaxSecrets = 2
  MaxStep = 1
  MaxCalls = 5
  TokenClusters = {c1, c2}
  TokenReached = {c1}
  TokenServers = {p, q}
  MaxTokens = 2
  MaxBegun = 3
  MaxFaults = 1
  Workers = {p, q}
  MaxMade = 4
  MaxUsers = 3
  MaxEvents = 3
  MaxRemoteCalls = 2
  Clusters = {a, b}
  Standalone = standalone
  Default = a
  Routes = {b}
  MaxVersion = 2
  MaxFailures = 0
  MaxCrashes = 1
INVARIANTS
  TypeOK
  TriesLimited
  DailyLimited
  CodeSignsInOnce
  SignedInIsVerified
  CaptchaSound
  TotpSound
  TokensSound
  InterconnectSound
  CookieLeadsToSession
SYMMETRY PairSymmetry
CHECK_DEADLOCK FALSE
