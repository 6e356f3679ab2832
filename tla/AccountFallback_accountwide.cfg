\* GitHub: an expired model lock beside an account-wide one.
SPECIFICATION Spec
CONSTANTS
  c1 = c1
  c2 = c2
  m1 = m1
  m2 = m2
  r1 = r1
  r2 = r2
  r3 = r3
  Models = {m1, m2}
  AllKey = AllKey
  Provider = "github"
  COOLDOWN_LONG = 3
  COOLDOWN_SHORT = 1
  TRANSIENT_COOLDOWN = 2
  BACKOFF_BASE = 1
  BACKOFF_MAX = 3
  BACKOFF_MAX_LEVEL = 2
  MAX_RATE_LIMIT_COOLDOWN = 2
  MonthLength = 5
  Requests = {r1, r2, r3}
  Connections = {c1, c2}
  Priority <- MCPriority
  Strategy = "fill-first"
  StickyLimit = 2
  UsedWindow = 2
  UpstreamErrors <- GitHubErrors
  InitialConns <- FreshOnly
  MaxTime = 2
  MaxAdmin = 0
PROPERTY AccountWideLockRespected
SYMMETRY Symmetry
CHECK_DEADLOCK FALSE
