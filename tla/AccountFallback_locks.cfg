\* Fill-first, two accounts, two models, two requests: cooldowns set, expiring and cleared.
SPECIFICATION Spec
CONSTANTS
  c1 = c1
  c2 = c2
  m1 = m1
  m2 = m2
  r1 = r1
  r2 = r2
  r3 = r3
  Models = {m1, m2}
  AllKey = AllKey
  Provider = "github"
  COOLDOWN_LONG = 3
  COOLDOWN_SHORT = 1
  TRANSIENT_COOLDOWN = 2
  BACKOFF_BASE = 1
  BACKOFF_MAX = 3
  BACKOFF_MAX_LEVEL = 2
  MAX_RATE_LIMIT_COOLDOWN = 2
  MonthLength = 2
  Requests = {r1, r2}
  Connections = {c1, c2}
  Priority <- MCPriority
  Strategy = "fill-first"
  StickyLimit = 2
  UsedWindow = 2
  UpstreamErrors <- MixedErrors
  InitialConns <- AnyTable
  MaxTime = 3
  MaxAdmin = 0
INVARIANT TypeOK
PROPERTIES LocksGoByTheError ModelLockRespected AnswerMatchesPool RetryAfterNotLate
SYMMETRY Symmetry
CHECK_DEADLOCK FALSE
