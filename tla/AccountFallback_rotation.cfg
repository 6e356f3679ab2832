\* Round-robin with sticky limit two: three requests queue on the selection mutex.
SPECIFICATION Spec
CONSTANTS
  c1 = c1
  c2 = c2
  m1 = m1
  m2 = m2
  r1 = r1
  r2 = r2
  r3 = r3
  Models = {m1}
  AllKey = AllKey
  Provider = "codex"
  COOLDOWN_LONG = 3
  COOLDOWN_SHORT = 1
  TRANSIENT_COOLDOWN = 2
  BACKOFF_BASE = 1
  BACKOFF_MAX = 3
  BACKOFF_MAX_LEVEL = 2
  MAX_RATE_LIMIT_COOLDOWN = 2
  MonthLength = 5
  Requests = {r1, r2, r3}
  Connections = {c1, c2}
  Priority <- MCPriority
  Strategy = "round-robin"
  StickyLimit = 2
  UsedWindow = 0
  UpstreamErrors <- RateErrors
  InitialConns <- FreshOnly
  MaxTime = 2
  MaxAdmin = 0
INVARIANTS SelectionExclusive NoAbandonedTicket RotationStateFresh StickyWithinLimit
PROPERTY NoOvertaking
SYMMETRY Symmetry
CHECK_DEADLOCK FALSE
