\* The stored refresh token goes back to a consumed one.
SPECIFICATION Spec

CONSTANTS
  r1 = r1
  r2 = r2
  r3 = r3
  Connections = {c1}
  Requests = {r1, r2, r3}
  Ticks = {}
  REFRESH_RESULT_TTL = 1
  RetryDelay = 0
  TickDelay = 0
  Lead = 2
  BackgroundLead = 3
  InitialExpiries = {20}
  MaxTime = 0
  MaxGen = 3
  MaxFaults = 0

SYMMETRY Symmetry
INVARIANT NewestTokenStored
CHECK_DEADLOCK FALSE
