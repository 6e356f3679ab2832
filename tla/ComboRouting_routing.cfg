\* Round-robin requests, two at a time: with two requests a turn and three models the
\* seventh is the first model's again.  Or fallback requests, or a fusion.
SPECIFICATION Spec

CONSTANTS
  r1 = r1
  r2 = r2
  Requests = {r1, r2}
  Models <- Three
  StickyLimit = 2
  MinPanel = 2
  Grace = 1
  HardTimeout = 3
  Tiers <- MediaRanks
  Workloads <- RotatingOrFusing
  MaxLed = 7
  MaxResets = 1

INVARIANTS TypeOK LeadsInTurn FailsOnlyWhenExhausted StragglersGetGrace JudgeGetsEveryAnswer
PROPERTIES RequestsEnd
CHECK_DEADLOCK FALSE
