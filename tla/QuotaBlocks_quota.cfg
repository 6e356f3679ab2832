\* Strikes, blocks and refreshes of an Antigravity account, or of a Zed account.
SPECIFICATION Spec

CONSTANTS
  r1 = r1
  r2 = r2
  r3 = r3
  r4 = r4
  g = g
  z = z
  m1 = m1
  m2 = m2
  Requests = {r1, r2, r3, r4}
  Accounts = {g, z}
  Antigravity = {g}
  Models = {m1, m2}
  RefreshInterval = 2
  StrikeWindow = 2
  StrikeThreshold = 3
  StrikeBlock = 2
  Targets <- OneAccount
  MaxTime = 4

SYMMETRY Alike
INVARIANTS TypeOK BlockStands
PROPERTIES StrikesEarned ThrottledQuotaCalls FallbackIsRecorded
CHECK_DEADLOCK FALSE
