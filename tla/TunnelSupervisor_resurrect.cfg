\* One dashboard call and a disable.
SPECIFICATION Spec

CONSTANTS
  MaxCalls = 2
  MaxDisables = 1
  MaxUrlChanges = 0
  MaxTroubles = 0

INVARIANTS DisabledStaysDisabled
CHECK_DEADLOCK FALSE
