\* A dashboard call or a resumed tunnel, its restart, a disable; two crashes, failed or
\* stalled downloads or failed starts; the process and PID file of an earlier run.
SPECIFICATION Spec

CONSTANTS
  MaxCalls = 2
  MaxDisables = 1
  MaxUrlChanges = 1
  MaxTroubles = 2

INVARIANTS TypeOK SpawnFlagNotStuck
PROPERTIES PidFileTruthful WatchdogRecovers
CHECK_DEADLOCK FALSE
