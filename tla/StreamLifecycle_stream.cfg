\* Two requests for one model and account; the watchdog outlasts the pending
\* and the connect timeout, which outlast the delayed abort and the delay of a retry.
SPECIFICATION Spec

CONSTANTS
  Requests = {r1, r2}
  MaxChunks = 2
  Buffered = 1
  STREAM_STALL_TIMEOUT = 3
  ABORT_DELAY = 1
  PENDING_TIMEOUT = 2
  FETCH_CONNECT_TIMEOUT = 2
  RetryDelay = 1
  ServerRetries = 1
  GatewayRetries = 2

INVARIANTS TypeOK NoPhantomPending NeverSilentlyTruncated UsageLoggedOnce NoStaleWatchdog
PROPERTIES NoRequestHangs
CHECK_DEADLOCK FALSE
