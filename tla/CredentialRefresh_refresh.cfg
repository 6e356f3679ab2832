\* Two requests and two firings of the interval on one account; a tick of the
\* clock is 10 s, so the retries after 1 s and 2 s fall within one tick.
SPECIFICATION Spec

CONSTANTS
  r1 = r1
  r2 = r2
  r3 = r3
  Connections = {c1}
  Requests = {r1, r2}
  Ticks = {t1, t2}
  REFRESH_RESULT_TTL = 1
  RetryDelay = 0
  TickDelay = 0
  Lead = 2
  BackgroundLead = 3
  InitialExpiries = {1}
  MaxTime = 1
  MaxGen = 2
  MaxFaults = 1

INVARIANTS TypeOK SingleFlight OneTick LostOnlyByFailedWrite
PROPERTIES SentOncePerWindow KeepsExchangeContract CallersFinish
CHECK_DEADLOCK FALSE
