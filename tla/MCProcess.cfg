CONSTANTS
  WINDOW = 1
  SECOND_WAIT_MAX = 60
  WINDOW_MARGIN = 1
  DEFAULT_RPS = 1
  MAX_LEARNED_RPS = 2
  FAIL_THRESHOLD = 2
  FAIL_BACKOFF_BASE = 1
  FAIL_BACKOFF_MAX = 2
  AUTH_BACKOFF_BASE = 2
  AUTH_BACKOFF_MAX = 4
  UNEXPLAINED_429_THRESHOLD = 2
  UNEXPLAINED_429_BACKOFF = 2
  EXHAUSTED_FALLBACK = 2
  OVERRIDE_CAP_FALLBACK = 5
  U64_MAX = 1000
  N = 2
  CLOCK_LAG = 0
  MaxTime = 9
  MaxInflight = 3
  Requests = {r1, r2}
  MAX_QUEUE_WAIT = 2
  UPSTREAM_TIMEOUT = 1
  ArriveBy = 1
  Caps <- NoCaps
  Outcomes <- ProcessOutcomes
SPECIFICATION ProcessSpec
INVARIANTS QueueWaitIsBounded 
PROPERTIES EveryRequestEnds 
CHECK_DEADLOCK FALSE
