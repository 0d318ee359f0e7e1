CONSTANTS
  WINDOW = 1
  SECOND_WAIT_MAX = 60
  WINDOW_MARGIN = 1
  DEFAULT_RPS = 2
  MAX_LEARNED_RPS = 2
  FAIL_THRESHOLD = 3
  FAIL_BACKOFF_BASE = 1
  FAIL_BACKOFF_MAX = 3
  AUTH_BACKOFF_BASE = 1
  AUTH_BACKOFF_MAX = 4
  UNEXPLAINED_429_THRESHOLD = 2
  UNEXPLAINED_429_BACKOFF = 3
  EXHAUSTED_FALLBACK = 2
  OVERRIDE_CAP_FALLBACK = 5
  U64_MAX = 1000
  N = 1
  CLOCK_LAG = 0
  MaxTime = 6
  MaxInflight = 2
  Caps <- NoCaps
  Outcomes <- NoOutcomes
  Responses <- AuthErrors
SPECIFICATION HistorySpec
PROPERTY OneLiveProbe
