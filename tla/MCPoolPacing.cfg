CONSTANTS
  WINDOW = 1
  SECOND_WAIT_MAX = 60
  WINDOW_MARGIN = 1
  DEFAULT_RPS = 1
  MAX_LEARNED_RPS = 3
  FAIL_THRESHOLD = 2
  FAIL_BACKOFF_BASE = 1
  FAIL_BACKOFF_MAX = 3
  AUTH_BACKOFF_BASE = 2
  AUTH_BACKOFF_MAX = 4
  UNEXPLAINED_429_THRESHOLD = 2
  UNEXPLAINED_429_BACKOFF = 1
  EXHAUSTED_FALLBACK = 2
  OVERRIDE_CAP_FALLBACK = 5
  U64_MAX = 1000
  N = 1
  CLOCK_LAG = 1
  MaxTime = 5
  MaxInflight = 2
  Caps <- NoCaps
  Outcomes <- PacingOutcomes
SPECIFICATION PacingSpec
INVARIANTS LogTypeOK  SendsAreLatest
 
