CONSTANTS
  WINDOW = 2
  SECOND_WAIT_MAX = 60
  WINDOW_MARGIN = 1
  DEFAULT_RPS = 1
  MAX_LEARNED_RPS = 3
  FAIL_THRESHOLD = 2
  FAIL_BACKOFF_BASE = 1
  FAIL_BACKOFF_MAX = 3
  AUTH_BACKOFF_BASE = 1
  AUTH_BACKOFF_MAX = 4
  UNEXPLAINED_429_THRESHOLD = 2
  UNEXPLAINED_429_BACKOFF = 3
  EXHAUSTED_FALLBACK = 1
  OVERRIDE_CAP_FALLBACK = 5
  U64_MAX = 1000
  N = 1
  CLOCK_LAG = 0
  MaxTime = 9
  MaxInflight = 3
  RPS = 2
  MONTH = 3
  MONTH_LENGTH = 6
  JITTER = 1
  MaxCalls = 3
  MaxLost = 1
  MaxRestarts = 1
  DOWN = 3
  Caps <- NoCaps
  Outcomes <- NoOutcomes
SPECIFICATION BraveSpec
INVARIANT NoBurstRefused
PROPERTY UsedUpIsLeftAlone
