CONSTANTS
  Names = {k1, k2}
  Blank = Blank
  Detect = Detect
  Numbers = {0, 7}
  MaxEntries = 3
SPECIFICATION ConfigSpec
INVARIANTS KeysAreDistinctInOrder LimitsReachTheirKeys
CHECK_DEADLOCK FALSE
