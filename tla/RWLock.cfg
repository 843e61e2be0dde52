SPECIFICATION LockSpec
CONSTANTS
  Reader = {r1, r2, r3}
  Writer = {w1, w2}
  Loops = 2
INVARIANTS Exclusion Stable NothingLost
PROPERTIES Ends
CHECK_DEADLOCK FALSE
