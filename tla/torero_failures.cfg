\* Three connections on three descriptors, so that a number closed twice goes to
\* a third one while others still use it; clients that leave.
CONSTANTS
  w1 = w1
  w2 = w2
  Workers <- TwoWorkers
  Depth = 1
  MaxConns = 3
  MaxFds = 3
  Kinds <- PageAndDir
  Arrivals <- Whole
  Sites <- FailingSites
  Changes <- Unlocks
SPECIFICATION Spec
SYMMETRY Symmetry
INVARIANTS NothingLeaks EndsForCause
CHECK_DEADLOCK FALSE
