\* A bucket of two requests that refills in four ticks and is kept for five.
SPECIFICATION Spec
CONSTANTS
  Keys = {c1, c2}
  NoKey = NoKey
  Cost = 2
  Burst = 2
  TTL = 5
  MaxStall = 1
  MaxTime = 15
SYMMETRY Symmetry
INVARIANT TypeOK
INVARIANT Budget
INVARIANT OnlyRecentBuckets
PROPERTY ForgetsNothing
CHECK_DEADLOCK FALSE
