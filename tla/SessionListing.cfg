\* Pages of two, up to four sessions in the course of a walk, and single pages
\* up to the last whose offset fits an int and beyond.
SPECIFICATION Spec
CONSTANTS
  Ids = {1, 2, 3, 4}
  TTL = 1
  Lag = 1
  MaxTime = 2
  FirstPages = {0, 1, 2, 8, 9}
  Limits = {0}
  DefaultLimit = 2
  MaxLimit = 3
  MaxInt = 15
INVARIANT MissedOnlyIfRemoved
INVARIANT RepeatedOnlyIfAdded
INVARIANT TotalFitsPage
CHECK_DEADLOCK FALSE
