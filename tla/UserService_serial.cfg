\* sqlite, with the scheduling the service gets.
SPECIFICATION FairSpec
CONSTANTS
  Procs = {p1, p2}
  Ids = {u1, u2}
  Emails = {e1}
  None = None
  MaxReqs = 3
  MaxAged = 1
  Isolation = "serial"
PROPERTY RevocationIsComplete
PROPERTY EveryRequestAnswered
PROPERTY ExpiredSwept
CHECK_DEADLOCK FALSE
