SPECIFICATION Spec
CONSTANTS
  Procs = {p1, p2}
  Ids = {u1, u2}
  Emails = {e1}
  None = None
  MaxReqs = 4
  MaxAged = 1
  Isolation = "serial"
SYMMETRY Symmetry
CHECK_DEADLOCK FALSE
INVARIANT CallerStaysSignedIn
