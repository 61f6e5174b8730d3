\* Postgres: row locks, statement snapshots; up to three requests at a time.
SPECIFICATION Spec
CONSTANTS
  Procs = {p1, p2, p3}
  Ids = {u1, u2}
  Emails = {e1}
  None = None
  MaxReqs = 3
  MaxAged = 1
  Isolation = "readcommitted"
SYMMETRY Symmetry
INVARIANT TypeOK
INVARIANT EmailUnique
INVARIANT OrphanOnlyIfRaced
INVARIANT OldSessionOnlyIfRaced
INVARIANT RotatedAway
INVARIANT SiblingsOnlyIfForked
INVARIANT DeadlockOnlyAmongRevokers
PROPERTY NoResurrection
PROPERTY AccountBornWithSession
CHECK_DEADLOCK FALSE
