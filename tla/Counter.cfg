\* Four calls of any kind, concurrent or one after the other, on Postgres and
\* on sqlite.
SPECIFICATION FairSpec
CONSTANTS
  Requests = {r1, r2, r3, r4}
  NoRequest = NoRequest
PROPERTY Linearizable
PROPERTY EveryCallEnds
CHECK_DEADLOCK FALSE
