\* Two replicas, a TTL that is not a whole number of seconds.
SPECIFICATION Spec
CONSTANTS
  Replicas = {r1, r2}
  Secrets = {s1, s2}
  TTL = 5
  clockSkew = 2
  Second = 2
  Spread = 2
  Base = 3
  MaxTokens = 2
  MaxTime = 8
INVARIANT AcceptedWasIssued
INVARIANT FreshIsAccepted
CHECK_DEADLOCK FALSE
