\* Two requests, two signals, any combination of features.
SPECIFICATION FairSpec
CONSTANTS
  Requests = {r1, r2}
  PingAttempts = 5
  MaxSignals = 2
INVARIANT JanitorToldBeforeClose
INVARIANT HandlersOutliveContainerOnlyIfCut
INVARIANT ExitIsClean
PROPERTY SignalEndsProcess
CHECK_DEADLOCK FALSE
