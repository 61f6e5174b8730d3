\* Every operation, every combination of features, any end of the context.
SPECIFICATION Spec
INVARIANT ServiceOnlyIfAllowed
PROPERTY AnsweredOnce
INVARIANT DocumentedStatus
INVARIANT CookiesFollowOutcome
INVARIANT ObservedUnlessPanicked
CHECK_DEADLOCK FALSE
