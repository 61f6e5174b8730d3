\* Every pair of changes to four environments.
SPECIFICATION Spec
CONSTANT MaxEdits = 2
INVARIANT OnePassButCoupled
INVARIANT RunsAsWritten
CHECK_DEADLOCK FALSE
