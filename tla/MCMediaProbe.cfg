SPECIFICATION Spec
CONSTANTS
    Limit = 1
    MaxFaults = 2
    MaxChanges = 1
INVARIANTS
    ChildIsGone
    ProfileIsTrue
PROPERTY ProbeReturns
CHECK_DEADLOCK FALSE
