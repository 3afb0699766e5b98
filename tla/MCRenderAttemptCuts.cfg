SPECIFICATION Spec
CONSTANTS
    c1 = c1
    c2 = c2
    NoGate = NoGate
    Threads = {"t1"}
    Cuts = {c1, c2}
    MaxEdits = 2
    MaxDecisions = 2
    MaxRequests = 2
    MaxCrashes = 0
    MaxFaults = 0
    MaxForeign = 0
PROPERTY PublishedIsApproved
CHECK_DEADLOCK FALSE
