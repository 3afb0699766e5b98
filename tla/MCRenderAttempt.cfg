SPECIFICATION Spec
CONSTANTS
    c1 = c1
    c2 = c2
    NoGate = NoGate
    Threads = {"t1"}
    Cuts = {c1, c2}
    MaxEdits = 2
    MaxDecisions = 2
    MaxRequests = 2
    MaxCrashes = 1
    MaxFaults = 2
    MaxForeign = 1
SYMMETRY CutSymmetry
INVARIANTS
    ApprovalBinds
    SuccessIsThere
PROPERTIES
    ReuseIsHonest
CHECK_DEADLOCK FALSE
