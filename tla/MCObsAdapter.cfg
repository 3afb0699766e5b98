SPECIFICATION FairSpec
CONSTANTS
    ControlCapacity = 2
    SceneCapacity = 1
    Interval = 1
    MaxNow = 2
    MaxRecordings = 1
    MaxSignals = 2
    MaxFaults = 1
INVARIANTS
    RunsEndWhole
    PinnedWhileUsed
PROPERTIES
    StopSettles
CHECK_DEADLOCK FALSE
