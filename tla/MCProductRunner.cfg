SPECIFICATION FairSpec
CONSTANTS
    Recordings = {r1, r2}
    NoRecording = NoRecording
    Outside = {r2}
    MaxStarts = 2
    MaxFaults = 1
    MaxDecisions = 1
    MaxRequests = 2
    MaxTimeouts = 1
INVARIANTS NothingTwice SessionFollowsDisk
CHECK_DEADLOCK FALSE
PROPERTIES NothingStaysOpen 
