SPECIFICATION FairSpec
CONSTANTS
    p1 = p1
    p2 = p2
    r1 = r1
    r2 = r2
    NoRun = NoRun
    Missing = Missing
    Foreign = Foreign
    Procs = {p1, p2}
    Runs = {r1, r2}
    JournalInputs = {TRUE, FALSE}
    MaxAttempts = 2
    MaxCrashes = 1
    MaxCancels = 1
    MaxFaults = 1
    MaxLost = 1
    MaxForeign = 1
INVARIANTS
    EvidenceFollowsCommit
    CommitIsNotCancelled
PROPERTIES
    RetryIsIdempotent
    ImplementsPromise
    TargetLockIsFreed
