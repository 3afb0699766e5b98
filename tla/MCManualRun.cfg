CONSTANTS
    Procs = {p1, p2}
    Projects = {q1, q2}
    Paths = {a1, a2}
    Files = {f1}
    Nobody = Nobody
    Missing = Missing
    MaxFaults = 1
    MaxChanges = 1
    MaxRuns = 2
    MaxAttempts = 2
SYMMETRY Alike
SPECIFICATION Spec
INVARIANTS
    LeasesAreOwned
    EvidenceIsOfOneRecording
PROPERTIES
    NoUnseenOverwrite
CHECK_DEADLOCK FALSE
