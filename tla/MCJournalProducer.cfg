SPECIFICATION FairSpec
CONSTANTS
    owner = owner
    other = other
    NoOne = NoOne
    Callbacks = {owner, other}
    Owner = owner
    Capacity = 2
    Kinds = {"event", "pause", "resume", "malformed"}
    MaxSubmits = 3
    MaxFaults = 1
INVARIANTS
    WrittenInOrder
    JournalIsHonest
PROPERTIES
    EverythingEnds
CHECK_DEADLOCK FALSE
