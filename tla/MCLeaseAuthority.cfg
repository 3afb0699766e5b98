SPECIFICATION FairSpec
CONSTANTS
    t1 = t1
    t2 = t2
    Threads = {t1, t2}
    MaxOps = 3
INVARIANTS
    LeaseTypeOK
    HeldWhileUsed
    IoIsExclusive
    ClosersAgree
PROPERTIES
    CloseReturns
    ImplementsLifetime
