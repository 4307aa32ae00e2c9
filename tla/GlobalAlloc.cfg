SPECIFICATION FairSpec
CONSTANTS
    t1 = t1
    t2 = t2
    Threads = {t1, t2}
    Top = 3
    Sizes = {1, 2}
    Std = TRUE
    MayPanic = TRUE
    MaxCalls = 4
    NoExtent = NoExtent
    NoThread = NoThread
INVARIANTS
    HeldApart
    AllocInv
PROPERTIES
    PoisonStops
    ImplementsJitAlloc
    GuardDropped
    SomeCallEnds
CHECK_DEADLOCK FALSE
