SPECIFICATION Spec
CONSTANTS
    t1 = t1
    t2 = t2
    t3 = t3
    Threads = {t1, t2, t3}
    Top = 4
    Sizes = {1, 2}
    MaxCalls = 5
    NoExtent = NoExtent
INVARIANTS
    SlabInv
    RefusedMeansFull
PROPERTIES
    ImplementsJitAlloc
SYMMETRY Symmetry
CHECK_DEADLOCK FALSE
