SPECIFICATION Spec
CONSTANTS
    Modes = {"thumb"}
    Instructions <- ShortAdrs
    MaxLength = 3
    Pcs <- AllPcs
    AsmCode <- AllAsmCode
    MagicAlign <- AllMagicAlign
    Memory = {8000, 8001, 8006}
    Reach <- AllReach
    AdrCodes = 64
    PageSize = 256
INVARIANTS
    CopyRunsAlike
CHECK_DEADLOCK FALSE
