SPECIFICATION FairSpec
CONSTANTS
    Modes = {"x86", "a64", "arm", "thumb"}
    Instructions <- AllInstructions
    MaxLength = 3
    Pcs <- AllPcs
    AsmCode <- AllAsmCode
    MagicAlign <- AllMagicAlign
    Memory = {8000, 8001, 8006}
    Reach <- AllReach
    AdrCodes = 64
    PageSize = 256
INVARIANTS
    SearchInside
    BlockFollows
    CopyFits
    BlockFindsPointers
    PlausibleRunsAlike
    LiteralsAligned
    SupportedRelocated
    JitInv
PROPERTIES
    RelocationEnds
CHECK_DEADLOCK FALSE
