SPECIFICATION Spec
CONSTANTS
    Registers = {0, 1}
    Instructions <- AllInstructions
    MaxLength = 3
    AsmLength = 2
    Growth = {6, 7}
    OverflowChecks = TRUE
    NoRegister = NoRegister
INVARIANTS
    TypeOK
    SafeJumpsSameValues
    SparedJumpsArrive
    ShortRelocated
CHECK_DEADLOCK FALSE
