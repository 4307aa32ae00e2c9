SPECIFICATION Spec
CONSTANTS
    Registers = {0, 1}
    Instructions <- AllInstructions
    MaxLength = 3
    AsmLength = 7
    Growth = {6, 7}
    OverflowChecks = FALSE
    NoRegister = NoRegister
INVARIANTS
    JumpsArrive
CHECK_DEADLOCK FALSE
