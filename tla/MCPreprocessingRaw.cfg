SPECIFICATION Spec
CONSTANTS
    Inputs <- MCInputs
    Day = 24
INVARIANTS
    CleanSupplyIsBuilt
CHECK_DEADLOCK FALSE
