CONSTANTS
    PayloadSize = 24
    MaxCells = 4
    Inputs <- MCInputs
SPECIFICATION Spec
INVARIANTS
    PrintsFields
    FindsCells
    NetworkArrives
PROPERTIES
    Ends
CHECK_DEADLOCK FALSE
