SPECIFICATION Spec
CONSTANTS
    PayloadSize = 24
    MaxElements = 3
    Sizes <- MCSizes
    Junk = {0, 255}
    Seeds <- MCSeeds
    Elements <- MCElements
    Extra <- MCExtra
    Programs <- MCPrograms
INVARIANTS
    TypeOK
    Coherent
    TableArrives
    ProgramsArrive
CHECK_DEADLOCK FALSE
