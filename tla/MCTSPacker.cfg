SPECIFICATION Spec
CONSTANTS
    Lengths <- MCLengths
    AccessUnits <- MCAccessUnits
INVARIANTS
    TypeOK
    RebuildsUnit
    AllOrNothing
    KeepsCounter
    StatesLength
    CarriesClock
PROPERTIES
    Returns
