SPECIFICATION Spec
CONSTANTS
    Lengths <- MCLengths
    AccessUnits <- MCAccessUnits
INVARIANTS
    CountsPackets
