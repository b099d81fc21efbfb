SPECIFICATION Spec
CONSTANTS
    PayloadSize = 24
    Junk = {255}
    Feeds <- MCFeeds
INVARIANTS
    TypeOK
    ReportsTables
    ReportsWhole
    LearnsTypes
    KeepsOrder
    UnwrapsCells
PROPERTIES
    WritesUnits
CHECK_DEADLOCK FALSE
