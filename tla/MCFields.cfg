SPECIFICATION Spec
CONSTANTS
    PayloadSize = 24
    Packets <- MCPackets
    Stamps <- MCStamps
    PIDs = {4660}
    MaxCalls = 5
    None = None
INVARIANTS
    HeaderHolds
    PayloadStays
    KeepsUnit
    StampsArrive
    StampsValue
    ClockArrives
PROPERTIES
    ReadsLikeNew
CHECK_DEADLOCK FALSE
