CHECK_DEADLOCK FALSE
SPECIFICATION Spec
CONSTANTS
    TS_SIZE = 3
    N = 8
    Files <- MCFiles
    PacketSizes = {3, 4}
    MinReads = {3, 5, 8}
INVARIANT StrictRejectsMisplaced
