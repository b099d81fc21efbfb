CHECK_DEADLOCK FALSE
SPECIFICATION AppSpec
CONSTANTS
    TS_SIZE = 4
    N = 8
    Files <- MCFiles
    PacketSizes = {4, 6}
    MinReads = {8}
    Limits = {0, 1, 2}
INVARIANT NeverRejectsStream
