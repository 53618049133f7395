SPECIFICATION CopySpec
CONSTANTS
    BufCap = 3
    EmbedMax = 4
    IntRange = 16
    MaxFaults = 2
    CopyCount = 5
    Files <- HardFiles
    Offsets <- AllOffsets
    Counts = {1, 2, 5}
INVARIANTS
    TypeOK
    CacheCoherent
    SortedRepliesTrue
    RepliesAdvance
    AssertsHold
PROPERTIES
    CopyCompletes
    AbsSpec
CHECK_DEADLOCK FALSE
