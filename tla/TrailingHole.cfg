SPECIFICATION Spec
CONSTANTS
    BufCap = 3
    EmbedMax = 4
    IntRange = 16
    MaxFaults = 1
    Files <- TrailingHole
    Offsets <- WideOffsets
    Counts = {1, 2, 5}
INVARIANTS
    HoleAhead
CHECK_DEADLOCK FALSE
