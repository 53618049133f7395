SPECIFICATION FairSpec
CONSTANTS
    Node <- Nodes
    Refs <- Tree
    Garbage <- Bytes
    Files <- AllFiles
    MaxFaults = 2
INVARIANTS
    AllBlocksOrNone
    RestListed
PROPERTY
    Ends
CHECK_DEADLOCK FALSE
