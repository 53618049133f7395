SPECIFICATION MountSpec
CONSTANTS
    Node <- Nodes
    Refs <- Blocks
    Garbage <- Bytes
    Dirs <- AllDirs
    FirstCap = 2
    MaxTable = 16
    MaxFaults = 2
    InodeId <- Places
    Inode <- Inodes
    Volumes <- AllVolumes
    Nothing = Nothing
    Names = {"ROOT", "DATA", "OTHER", "DEEP", "HOME"}
INVARIANTS
    MountsAsked
    FoundIfReadable
    RootServed
    NothingInvented
    WithinMemory
PROPERTY
    Settles
CHECK_DEADLOCK FALSE
