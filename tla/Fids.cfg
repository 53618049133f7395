SPECIFICATION Spec
CONSTANTS
    Fid = {f1, f2}
    Name = {"d", "f", "x", "/", "..", "."}
    Inum <- Inums
    Trees <- AllTrees
    RootInum = 1
    FirstMax = 2
    MaxFaults = 1
    Unused = Unused
SYMMETRY AnyFid
INVARIANTS
    TypeOK
    DirListsItsInode
    KeepsServing
PROPERTY
    AbsSpec
CHECK_DEADLOCK FALSE
