SPECIFICATION Spec
CONSTANTS
    Fid = {f1, f2}
    Name = {"d", "f"}
    Inum <- Inums
    Trees <- AllTrees
    RootInum = 1
    FirstMax = 2
    MaxFaults = 0
    Unused = Unused
INVARIANTS
    WalksAreAnswered
CHECK_DEADLOCK FALSE
