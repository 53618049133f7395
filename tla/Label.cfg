SPECIFICATION Spec
CONSTANTS
    Words <- SmallWords
    Labels <- SmallLabels
    Tables <- SmallTables
    Self <- Bsd
    DiskEnd = 16
    MaxPart = 4
    IntHalf = 64
    MaxTrouble = 1
INVARIANTS
    TypeOK
    ListGood
    TableIsLabels
PROPERTIES
    DeletesOnlyChanged
CHECK_DEADLOCK FALSE
