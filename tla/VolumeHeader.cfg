SPECIFICATION Spec
CONSTANTS
    Zones = 4
    MaxGen = 3
    MaxRot = 1
    Console = TRUE
INVARIANTS
    TypeOK
    ChosenNewest
    SyncedNotLost
    DfAnswers
    DfFigures
