SPECIFICATION FairSpec
CONSTANTS
    Null = Null
    Pos = {p1, p2}
    Keys = {k1, k2}
    Lo <- SmallMin
    Hi = 1
    InitialSize = 2
    Growth = 1
    MaxSize = 3
    MaxPush = 4
CHECK_DEADLOCK FALSE
INVARIANTS
    TypeOK
    SlotsExact
    NoLostWakeup
    InputPreserved
PROPERTIES
    RefinesFifo
    AllSent
