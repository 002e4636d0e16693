SPECIFICATION FairSpec
CONSTANTS
    Addr = {a1, a2}
    Regions = {r1}
    Sizes = {w1, w2}
    None = None
    MaxConnects = 2
    MaxEvents = 3
CHECK_DEADLOCK FALSE
INVARIANTS
    TypeOK
    DirtyHasFlush
    OneSurface
PROPERTIES
    ScreenCatchesUp
