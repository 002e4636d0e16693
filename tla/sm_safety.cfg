SPECIFICATION Spec
CONSTANTS
    NoInst = NoInst
    Addr = {a1, a2}
    MaxOps = 3
    MaxUp = 2
SYMMETRY AddrSymmetry
CHECK_DEADLOCK FALSE
INVARIANTS
    TypeOK
    NoFreeUnderThread
    OneOwner
    WatchdogIsCurrent
    ConnectedIsBacked
    NoStrandedInstance
    DisconnectedIsFree
    ReleasedIsQuiet
PROPERTIES
    NoStartAfterRelease
    KeepsContract
