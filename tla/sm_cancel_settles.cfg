SPECIFICATION FairSpec
CONSTANTS
    NoInst = NoInst
    Addr = {a1, a2}
    MaxOps = 2
    MaxUp = 1
CHECK_DEADLOCK FALSE
PROPERTIES
    CancelSettles
