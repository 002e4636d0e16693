SPECIFICATION FairSpec
CONSTANTS
    Sessions = {s1, s2}
    MaxInbox = 2
INVARIANTS
    TypeOK
    ForegroundContract
    Covered
PROPERTIES
    ServiceEnds
