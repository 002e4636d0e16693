SPECIFICATION FairSpec
CONSTANTS
    StreakLimit = 2
CHECK_DEADLOCK FALSE
INVARIANTS
    TypeOK
    OneDriver
PROPERTIES
    AutoConnectHonoured
    AuthStopsRetry
    LossIsRetried
