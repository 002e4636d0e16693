SPECIFICATION FairSpec
CONSTANTS
    StreakLimit = 2
CHECK_DEADLOCK FALSE
PROPERTIES
    RetriesGoOn
