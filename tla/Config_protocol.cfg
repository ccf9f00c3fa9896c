SPECIFICATION FairSpec
CONSTANTS
    NKeys = 2
    Values = {"a"}
    HasOverride = TRUE
    HasBlankRow = FALSE
    keyPageLimit = 1
    Getters = {}
    Faults = {}
    MaxWrites = 2
INVARIANTS
    TypeOK
    StaleIsPending
    WarmStart
PROPERTY
    Converges
CHECK_DEADLOCK FALSE
