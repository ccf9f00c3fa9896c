SPECIFICATION FairSpec
CONSTANTS
    NKeys = 1
    Values = {"a"}
    HasOverride = TRUE
    HasBlankRow = FALSE
    keyPageLimit = 1
    Getters = {}
    Faults <- Queries
    MaxWrites = 2
PROPERTIES
    AdvanceAfterRefresh
CHECK_DEADLOCK FALSE
