SPECIFICATION Spec
CONSTANTS
    NKeys = 1
    Values = {"a", "b"}
    HasOverride = FALSE
    HasBlankRow = FALSE
    keyPageLimit = 1
    Getters = {"get"}
    Faults = {}
    MaxWrites = 3
INVARIANTS
    StaleIsPending
CHECK_DEADLOCK FALSE
