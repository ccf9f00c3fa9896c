SPECIFICATION Spec
CONSTANTS
    NKeys = 1
    Values = {"a"}
    HasOverride = TRUE
    HasBlankRow = TRUE
    keyPageLimit = 1
    Getters = {"get"}
    Faults <- Queries
    MaxWrites = 2
PROPERTIES
    AuditMonotone
    NeverUnresolved
CHECK_DEADLOCK FALSE
