SPECIFICATION Spec
CONSTANTS
    Scenarios <- MCUPIScenarios
    UPIConfigs <- MCUPIConfigs
    Handles <- MCHandles
INVARIANT NamePreferred
CHECK_DEADLOCK FALSE
