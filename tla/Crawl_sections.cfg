SPECIFICATION Spec
CONSTANTS
    Scenarios <- MCScenarios
    UPIConfigs <- MCUPIConfigs
    Handles <- MCHandles
INVARIANTS
    CrawlTypeOK
    OneResultEach
    NoVerdictFromRefusal
    TokenSpentWhereMinted
    ShownAsConfigured
    NoOnlyIfAllDeny
    SuffixByPriority
    PhonePeAgrees
PROPERTIES
    ImplementsCrawl
    RunReturns
CHECK_DEADLOCK FALSE
