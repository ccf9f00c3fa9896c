SPECIFICATION Spec
CONSTANTS
    r1 = r1
    r2 = r2
    r3 = r3
    Requests = {r1, r2, r3}
    None = None
    Err = Err
    EnrichTTL = 2
    MetaTTL = 1
    MaxTime = 2
    Pieces <- MCPieces
    LookupCases <- MCLookupCases
    Operators <- MCOperators
    Disconnections <- MCDisconnections
    Domains <- MCDomains
INVARIANTS
    LookupTypeOK
    AgeBounded
PROPERTIES
    NoCheckLost
    EnrichPromise
    
    LookupsEnd
CHECK_DEADLOCK FALSE
