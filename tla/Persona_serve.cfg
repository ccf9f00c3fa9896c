\* Two requests of two tenants, with both, one, an invalid or no identifier;
\* the process may die once.
SPECIFICATION FairSpec
CONSTANTS
    r1 = r1
    r2 = r2
    t1 = t1
    t2 = t2
    Requests = {r1, r2}
    Tenants = {t1, t2}
    RawPhones <- MCRawPhones
    ParsePhone <- MCParsePhone
    Emails <- MCEmails
    Inputs <- MCServe
    Fields = {}
    HasCommon = TRUE
    TTLSeconds = 1
    MaxTime = 0
    MaxCrashes = 1
INVARIANTS
    TypeOK
    ServedToOwner
PROPERTY
    EveryRequestAnswered
CHECK_DEADLOCK FALSE
