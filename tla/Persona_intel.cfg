\* A request hits a section that was marshalled after an earlier request had
\* merged its ml_service answer.
SPECIFICATION Spec
CONSTANTS
    r1 = r1
    r2 = r2
    t1 = t1
    t2 = t2
    Requests = {r1, r2}
    Tenants = {t1}
    RawPhones <- MCRawPhones
    ParsePhone <- MCParsePhone
    Emails <- MCEmails
    Inputs <- MCCaching
    Fields = {"linked"}
    HasCommon = FALSE
    TTLSeconds = 1
    MaxTime = 0
    MaxCrashes = 0
INVARIANTS
    OwnIntelligence
SYMMETRY MCSymmetry
CHECK_DEADLOCK FALSE
