\* Requests for one phone, with and without intelligence: every static and
\* ml_service outcome, every moment of marshalling, across the lifetime of
\* what was written.
SPECIFICATION Spec
CONSTANTS
    r1 = r1
    r2 = r2
    t1 = t1
    t2 = t2
    Requests = {r1, r2}
    Tenants = {t1}
    RawPhones <- MCRawPhones
    ParsePhone <- MCParsePhone
    Emails <- MCEmails
    Inputs <- MCCaching
    Fields = {"age", "linked"}
    HasCommon = FALSE
    TTLSeconds = 1
    MaxTime = 1
    MaxCrashes = 0
INVARIANTS
    FreshEnough
    StaticWins
SYMMETRY MCSymmetry
CHECK_DEADLOCK FALSE
