SPECIFICATION Spec
CONSTANTS
    t1 = t1
    t2 = t2
    t3 = t3
    r1 = r1
    r2 = r2
    Config <- PoolConfig
    maxBackoff = 3
    CycleCap = 2
    TokenIds = {t1, t2, t3}
    Requests = {r1, r2}
    MaxStarts = 2
    MaxLag = 1
INVARIANT
    NeverOverused
