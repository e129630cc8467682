SPECIFICATION Spec
CONSTANTS
    r1 = r1
    r2 = r2
    r3 = r3
    a = a
    b = b
    Requests <- ThreeRequests
    Instances <- TwoInstances
    On <- TwoOnOne
    States = {t1}
    Sessions = {s1, s2}
    StateTtl = 1
    SessionTtl = 4
    CacheTtl = 2
    Latency = 1
    MaxNow = 7
    None = None
INVARIANTS
    StateUsedOnce
    ExpiryRespected
    LogoutReaches
SYMMETRY Symmetry
