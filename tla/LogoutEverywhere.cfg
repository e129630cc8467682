SPECIFICATION Spec
CONSTANTS
    r1 = r1
    r2 = r2
    r3 = r3
    a = a
    b = b
    Requests <- TwoRequests
    Instances <- TwoInstances
    On <- OnBoth
    States = {t1}
    Sessions = {s1}
    StateTtl = 1
    SessionTtl = 4
    CacheTtl = 1
    Latency = 1
    MaxNow = 5
    None = None
INVARIANTS
    LogoutEndsSession
