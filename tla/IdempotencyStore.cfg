SPECIFICATION IdemSpec
CONSTANTS
    Keys = {k1, k2, k3}
    Payloads = {p1, p2}
    Requests = {r1, r2, r3}
    Ttl = 2
    MaxEntries = 2
    CleanupEvery = 2
    MaxNow = 5
    None = None
INVARIANTS
    IdemTypeOK
    AnswersAreTrue
PROPERTIES
    RetryIsReplayed
SYMMETRY Symmetry
