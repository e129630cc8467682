SPECIFICATION PreAuthSpec
CONSTANTS
    WindowMs = 2
    MaxRequests = 2
    Keys = {k1, k2, k3}
    MaxBuckets = 2
    CleanupEvery = 2
    MaxNow = 3
    Lookups = {l1, l2}
    None = None
INVARIANTS
    TypeOK
    WindowRespected
    LookupsAreCounted
PROPERTIES
    PromiseExact
SYMMETRY Symmetry
