SPECIFICATION FairSpec
CONSTANTS
    r1 = r1
    r2 = r2
    r3 = r3
    a = a
    b = b
    Requests <- ThreeRequests
    Instances <- TwoInstances
    On <- TwoOnOne
    LoginRefresh = {TRUE, FALSE}
    Outages = TRUE
    MaxGrants = 3
    MaxLogins = 1
    None = None
INVARIANTS
    TypeOK
    SingleFlight
    StoredRefreshTokenWorks
    NoExpiredToken
PROPERTIES
    RefreshContinuesStored
    EveryCallEnds
CHECK_DEADLOCK FALSE
