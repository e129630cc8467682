SPECIFICATION Spec
CONSTANTS
    c1 = c1
    c2 = c2
    c3 = c3
    Callers = {c1, c2, c3}
    Abortable = {c3}
    Probe = c1
    MinInterval = 2
    Timeout = 2
    MaxRetries = 2
    InitialDelay = 3
    Factor = 2
    MaxDelay = 3
    ApiCodes = {5, 6}
    HttpStatuses = {404, 502}
    Late = 1
    None = None
INVARIANTS
    TypeOK
    CallsEndInTime
PROPERTIES
    RequestsSpaced
    EveryCallEnds
