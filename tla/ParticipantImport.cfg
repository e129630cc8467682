SPECIFICATION Spec
CONSTANTS
    u1 = u1
    u2 = u2
    u3 = u3
    c = c
    Users <- MCUsers
    Communities = {c}
    Posts <- MCPosts
    RuleSets <- MCRuleSets
    PageSize = 2
    MaxPages = 2
    ChunkSize = 2
    MaxRetries = 1
    MaxChanges = 3
    NoCount = NoCount
    NoName = NoName
CHECK_DEADLOCK FALSE
INVARIANT EligibleEarnedIt
INVARIANT NobodyMissed
INVARIANT OneChanceEach
PROPERTY ImportEnds
