SPECIFICATION Spec
CONSTANTS
    p1 = p1
    p2 = p2
    u1 = u1
    u2 = u2
    Posts = {p1, p2}
    People = {u1, u2}
    Did <- MCDid
    Reactions = {"like"}
    Conditions = {"like", "subscription"}
    Forms <- MCForms
    Preset <- MCPreset
    Tabs = {"eligible", "excluded", "all"}
    TabLoads = {"tab"}
    MaxHasty = 1
    MaxLocks = 2
    None = None
INVARIANTS
    TypeOK
    CreatedIsOfPostShown
    LockHoldsWhoWasShown
    ResultIsOfLockShown
CHECK_DEADLOCK FALSE
