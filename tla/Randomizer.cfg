SPECIFICATION Spec
CONSTANTS
    Ids = {1, 2, 3}
    Sort <- MCSort
    Rules = {u1, u2}
    Seeds = {s1, s2}
    Events = {e1, e2}
    Counts <- MCCounts
    Word = 5
    MaxRejects = 1
    None = None
INVARIANTS
    NeverUnderDelivers
    SamplingUnbiased
    OffsetsDetermined
    ReplayReproduces
    ChangesAreNoticed
SYMMETRY Symmetry
CHECK_DEADLOCK FALSE
