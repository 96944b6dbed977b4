SPECIFICATION Spec
CONSTANTS
    s1 = s1
    s2 = s2
    Subs = {s1, s2}
    Batches <- MCBatches
    Decisions <- MCDecisions
    ScoreCap = 1
    MaxBatches = 2
    MaxFaults = 1
INVARIANTS
    TypeOK
    NeverFailsOpen
    WindowExact
PROPERTY RowNeverGoesBack
PROPERTY VerdictPublished
CHECK_DEADLOCK FALSE
