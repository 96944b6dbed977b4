SPECIFICATION CheckerSpec
CONSTANTS
    s1 = s1
    s2 = s2
    Subs = {s1, s2}
    Feed <- MCFeed
    Lateness = 2
    WorkerBuffer = 1
    OutCap = 1
    MaxEvents = 2
    Workers = 1
    UpdCap = 1
INVARIANT VerdictCoversArrivals
PROPERTY RunsJudged
CHECK_DEADLOCK FALSE
