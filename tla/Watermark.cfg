SPECIFICATION Spec
CONSTANTS
    s1 = s1
    s2 = s2
    Subs <- MCSubs
    Feed <- MCFeed
    Lateness = 2
    WorkerBuffer = 1
    OutCap = 1
    MaxEvents = 3
INVARIANTS
    TypeOK
    InOrderUnlessLate
    EndFlushesBacklog
    NothingLostOrRepeated
PROPERTY EventuallyEmitted
CHECK_DEADLOCK FALSE
