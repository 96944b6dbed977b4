SPECIFICATION Spec
CONSTANTS
    s1 = s1
    s2 = s2
    w1 = w1
    Subs <- MCSubs
    Workers <- MCWorkers
    Errors <- MCErrors
    Correctness = 1
    Gap = 1
    Performance = 1
    Window = 1
    Grace = 2
    Buffer = 1
    MaxDelay = 1
    MaxRestarts = 1
    MaxFaulted = 1
INVARIANTS
    TypeOK
    HeldOnce
    ContainerOwned
    ContainerOutlivesBenchmark
PROPERTY EveryJobFinishes
CHECK_DEADLOCK FALSE
