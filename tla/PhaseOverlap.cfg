SPECIFICATION Spec
CONSTANTS
    s1 = s1
    s2 = s2
    w1 = w1
    Subs <- MCSubs
    Workers <- MCWorkers
    Errors <- MCErrors
    Correctness = 1
    Gap = 1
    Performance = 1
    Window = 1
    Grace = 2
    Buffer = 1
    MaxDelay = 2
    MaxRestarts = 0
    MaxFaulted = 0
INVARIANT PhasesSequential
CHECK_DEADLOCK FALSE
