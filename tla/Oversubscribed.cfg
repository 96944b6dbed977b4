\* One machine with two slots, three calls of Dispatch and no failure; the
\* pool assumes from the start as many slots as there are.
SPECIFICATION Spec
CONSTANTS
    j1 = j1
    j2 = j2
    j3 = j3
    Jobs <- MCJobs3
    Machines = 1
    TotalCores = 4
    MinCores = 2
    DefaultMax = 2
    MaxFails = 0
INVARIANT SlotFreeOnArrival
