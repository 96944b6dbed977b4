\* Two machines with room for one benchmark each (a core is left over), two
\* calls of Dispatch and one failure: a POST repeated after the instance
\* accepted it makes three benchmarks.
SPECIFICATION Spec
CONSTANTS
    j1 = j1
    j2 = j2
    j3 = j3
    Jobs <- MCJobs2
    Machines = 2
    TotalCores = 3
    MinCores = 2
    DefaultMax = 2
    MaxFails = 1
INVARIANTS TypeOK CoresExclusive
PROPERTIES DispatchReturns AcceptedRuns
