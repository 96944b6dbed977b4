----------------------------- MODULE MCFleetPool -----------------------------
(* Model values for the benchmarks to be dispatched.                       *)
EXTENDS FleetPool
CONSTANTS j1, j2, j3
MCJobs2 == {j1, j2}
MCJobs3 == {j1, j2, j3}
=============================================================================
