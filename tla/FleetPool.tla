------------------------------ MODULE FleetPool ------------------------------
(***************************************************************************)
(* The placement of benchmarks on bot-fleet machines: the sandbox          *)
(* manager's pool of instances (sandbox-manager fleet/pool.go), whose      *)
(* Dispatch calls run concurrently with one another and with the health    *)
(* poller, and the FleetCommander of each instance (bot-fleet              *)
(* fleet_commander.cpp), which accepts a POST, then gives the benchmark    *)
(* dedicated cores in a detached thread.                                   *)
(*                                                                         *)
(* A call of Dispatch is a job.  Attempt n of job j, if the instance reads *)
(* it, is the benchmark <<j, n>>.  The pool's mutex covers only the choice *)
(* of an instance: the counter is raised after it is unlocked.  Backoff,   *)
(* payloads and the bots of a benchmark are left out.                      *)
(***************************************************************************)
EXTENDS Integers, FiniteSets

CONSTANTS Jobs,        \* calls of Dispatch
          Machines,    \* number of instances
          TotalCores,  \* total_cores_ of each instance
          MinCores,    \* min_cores_per_benchmark_, 2 in the code
          DefaultMax,  \* slots assumed before the first health poll, 4 in the code
          MaxFails     \* bound on failed POSTs and health polls

(* A machine with fewer cores than a benchmark needs advertises one slot   *)
(* all the same and its benchmarks wait for ever.                          *)
ASSUME FleetBounds ==
    /\ IsFiniteSet(Jobs) /\ Machines \in Nat \ {0} /\ MaxFails \in Nat
    /\ MinCores \in Nat \ {0} /\ TotalCores \in Nat /\ MinCores <= TotalCores
    /\ DefaultMax \in Nat \ {0}

Instances == 1..Machines
Cores == 0..(TotalCores - 1)
Attempts == 1..(MaxFails + 1)
Benchmarks == Jobs \X Attempts

(* max_concurrent_                                                         *)
MaxConcurrent == IF TotalCores \div MinCores > 1 THEN TotalCores \div MinCores ELSE 1

VARIABLES active,   \* Instance.active: the pool's idea of the load
          max,      \* Instance.max
          disp,     \* of each job: where its Dispatch is, on which instance, which attempt
          polling,  \* the poller: its instance, and the active count read there (-1: none)
          fails,    \* failures so far
          bench,    \* of each benchmark: what has become of it, and where
          held,     \* cores each benchmark has claimed
          inUse,    \* core_in_use_ of each instance
          count     \* active_benchmarks_ of each instance

poolVars == <<active, max, disp, polling, fails>>
fleetVars == <<bench, held, inUse, count>>
vars == <<poolVars, fleetVars>>

Init ==
    /\ active = [i \in Instances |-> 0] /\ max = [i \in Instances |-> DefaultMax]
    /\ disp = [j \in Jobs |-> [pc |-> "choosing", inst |-> 0, attempt |-> 1]]
    /\ polling = [inst |-> 1, seen |-> -1] /\ fails = 0
    /\ bench = [b \in Benchmarks |-> [pc |-> "none", inst |-> 0]]
    /\ held = [b \in Benchmarks |-> {}]
    /\ inUse = [i \in Instances |-> {}] /\ count = [i \in Instances |-> 0]
-----------------------------------------------------------------------------
(* The instances that are not full, and the order of their loads           *)
(* active / max; the first of the least loaded is taken.                   *)
Candidates == {i \in Instances : active[i] < max[i]}
LoadBelow(i, k) ==
    \/ active[i] * max[k] < active[k] * max[i]
    \/ active[i] * max[k] = active[k] * max[i] /\ i < k
LeastLoaded == {i \in Candidates : \A k \in Candidates \ {i} : LoadBelow(i, k)}

(* pickLeastLoaded, under the mutex.                                       *)
Pick(j) ==
    /\ disp[j].pc = "choosing"
    /\ \E i \in LeastLoaded :
          disp' = [disp EXCEPT ![j] = [pc |-> "picked", inst |-> i, attempt |-> @.attempt]]
    /\ UNCHANGED <<active, max, polling, fails, fleetVars>>

(* The caller's context ends while Dispatch looks or waits for a slot.     *)
Abort(j) ==
    /\ disp[j].pc = "choosing"
    /\ disp' = [disp EXCEPT ![j].pc = "aborted"]
    /\ UNCHANGED <<active, max, polling, fails, fleetVars>>

(* post: the counter is raised and the request sent.                       *)
Post(j) ==
    LET d == disp[j]
    IN  /\ d.pc = "picked"
        /\ active' = [active EXCEPT ![d.inst] = @ + 1]
        /\ bench' = [bench EXCEPT ![<<j, d.attempt>>] = [pc |-> "sent", inst |-> d.inst]]
        /\ disp' = [disp EXCEPT ![j].pc = "posted"]
        /\ UNCHANGED <<max, polling, fails, held, inUse, count>>

(* The 202 arrives; the counter stays for the health poll to correct.      *)
PostAccepted(j) ==
    /\ disp[j].pc = "posted" /\ bench[<<j, disp[j].attempt>>].pc # "sent"
    /\ disp' = [disp EXCEPT ![j].pc = "done"]
    /\ UNCHANGED <<active, max, polling, fails, fleetVars>>

(* Mutant of Lowered: Dispatch lowers the counter again.                   *)
LoweredTwice(n) == n - 2

(* What a failed POST leaves in the counter.                               *)
Lowered(n) == n - 1

(* The POST fails or times out, whether or not the instance has accepted   *)
(* it or still will: the counter is lowered and the loop tries again.      *)
PostFailed(j) ==
    LET d == disp[j]
    IN  /\ d.pc = "posted" /\ fails < MaxFails
        /\ fails' = fails + 1
        /\ active' = [active EXCEPT ![d.inst] = Lowered(@)]
        /\ disp' = [disp EXCEPT ![j] = [pc |-> "choosing", inst |-> 0, attempt |-> d.attempt + 1]]
        /\ UNCHANGED <<max, polling, fleetVars>>

(* pollAll goes from instance to instance, for ever.                       *)
NextPoll == [inst |-> (polling.inst % Machines) + 1, seen |-> -1]

(* GET /health: the instance reads its count ...                           *)
PollRead ==
    /\ polling.seen = -1
    /\ polling' = [polling EXCEPT !.seen = count[polling.inst]]
    /\ UNCHANGED <<active, max, disp, fails, fleetVars>>

(* Mutant of Refreshed: a poll never lowers the counter.                   *)
RefreshedUpwards(old, seen) == IF seen > old THEN seen ELSE old

(* The value a poll leaves in the counter.                                 *)
Refreshed(old, seen) == seen

(* ... and the pool stores what it read, however old that is by now.       *)
PollStore ==
    /\ polling.seen # -1
    /\ active' = [active EXCEPT ![polling.inst] = Refreshed(@, polling.seen)]
    /\ max' = [max EXCEPT ![polling.inst] = MaxConcurrent]
    /\ polling' = NextPoll
    /\ UNCHANGED <<disp, fails, fleetVars>>

(* The instance is unreachable or its answer is bad.                       *)
PollFailed ==
    /\ fails < MaxFails /\ fails' = fails + 1
    /\ polling' = NextPoll
    /\ UNCHANGED <<active, max, disp, fleetVars>>
-----------------------------------------------------------------------------
(* handle_connection: the instance reads the POST, answers 202 and starts  *)
(* a detached thread.  A request whose client gave up may still be read.   *)
Accept(b) ==
    /\ bench[b].pc = "sent"
    /\ bench' = [bench EXCEPT ![b].pc = "waiting"]
    /\ UNCHANGED <<poolVars, held, inUse, count>>

AcceptInTime(b) == disp[b[1]].pc = "posted" /\ Accept(b)

(* Mutant of FreeCores: core_in_use_ is not looked at.                     *)
AllCores(i) == Cores

(* core_in_use_ is false                                                   *)
FreeCores(i) == Cores \ inUse[i]

(* claim_cores: the first free cores, as many as are needed; none if there *)
(* are not enough.                                                         *)
LowestCores(n, S) ==
    {T \in SUBSET S : Cardinality(T) = n /\ \A c \in T, d \in S \ T : c < d}

(* The thread gets its cores, all or nothing, under the mutex; until then  *)
(* it tries again every second.                                            *)
Claim(b) ==
    LET i == bench[b].inst
    IN  /\ bench[b].pc = "waiting"
        /\ \E T \in LowestCores(MinCores, FreeCores(i)) :
              /\ held' = [held EXCEPT ![b] = T]
              /\ inUse' = [inUse EXCEPT ![i] = @ \cup T]
        /\ bench' = [bench EXCEPT ![b].pc = "claimed"]
        /\ UNCHANGED <<poolVars, count>>

(* The benchmark is counted, and its workers start.                        *)
Start(b) ==
    /\ bench[b].pc = "claimed"
    /\ count' = [count EXCEPT ![bench[b].inst] = @ + 1]
    /\ bench' = [bench EXCEPT ![b].pc = "running"]
    /\ UNCHANGED <<poolVars, held, inUse>>

(* Mutant of Released: the cores stay in use.                              *)
ReleasedNone(i, cores) == inUse[i]

(* release_cores                                                           *)
Released(i, cores) == inUse[i] \ cores

(* The duration is over and the workers are joined: the cores go first ... *)
Release(b) ==
    LET i == bench[b].inst
    IN  /\ bench[b].pc = "running"
        /\ inUse' = [inUse EXCEPT ![i] = Released(i, held[b])]
        /\ held' = [held EXCEPT ![b] = {}]
        /\ bench' = [bench EXCEPT ![b].pc = "released"]
        /\ UNCHANGED <<poolVars, count>>

(* ... then the count.                                                     *)
Uncount(b) ==
    /\ bench[b].pc = "released"
    /\ count' = [count EXCEPT ![bench[b].inst] = @ - 1]
    /\ bench' = [bench EXCEPT ![b].pc = "finished"]
    /\ UNCHANGED <<poolVars, held, inUse>>
-----------------------------------------------------------------------------
Dispatch(j) == Pick(j) \/ Post(j) \/ PostAccepted(j)
Poll == PollRead \/ PollStore
Run(b) == Claim(b) \/ Start(b) \/ Release(b) \/ Uncount(b)

Next ==
    \/ \E j \in Jobs : Dispatch(j) \/ Abort(j) \/ PostFailed(j)
    \/ Poll \/ PollFailed
    \/ \E b \in Benchmarks : Accept(b) \/ Run(b)

(* Goroutines and threads that can go on do; the ticker of the poller and  *)
(* the one-second retry of a waiting thread keep firing; an instance       *)
(* accepts a request whose client still waits.  Nothing makes a context    *)
(* end or a failure happen.                                                *)
Fairness ==
    /\ \A j \in Jobs : WF_vars(Dispatch(j))
    /\ WF_vars(Poll)
    /\ \A b \in Benchmarks : WF_vars(Run(b)) /\ WF_vars(AcceptInTime(b))

Spec == Init /\ [][Next]_vars /\ Fairness
-----------------------------------------------------------------------------
(* Every variable has its type; the pool's counters may drift below zero   *)
(* and above max, by no more than one per call and failure.                *)
TypeOK ==
    /\ active \in [Instances -> (-MaxFails)..(Cardinality(Benchmarks))]
    /\ max \in [Instances -> {DefaultMax, MaxConcurrent}]
    /\ \A j \in Jobs :
         /\ disp[j].pc \in {"choosing", "picked", "posted", "done", "aborted"}
         /\ disp[j].inst \in 0..Machines /\ disp[j].attempt \in Attempts
    /\ polling.inst \in Instances /\ polling.seen \in -1..Cardinality(Benchmarks)
    /\ fails \in 0..MaxFails
    /\ \A b \in Benchmarks :
         bench[b].pc \in {"none", "sent", "waiting", "claimed", "running", "released", "finished"}
    /\ inUse \in [Instances -> SUBSET Cores]
    /\ count \in [Instances -> Nat]

(* No two benchmarks of a machine ever share a core, and a core is marked  *)
(* in use exactly while some benchmark holds it, whatever the pool sends:  *)
(* "this machine never oversubscribes" (launch_benchmark).                 *)
CoresExclusive ==
    /\ \A b, c \in Benchmarks :
         (b # c /\ bench[b].inst = bench[c].inst) => held[b] \cap held[c] = {}
    /\ \A i \in Instances :
         inUse[i] = UNION {held[b] : b \in {c \in Benchmarks : bench[c].inst = i}}

(* A call of Dispatch returns in the end: counters gone wrong through      *)
(* races, failures and finished benchmarks never leave it waiting for a    *)
(* slot for ever, for the health polls put them right.                     *)
DispatchReturns == <>(\A j \in Jobs : disp[j].pc \in {"done", "aborted"})

(* Every benchmark an instance has accepted gets its cores and runs to its *)
(* end, even when the pool has sent more than the machine can run.         *)
AcceptedRuns ==
    []<>(\A b \in Benchmarks : bench[b].pc \in {"none", "sent", "finished"})

(* A benchmark is sent only to an instance "that has capacity"; Dispatch   *)
(* "blocks until a slot is free" (pool.go, Dispatch): no instance has      *)
(* accepted more benchmarks than it has slots.                             *)
SlotFreeOnArrival ==
    \A i \in Instances :
        Cardinality({b \in Benchmarks :
            bench[b].inst = i /\ bench[b].pc \in {"waiting", "claimed", "running"}})
        <= MaxConcurrent
=============================================================================
