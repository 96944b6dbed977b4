-------------------------- MODULE FleetPool_proofs --------------------------
(***************************************************************************)
(* The core partition of a bot-fleet machine is exclusive for any number   *)
(* of benchmarks, machines, cores and failures, whatever the pool's        *)
(* counters say.                                                           *)
(*                                                                         *)
(* CoresExclusive alone is not inductive.  A benchmark holds cores only    *)
(* between Claim and Release (HoldersRun), so that Post, which gives a     *)
(* benchmark its machine, never moves one that holds cores; that needs the *)
(* attempts a Dispatch has yet to make to be untouched (FreshAttempts),    *)
(* and their number to stay within the bound on failures (AttemptsPaid).   *)
(*                                                                         *)
(* LoadInv does the same for the counters that the choice of a machine     *)
(* relies on: a machine counts exactly what it runs, and the pool's view   *)
(* of it drifts only as far as failed and pending POSTs explain.           *)
(***************************************************************************)
EXTENDS FleetPool, FiniteSetTheorems, TLAPS

DispatchStates ==
    [pc : {"choosing", "picked", "posted", "done", "aborted"}, inst : Nat, attempt : Nat \ {0}]

(* The types the argument needs.                                           *)
FleetTypes ==
    /\ fails \in 0..MaxFails
    /\ disp \in [Jobs -> DispatchStates]
    /\ bench \in [Benchmarks ->
                    [pc : {"none", "sent", "waiting", "claimed", "running", "released", "finished"},
                     inst : Nat]]
    /\ held \in [Benchmarks -> SUBSET Cores]
    /\ inUse \in [Instances -> SUBSET Cores]
    /\ DOMAIN active = Instances /\ DOMAIN count = Instances

(* A benchmark holds cores only from Claim to Release, on a machine.       *)
HoldersRun ==
    \A b \in Benchmarks :
        /\ held[b] # {} => bench[b].pc \in {"claimed", "running"}
        /\ bench[b].pc # "none" => bench[b].inst \in Instances

(* Each attempt but the first was paid for by a failure, and is made on a  *)
(* machine of the pool.                                                    *)
AttemptsPaid ==
    \A j \in Jobs :
        /\ disp[j].attempt <= fails + 1
        /\ disp[j].pc = "picked" => disp[j].inst \in Instances

(* The attempts a Dispatch has still to make have not been made.           *)
FreshAttempts ==
    \A j \in Jobs, n \in Attempts :
        (n > disp[j].attempt \/ (n = disp[j].attempt /\ disp[j].pc \in {"choosing", "picked"}))
            => bench[<<j, n>>].pc = "none"

(* CoresExclusive, core by core.                                           *)
CorePartition ==
    /\ \A b, c \in Benchmarks : \A x \in Cores :
         (bench[b].inst = bench[c].inst /\ x \in held[b] /\ x \in held[c]) => b = c
    /\ \A i \in Instances, x \in Cores :
         x \in inUse[i] <=> \E b \in Benchmarks : bench[b].inst = i /\ x \in held[b]

CoreInv == FleetTypes /\ HoldersRun /\ AttemptsPaid /\ FreshAttempts /\ CorePartition

(* An attempt of a job is a benchmark.                                     *)
LEMMA Pairs ==
    ASSUME NEW j \in Jobs, NEW n \in Attempts
    PROVE  <<j, n>> \in Benchmarks
  BY DEF Benchmarks

(* NewPool and the constructor of a machine establish the invariant.       *)
LEMMA CoreInit == Init => CoreInv
<1> SUFFICES ASSUME Init PROVE CoreInv
  OBVIOUS
<1>1. FleetTypes
  BY FleetBounds DEF Init, FleetTypes, DispatchStates
<1>2. HoldersRun /\ CorePartition
  BY DEF Init, HoldersRun, CorePartition
<1>3. AttemptsPaid
  BY DEF Init, AttemptsPaid
<1>4. ASSUME NEW j \in Jobs, NEW n \in Attempts PROVE bench[<<j, n>>].pc = "none"
  BY Pairs DEF Init
<1> QED
  BY <1>1, <1>2, <1>3, <1>4 DEF CoreInv, FreshAttempts

(* What a Dispatch does before and after an attempt, and the health polls, *)
(* do not touch the machines.                                              *)
LEMMA PoolStep ==
    ASSUME CoreInv,
           \/ \E j \in Jobs : Pick(j) \/ Abort(j) \/ PostAccepted(j) \/ PostFailed(j)
           \/ PollRead \/ PollStore \/ PollFailed
    PROVE  CoreInv'
<1>0. UNCHANGED fleetVars
  BY DEF Pick, Abort, PostAccepted, PostFailed, PollRead, PollStore, PollFailed
<1>1. HoldersRun' /\ CorePartition'
  BY <1>0 DEF CoreInv, HoldersRun, CorePartition, fleetVars
<1>2. CASE PollRead \/ PollStore \/ PollFailed
  <2>1. disp' = disp /\ fails' \in 0..MaxFails /\ fails' >= fails /\ DOMAIN active' = Instances
    BY <1>2, FleetBounds DEF CoreInv, PollRead, PollStore, PollFailed, FleetTypes
  <2>2. FleetTypes'
    BY <1>0, <2>1 DEF CoreInv, FleetTypes, fleetVars
  <2>3. AttemptsPaid' /\ FreshAttempts'
    BY <1>0, <2>1, FleetBounds
       DEF CoreInv, AttemptsPaid, FreshAttempts, fleetVars, FleetTypes, DispatchStates
  <2> QED
    BY <1>1, <2>2, <2>3 DEF CoreInv
<1>3. ASSUME NEW j \in Jobs, Pick(j) \/ Abort(j) \/ PostAccepted(j) \/ PostFailed(j)
      PROVE  CoreInv'
  <2>1. /\ disp \in [Jobs -> DispatchStates] /\ fails \in 0..MaxFails
        /\ \A k \in Jobs : disp[k].attempt <= fails + 1
    BY DEF CoreInv, FleetTypes, AttemptsPaid
  <2>2. /\ disp' \in [Jobs -> DispatchStates]
        /\ fails' \in 0..MaxFails /\ fails' >= fails
        /\ disp'[j].attempt <= fails' + 1
        /\ disp'[j].pc = "picked" => disp'[j].inst \in Instances
        /\ \/ disp'[j].attempt = disp[j].attempt
              /\ (disp'[j].pc = "picked" => disp[j].pc = "choosing")
              /\ disp'[j].pc # "choosing"
           \/ disp'[j].attempt = disp[j].attempt + 1
        /\ \A k \in Jobs : k # j => disp'[k] = disp[k]
        /\ DOMAIN active' = Instances
    <3>1. CASE Pick(j)
      <4>1. PICK i \in LeastLoaded :
                disp' = [disp EXCEPT ![j] = [pc |-> "picked", inst |-> i, attempt |-> @.attempt]]
        BY <3>1 DEF Pick
      <4>2. i \in Instances /\ i \in Nat
        BY FleetBounds DEF LeastLoaded, Candidates, Instances
      <4>3. fails' = fails /\ active' = active /\ disp[j].pc = "choosing"
        BY <3>1 DEF Pick
      <4> QED
        BY <2>1, <4>1, <4>2, <4>3 DEF DispatchStates, CoreInv, FleetTypes
    <3>2. CASE Abort(j) \/ PostAccepted(j)
      <4>1. PICK q \in {"aborted", "done"} : disp' = [disp EXCEPT ![j].pc = q]
        BY <3>2 DEF Abort, PostAccepted
      <4>2. fails' = fails /\ active' = active
        BY <3>2 DEF Abort, PostAccepted
      <4> QED
        BY <2>1, <4>1, <4>2 DEF DispatchStates, CoreInv, FleetTypes
    <3>3. CASE PostFailed(j)
      BY <2>1, <3>3, FleetBounds DEF DispatchStates, CoreInv, FleetTypes, PostFailed
    <3> QED
      BY <1>3, <3>1, <3>2, <3>3
  <2>3. FleetTypes'
    BY <1>0, <2>2 DEF CoreInv, FleetTypes, fleetVars
  <2>4. AttemptsPaid'
    BY <2>1, <2>2, FleetBounds DEF CoreInv, AttemptsPaid, DispatchStates
  <2>5. FreshAttempts'
    BY <1>0, <2>1, <2>2 DEF CoreInv, FreshAttempts, fleetVars, DispatchStates, Attempts
  <2> QED
    BY <1>1, <2>3, <2>4, <2>5 DEF CoreInv
<1> QED
  BY <1>2, <1>3

(* A POST gives a machine to a benchmark that holds no core yet.           *)
LEMMA PostStep ==
    ASSUME CoreInv, NEW j \in Jobs, Post(j)
    PROVE  CoreInv'
<1> DEFINE b == <<j, disp[j].attempt>>
<1>1. b \in Benchmarks /\ bench[b].pc = "none" /\ held[b] = {}
  <2>1. disp[j].attempt \in Attempts
    BY FleetBounds DEF CoreInv, FleetTypes, DispatchStates, AttemptsPaid, Attempts
  <2>2. b \in Benchmarks
    BY <2>1, Pairs
  <2>3. bench[b].pc = "none"
    BY <2>1 DEF CoreInv, FreshAttempts, Post
  <2> QED
    BY <2>2, <2>3 DEF CoreInv, HoldersRun
<1>2. /\ bench' = [bench EXCEPT ![b] = [pc |-> "sent", inst |-> disp[j].inst]]
      /\ disp' = [disp EXCEPT ![j].pc = "posted"]
      /\ disp[j].inst \in Instances /\ disp[j].inst \in Nat
      /\ UNCHANGED <<fails, held, inUse, count>>
  BY FleetBounds DEF Post, CoreInv, AttemptsPaid, Instances
<1> HIDE DEF b
<1>3. FleetTypes'
  <2>1. DOMAIN active' = Instances
    BY DEF CoreInv, FleetTypes, Post
  <2>2. disp' \in [Jobs -> DispatchStates]
    BY <1>2 DEF CoreInv, FleetTypes, DispatchStates
  <2> QED
    BY <1>1, <1>2, <2>1, <2>2 DEF CoreInv, FleetTypes
<1>4. HoldersRun'
  BY <1>1, <1>2 DEF CoreInv, FleetTypes, HoldersRun
<1>5. AttemptsPaid'
  BY <1>2 DEF CoreInv, FleetTypes, AttemptsPaid
<1>6. FreshAttempts'
  <2> SUFFICES ASSUME NEW k \in Jobs, NEW n \in Attempts,
                      n > disp'[k].attempt
                        \/ (n = disp'[k].attempt /\ disp'[k].pc \in {"choosing", "picked"})
               PROVE  bench'[<<k, n>>].pc = "none"
    BY DEF FreshAttempts
  <2>1. <<k, n>> # b /\ <<k, n>> \in Benchmarks
    BY <1>2, Pairs DEF b, CoreInv, FleetTypes, Attempts
  <2>2. bench[<<k, n>>].pc = "none"
    BY <1>2 DEF CoreInv, FleetTypes, FreshAttempts
  <2> QED
    BY <1>2, <2>1, <2>2 DEF CoreInv, FleetTypes
<1>7. CorePartition'
  BY <1>1, <1>2 DEF CoreInv, FleetTypes, CorePartition
<1> QED
  BY <1>3, <1>4, <1>5, <1>6, <1>7 DEF CoreInv

(* A machine's step changes the state of one benchmark it has been sent.   *)
LEMMA MachineStep ==
    ASSUME CoreInv, NEW b \in Benchmarks, Accept(b) \/ Run(b)
    PROVE  CoreInv'
<1> DEFINE Pcs == {"waiting", "claimed", "running", "released", "finished"}
<1>1. PICK q \in Pcs : bench' = [bench EXCEPT ![b].pc = q]
  BY DEF Accept, Run, Claim, Start, Release, Uncount
<1>2. /\ UNCHANGED poolVars /\ bench[b].pc # "none" /\ bench[b].inst \in Instances
      /\ DOMAIN count' = Instances
  <2>1. UNCHANGED poolVars /\ bench[b].pc # "none"
    BY DEF Accept, Run, Claim, Start, Release, Uncount
  <2>2. DOMAIN count' = Instances
    BY DEF CoreInv, FleetTypes, Accept, Run, Claim, Start, Release, Uncount
  <2> QED
    BY <2>1, <2>2 DEF CoreInv, HoldersRun
<1>3. bench' \in [Benchmarks -> [pc : {"none", "sent"} \cup Pcs, inst : Nat]]
  BY <1>1 DEF CoreInv, FleetTypes
<1>4. \A c \in Benchmarks : bench'[c].inst = bench[c].inst /\ (c # b => bench'[c] = bench[c])
  BY <1>1 DEF CoreInv, FleetTypes
<1>5. AttemptsPaid'
  BY <1>2 DEF CoreInv, AttemptsPaid, poolVars
<1>6. FreshAttempts'
  <2> SUFFICES ASSUME NEW k \in Jobs, NEW n \in Attempts, bench[<<k, n>>].pc = "none"
               PROVE  bench'[<<k, n>>].pc = "none"
    BY <1>2 DEF CoreInv, FreshAttempts, poolVars
  <2> QED
    BY <1>2, <1>4, Pairs
<1>7. CASE Accept(b) \/ Start(b) \/ Uncount(b)
  <2>1. UNCHANGED <<held, inUse>>
    BY <1>7 DEF Accept, Start, Uncount
  <2>2. FleetTypes'
    BY <1>2, <1>3, <2>1 DEF CoreInv, FleetTypes, poolVars
  <2>3. held[b] # {} => bench'[b].pc = "running"
    BY <1>7 DEF CoreInv, FleetTypes, HoldersRun, Accept, Start, Uncount
  <2>4. HoldersRun'
    BY <1>2, <1>4, <2>1, <2>3 DEF CoreInv, HoldersRun
  <2>5. CorePartition'
    BY <1>4, <2>1 DEF CoreInv, CorePartition
  <2> QED
    BY <1>5, <1>6, <2>2, <2>4, <2>5 DEF CoreInv
<1>8. CASE Claim(b)
  <2> DEFINE i == bench[b].inst
  <2>1. PICK T \in LowestCores(MinCores, FreeCores(i)) :
            held' = [held EXCEPT ![b] = T] /\ inUse' = [inUse EXCEPT ![i] = @ \cup T]
    BY <1>8 DEF Claim
  <2>2. T \subseteq Cores /\ T \cap inUse[i] = {}
    BY DEF LowestCores, FreeCores
  <2>3. held[b] = {} /\ bench'[b].pc = "claimed"
    BY <1>8 DEF CoreInv, FleetTypes, HoldersRun, Claim
  <2>4. FleetTypes'
    BY <1>2, <1>3, <2>1, <2>2 DEF CoreInv, FleetTypes, poolVars
  <2>5. HoldersRun'
    BY <1>2, <1>4, <2>1, <2>3 DEF CoreInv, FleetTypes, HoldersRun
  <2>6. CorePartition'
    BY <1>2, <1>4, <2>1, <2>2, <2>3 DEF CoreInv, FleetTypes, CorePartition
  <2> QED
    BY <1>5, <1>6, <2>4, <2>5, <2>6 DEF CoreInv
<1>9. CASE Release(b)
  <2> DEFINE i == bench[b].inst
  <2>1. /\ inUse' = [inUse EXCEPT ![i] = @ \ held[b]]
        /\ held' = [held EXCEPT ![b] = {}]
    BY <1>2, <1>9 DEF CoreInv, FleetTypes, Release, Released
  <2>2. FleetTypes'
    BY <1>2, <1>3, <2>1 DEF CoreInv, FleetTypes, poolVars
  <2>3. HoldersRun'
    BY <1>2, <1>4, <2>1 DEF CoreInv, FleetTypes, HoldersRun
  <2>4. CorePartition'
    BY <1>2, <1>4, <2>1 DEF CoreInv, FleetTypes, CorePartition
  <2> QED
    BY <1>5, <1>6, <2>2, <2>3, <2>4 DEF CoreInv
<1> QED
  BY <1>7, <1>8, <1>9 DEF Run

(* The invariant holds in every reachable state.                           *)
LEMMA CoreInvariant == Spec => []CoreInv
<1>1. CoreInv /\ [Next]_vars => CoreInv'
  <2> SUFFICES ASSUME CoreInv, [Next]_vars PROVE CoreInv'
    OBVIOUS
  <2>1. CASE Next
    BY <2>1, PoolStep, PostStep, MachineStep DEF Next, Dispatch, Poll
  <2>2. CASE UNCHANGED vars
    BY <2>2 DEF vars, poolVars, fleetVars, CoreInv, FleetTypes, HoldersRun, AttemptsPaid,
                FreshAttempts, CorePartition
  <2> QED
    BY <2>1, <2>2
<1> QED
  BY <1>1, CoreInit, PTL DEF Spec

(* No two benchmarks of a machine ever share a core and a core is marked   *)
(* in use exactly while a benchmark holds it (claim_cores, release_cores), *)
(* for any numbers of benchmarks, machines, cores and failures.            *)
THEOREM CoresNeverShared == Spec => []CoresExclusive
<1>1. CoreInv => CoresExclusive
  <2> SUFFICES ASSUME CoreInv PROVE CoresExclusive
    OBVIOUS
  <2>1. ASSUME NEW b \in Benchmarks, NEW c \in Benchmarks, b # c, bench[b].inst = bench[c].inst
        PROVE  held[b] \cap held[c] = {}
    BY <2>1 DEF CoreInv, FleetTypes, CorePartition
  <2>2. ASSUME NEW i \in Instances
        PROVE  inUse[i] = UNION {held[b] : b \in {c \in Benchmarks : bench[c].inst = i}}
    BY DEF CoreInv, FleetTypes, CorePartition
  <2> QED
    BY <2>1, <2>2 DEF CoresExclusive
<1> QED
  BY <1>1, CoreInvariant, PTL
-----------------------------------------------------------------------------
(* How far the pool's counters can drift from the truth.  An instance's    *)
(* count is exact; what the pool believes is never more than has been sent *)
(* to the instance and never less than the failures explain.               *)
Sent(i) == {b \in Benchmarks : bench[b].pc # "none" /\ bench[b].inst = i}
Counted(i) == {b \in Benchmarks : bench[b].pc \in {"running", "released"} /\ bench[b].inst = i}

PoolTypes ==
    /\ active \in [Instances -> Int] /\ count \in [Instances -> Int]
    /\ max \in [Instances -> {DefaultMax, MaxConcurrent}]
    /\ polling \in [inst : Instances, seen : Int]
    /\ \A j \in Jobs : disp[j].inst \in 0..Machines

CountExact == \A i \in Instances : count[i] = Cardinality(Counted(i))

DriftBounded ==
    /\ \A i \in Instances : -fails <= active[i] /\ active[i] <= Cardinality(Sent(i))
    /\ -1 <= polling.seen /\ polling.seen <= Cardinality(Sent(polling.inst))

LoadInv == CoreInv /\ PoolTypes /\ CountExact /\ DriftBounded

(* There are finitely many benchmarks.                                     *)
LEMMA FiniteLoads ==
    ASSUME NEW i
    PROVE  /\ IsFiniteSet(Benchmarks) /\ Cardinality(Benchmarks) \in Nat
           /\ IsFiniteSet(Sent(i)) /\ IsFiniteSet(Counted(i))
           /\ Cardinality(Sent(i)) \in Nat /\ Cardinality(Counted(i)) \in Nat
           /\ Cardinality(Counted(i)) <= Cardinality(Sent(i))
           /\ Cardinality(Sent(i)) <= Cardinality(Benchmarks)
<1>1. IsFiniteSet(Benchmarks)
  <2>1. IsFiniteSet(Attempts)
    BY FleetBounds, FS_Interval DEF Attempts
  <2> QED BY <2>1, FleetBounds, FS_Product DEF Benchmarks
<1>2. Sent(i) \in SUBSET Benchmarks /\ Counted(i) \in SUBSET Sent(i)
  BY DEF Sent, Counted
<1>3. IsFiniteSet(Sent(i)) /\ Cardinality(Sent(i)) <= Cardinality(Benchmarks)
  BY <1>1, <1>2, FS_Subset
<1>4. IsFiniteSet(Counted(i)) /\ Cardinality(Counted(i)) <= Cardinality(Sent(i))
  BY <1>2, <1>3, FS_Subset
<1> QED BY <1>1, <1>3, <1>4, FS_CardinalityType

(* The fleet starts in the invariant.                                      *)
LEMMA LoadInit == Init => LoadInv
<1> SUFFICES ASSUME Init PROVE LoadInv
  OBVIOUS
<1>1. 1 \in Instances /\ \A i \in Instances : i \in Nat
  BY FleetBounds DEF Instances
<1>2. PoolTypes
  BY <1>1, FleetBounds DEF Init, PoolTypes
<1>3. ASSUME NEW i PROVE Cardinality(Counted(i)) = 0 /\ Cardinality(Sent(i)) = 0
  <2>1. Counted(i) = {} /\ Sent(i) = {}
    BY DEF Init, Counted, Sent
  <2> QED BY <2>1, FS_EmptySet
<1>4. CountExact
  BY <1>3 DEF Init, CountExact
<1>5. DriftBounded
  BY <1>1, <1>3 DEF Init, DriftBounded
<1> QED BY <1>2, <1>4, <1>5, CoreInit DEF LoadInv

(* A step of the pool between two requests.                                *)
LEMMA PoolLoads ==
    ASSUME LoadInv,
           \/ \E j \in Jobs : Pick(j) \/ Abort(j) \/ PostAccepted(j) \/ PostFailed(j)
           \/ PollRead \/ PollStore \/ PollFailed
    PROVE  PoolTypes' /\ CountExact' /\ DriftBounded'
<1>0. CoreInv /\ PoolTypes /\ CountExact /\ DriftBounded /\ fails \in Nat
  BY FleetBounds DEF LoadInv, CoreInv, FleetTypes
<1>1. /\ UNCHANGED <<bench, count>>
      /\ \A i : Sent(i)' = Sent(i) /\ Counted(i)' = Counted(i)
  BY DEF Pick, Abort, PostAccepted, PostFailed, PollRead, PollStore, PollFailed, fleetVars, Sent, Counted
<1>2. CountExact'
  BY <1>0, <1>1 DEF CountExact
<1>3. \A i : Cardinality(Sent(i)) \in Nat /\ Cardinality(Counted(i)) \in Nat
             /\ Cardinality(Counted(i)) <= Cardinality(Sent(i))
  BY FiniteLoads
<1>4. ASSUME NEW j \in Jobs, Pick(j) \/ Abort(j) \/ PostAccepted(j)
      PROVE  PoolTypes' /\ DriftBounded'
  <2>1. UNCHANGED <<active, max, polling, fails>>
    BY <1>4 DEF Pick, Abort, PostAccepted
  <2>2. \A k \in Jobs : disp'[k].inst \in 0..Machines
    <3>1. CASE Pick(j)
      <4>1. PICK i \in LeastLoaded :
                disp' = [disp EXCEPT ![j] = [pc |-> "picked", inst |-> i, attempt |-> @.attempt]]
        BY <3>1 DEF Pick
      <4>2. i \in 0..Machines
        BY FleetBounds DEF LeastLoaded, Candidates, Instances
      <4> QED BY <1>0, <4>1, <4>2 DEF CoreInv, FleetTypes, PoolTypes
    <3>2. CASE Abort(j) \/ PostAccepted(j)
      <4>1. PICK q \in {"aborted", "done"} : disp' = [disp EXCEPT ![j].pc = q]
        BY <3>2 DEF Abort, PostAccepted
      <4> QED BY <1>0, <4>1 DEF CoreInv, FleetTypes, PoolTypes, DispatchStates
    <3> QED BY <1>4, <3>1, <3>2
  <2>3. PoolTypes'
    BY <1>0, <1>1, <2>1, <2>2 DEF PoolTypes
  <2>4. DriftBounded'
    BY <1>0, <1>1, <2>1 DEF DriftBounded
  <2> QED BY <2>3, <2>4
<1>5. ASSUME NEW j \in Jobs, PostFailed(j) PROVE PoolTypes' /\ DriftBounded'
  <2>1. /\ fails' = fails + 1 /\ UNCHANGED <<max, polling>>
        /\ active' = [active EXCEPT ![disp[j].inst] = active[disp[j].inst] - 1]
        /\ disp' = [disp EXCEPT ![j] = [pc |-> "choosing", inst |-> 0, attempt |-> disp[j].attempt + 1]]
    BY <1>5 DEF PostFailed, Lowered
  <2>2. active' \in [Instances -> Int] /\ \A i \in Instances : active'[i] = active[i] \/ active'[i] = active[i] - 1
    <3>1. active \in [Instances -> Int]
      BY <1>0 DEF PoolTypes
    <3>2. \A i \in Instances : active[i] - 1 \in Int
      BY <3>1
    <3>3. CASE disp[j].inst \in Instances
      BY <2>1, <3>1, <3>2, <3>3
    <3>4. CASE disp[j].inst \notin Instances
      BY <2>1, <3>1, <3>4
    <3> QED BY <3>3, <3>4
  <2>3. \A k \in Jobs : disp'[k].inst \in 0..Machines
    BY <1>0, <2>1, FleetBounds DEF CoreInv, FleetTypes, PoolTypes
  <2>4. PoolTypes'
    BY <1>0, <1>1, <2>1, <2>2, <2>3 DEF PoolTypes
  <2>5. DriftBounded'
    <3>1. ASSUME NEW i \in Instances PROVE -fails' <= active'[i] /\ active'[i] <= Cardinality(Sent(i))
      <4>1. active[i] \in Int /\ -fails <= active[i] /\ active[i] <= Cardinality(Sent(i))
        BY <1>0 DEF PoolTypes, DriftBounded
      <4> QED BY <1>0, <1>3, <2>1, <2>2, <4>1
    <3> QED BY <1>0, <1>1, <2>1, <3>1 DEF DriftBounded
  <2> QED BY <2>4, <2>5
<1>6. CASE PollRead \/ PollStore \/ PollFailed
  <2>1. /\ disp' = disp /\ fails' \in Nat /\ fails <= fails'
        /\ max' \in [Instances -> {DefaultMax, MaxConcurrent}]
    BY <1>0, <1>6 DEF PollRead, PollStore, PollFailed, PoolTypes
  <2>2. polling.inst \in Instances /\ polling.seen \in Int /\ polling \in [inst : Instances, seen : Int]
    BY <1>0 DEF PoolTypes
  <2>3. polling' \in [inst : Instances, seen : Int]
        /\ -1 <= polling'.seen /\ polling'.seen <= Cardinality(Sent(polling'.inst))
    <3>1. CASE PollRead
      <4>1. /\ polling' = [polling EXCEPT !.seen = count[polling.inst]]
            /\ count[polling.inst] = Cardinality(Counted(polling.inst))
        BY <1>0, <2>2, <3>1 DEF PollRead, CountExact
      <4> QED BY <1>3, <2>2, <4>1
    <3>2. CASE PollStore \/ PollFailed
      <4>1. polling' = [inst |-> (polling.inst % Machines) + 1, seen |-> -1]
        BY <3>2 DEF PollStore, PollFailed, NextPoll
      <4>2. (polling.inst % Machines) + 1 \in Instances
        BY <2>2, FleetBounds DEF Instances
      <4> QED BY <1>3, <4>1, <4>2
    <3> QED BY <1>6, <3>1, <3>2
  <2>4. /\ active' \in [Instances -> Int]
        /\ \A i \in Instances : active'[i] = active[i]
              \/ (i = polling.inst /\ polling.seen # -1 /\ active'[i] = polling.seen)
    BY <1>0, <1>6, <2>2 DEF PollRead, PollStore, PollFailed, PoolTypes, Refreshed
  <2>5. PoolTypes'
    BY <1>0, <1>1, <2>1, <2>3, <2>4 DEF PoolTypes
  <2>6. ASSUME NEW i \in Instances PROVE -fails' <= active'[i] /\ active'[i] <= Cardinality(Sent(i))
    <3>1. /\ active[i] \in Int /\ -fails <= active[i] /\ active[i] <= Cardinality(Sent(i))
          /\ -1 <= polling.seen /\ polling.seen <= Cardinality(Sent(polling.inst))
      BY <1>0 DEF PoolTypes, DriftBounded
    <3> QED BY <1>0, <1>3, <2>1, <2>2, <2>4, <3>1
  <2> QED BY <1>1, <1>2, <2>3, <2>5, <2>6 DEF DriftBounded
<1>7. ASSUME NEW j \in Jobs, Pick(j) \/ Abort(j) \/ PostAccepted(j) \/ PostFailed(j)
      PROVE  PoolTypes' /\ DriftBounded'
  BY <1>4, <1>5, <1>7
<1>8. PoolTypes' /\ DriftBounded'
  BY <1>6, <1>7
<1> QED BY <1>2, <1>8

(* A POST raises the counter of the instance it sends a benchmark to.      *)
LEMMA PostLoads ==
    ASSUME LoadInv, NEW j \in Jobs, Post(j)
    PROVE  PoolTypes' /\ CountExact' /\ DriftBounded'
<1> DEFINE b == <<j, disp[j].attempt>>
           m == disp[j].inst
<1>0. CoreInv /\ PoolTypes /\ CountExact /\ DriftBounded /\ fails \in Nat
  BY FleetBounds DEF LoadInv, CoreInv, FleetTypes
<1>1. b \in Benchmarks /\ bench[b].pc = "none" /\ m \in Instances
  <2>1. disp[j].attempt \in Attempts
    BY <1>0, FleetBounds DEF CoreInv, FleetTypes, DispatchStates, AttemptsPaid, Attempts
  <2> QED BY <1>0, <2>1, Pairs DEF CoreInv, FreshAttempts, AttemptsPaid, Post
<1>2. /\ active' = [active EXCEPT ![m] = active[m] + 1]
      /\ bench' = [bench EXCEPT ![b] = [pc |-> "sent", inst |-> m]]
      /\ disp' = [disp EXCEPT ![j].pc = "posted"]
      /\ UNCHANGED <<max, polling, fails, count>>
  BY DEF Post
<1> HIDE DEF b
<1>3. bench'[b] = [pc |-> "sent", inst |-> m] /\ \A c \in Benchmarks : c # b => bench'[c] = bench[c]
  BY <1>0, <1>1, <1>2 DEF CoreInv, FleetTypes
<1>4. \A i : Counted(i)' = Counted(i)
  BY <1>1, <1>3 DEF Counted
<1>5. CountExact'
  BY <1>0, <1>2, <1>4 DEF CountExact
<1>6. ASSUME NEW i
      PROVE  /\ i # m => Cardinality(Sent(i)') = Cardinality(Sent(i))
             /\ i = m => Cardinality(Sent(i)') = Cardinality(Sent(i)) + 1
  <2>1. b \notin Sent(i)
    BY <1>1 DEF Sent
  <2>2. i # m => Sent(i)' = Sent(i)
    BY <1>1, <1>3 DEF Sent
  <2>3. i = m => Sent(i)' = Sent(i) \cup {b}
    BY <1>1, <1>3 DEF Sent
  <2> QED BY <2>1, <2>2, <2>3, FiniteLoads, FS_AddElement
<1>7. PoolTypes'
  <2>1. active' \in [Instances -> Int]
    BY <1>0, <1>1, <1>2 DEF PoolTypes
  <2>2. \A k \in Jobs : disp'[k].inst \in 0..Machines
    BY <1>0, <1>2 DEF CoreInv, FleetTypes, PoolTypes, DispatchStates
  <2> QED BY <1>0, <1>2, <2>1, <2>2 DEF PoolTypes
<1>8. ASSUME NEW i \in Instances PROVE -fails <= active'[i] /\ active'[i] <= Cardinality(Sent(i)')
  <2>1. /\ active[i] \in Int /\ -fails <= active[i] /\ active[i] <= Cardinality(Sent(i))
        /\ Cardinality(Sent(i)) \in Nat
    BY <1>0, FiniteLoads DEF PoolTypes, DriftBounded
  <2>2. active'[i] = IF i = m THEN active[i] + 1 ELSE active[i]
    BY <1>0, <1>1, <1>2 DEF PoolTypes
  <2> QED BY <1>0, <1>6, <2>1, <2>2
<1>9. /\ polling' = polling /\ fails' = fails
      /\ -1 <= polling.seen /\ polling.seen <= Cardinality(Sent(polling.inst)')
  <2>1. /\ polling.seen \in Int /\ -1 <= polling.seen /\ polling.seen <= Cardinality(Sent(polling.inst))
        /\ Cardinality(Sent(polling.inst)) \in Nat
    BY <1>0, FiniteLoads DEF PoolTypes, DriftBounded
  <2> QED BY <1>2, <1>6, <2>1
<1>10. DriftBounded'
  <2>1. \A i : Sent(i)' = {c \in Benchmarks : bench'[c].pc # "none" /\ bench'[c].inst = i}
    BY DEF Sent
  <2>2. DriftBounded' <=>
          /\ \A i \in Instances : -fails' <= active'[i]
               /\ active'[i] <= Cardinality({c \in Benchmarks : bench'[c].pc # "none" /\ bench'[c].inst = i})
          /\ -1 <= polling'.seen
          /\ polling'.seen <= Cardinality({c \in Benchmarks : bench'[c].pc # "none" /\ bench'[c].inst = polling'.inst})
    BY DEF DriftBounded, Sent
  <2> QED BY <1>8, <1>9, <2>1, <2>2
<1> QED BY <1>5, <1>7, <1>10

(* An instance counts a benchmark from its start to its end.               *)
LEMMA MachineLoads ==
    ASSUME LoadInv, NEW b \in Benchmarks, Accept(b) \/ Run(b)
    PROVE  PoolTypes' /\ CountExact' /\ DriftBounded'
<1> DEFINE m == bench[b].inst
<1>0. /\ CoreInv /\ PoolTypes /\ CountExact /\ DriftBounded
      /\ UNCHANGED <<active, max, disp, polling, fails>>
  BY DEF LoadInv, Accept, Run, Claim, Start, Release, Uncount, poolVars
<1>1. PICK q \in {"waiting", "claimed", "running", "released", "finished"} :
        /\ bench' = [bench EXCEPT ![b].pc = q]
        /\ bench[b].pc # "none"
        /\ \/ /\ count' = count
              /\ bench[b].pc \in {"running", "released"} <=> q \in {"running", "released"}
           \/ /\ count' = [count EXCEPT ![m] = count[m] + 1]
              /\ bench[b].pc = "claimed" /\ q = "running"
           \/ /\ count' = [count EXCEPT ![m] = count[m] - 1]
              /\ bench[b].pc = "released" /\ q = "finished"
  <2>1. CASE Accept(b)
    BY <2>1 DEF Accept
  <2>2. CASE Claim(b)
    BY <2>2 DEF Claim
  <2>3. CASE Start(b)
    BY <2>3 DEF Start
  <2>4. CASE Release(b)
    BY <2>4 DEF Release
  <2>5. CASE Uncount(b)
    BY <2>5 DEF Uncount
  <2> QED BY <2>1, <2>2, <2>3, <2>4, <2>5 DEF Run
<1>2. /\ m \in Instances /\ bench'[b].pc = q /\ bench'[b].inst = m
      /\ \A c \in Benchmarks : c # b => bench'[c] = bench[c]
  BY <1>0, <1>1 DEF CoreInv, FleetTypes, HoldersRun
<1>3. \A i : Sent(i)' = Sent(i)
  BY <1>1, <1>2 DEF Sent
<1>4. DriftBounded'
  BY <1>0, <1>3 DEF DriftBounded
<1>5. \A i \in Instances : count[i] \in Int
  BY <1>0 DEF PoolTypes
<1>6. PoolTypes'
  <2>1. count' \in [Instances -> Int]
    BY <1>0, <1>1, <1>2, <1>5 DEF PoolTypes
  <2> QED BY <1>0, <2>1 DEF PoolTypes
<1>7. ASSUME NEW i \in Instances PROVE count'[i] = Cardinality(Counted(i)')
  <2>1. count[i] = Cardinality(Counted(i)) /\ IsFiniteSet(Counted(i)) /\ Cardinality(Counted(i)) \in Nat
    BY <1>0, FiniteLoads DEF CountExact
  <2>2. CASE i # m
    <3>1. Counted(i)' = Counted(i)
      BY <1>2, <2>2 DEF Counted
    <3>2. count'[i] = count[i]
      BY <1>0, <1>1, <1>2, <2>2 DEF PoolTypes
    <3> QED BY <2>1, <3>1, <3>2
  <2>3. CASE /\ i = m /\ count' = count
             /\ bench[b].pc \in {"running", "released"} <=> q \in {"running", "released"}
    <3>1. Counted(i)' = Counted(i)
      BY <1>2, <2>3 DEF Counted
    <3> QED BY <2>1, <2>3, <3>1
  <2>4. CASE /\ i = m /\ count' = [count EXCEPT ![m] = count[m] + 1]
             /\ bench[b].pc = "claimed" /\ q = "running"
    <3>1. Counted(i)' = Counted(i) \cup {b} /\ b \notin Counted(i)
      BY <1>2, <2>4 DEF Counted
    <3>2. count'[i] = count[i] + 1
      BY <1>0, <1>2, <2>4 DEF PoolTypes
    <3> QED BY <2>1, <3>1, <3>2, FS_AddElement
  <2>5. CASE /\ i = m /\ count' = [count EXCEPT ![m] = count[m] - 1]
             /\ bench[b].pc = "released" /\ q = "finished"
    <3>1. Counted(i)' = Counted(i) \ {b} /\ b \in Counted(i)
      BY <1>2, <2>5 DEF Counted
    <3>2. count'[i] = count[i] - 1
      BY <1>0, <1>2, <2>5 DEF PoolTypes
    <3> QED BY <2>1, <3>1, <3>2, FS_RemoveElement
  <2> QED BY <1>1, <2>2, <2>3, <2>4, <2>5
<1>8. CountExact'
  BY <1>7 DEF CountExact, Counted
<1> QED BY <1>4, <1>6, <1>8

(* The invariant holds of the fleet.                                       *)
LEMMA LoadInvariant == Spec => []LoadInv
<1>1. LoadInv /\ [Next]_vars => (PoolTypes' /\ CountExact' /\ DriftBounded')
  <2> SUFFICES ASSUME LoadInv, [Next]_vars PROVE PoolTypes' /\ CountExact' /\ DriftBounded'
    OBVIOUS
  <2>1. CASE Next
    BY <2>1, PoolLoads, PostLoads, MachineLoads DEF Next, Dispatch, Poll
  <2>2. CASE UNCHANGED vars
    BY <2>2 DEF vars, poolVars, fleetVars, LoadInv, PoolTypes, CountExact, DriftBounded, Sent, Counted
  <2> QED BY <2>1, <2>2
<1>2. (LoadInv /\ CoreInv' /\ [Next]_vars) => LoadInv'
  BY <1>1 DEF LoadInv
<1> QED BY <1>2, LoadInit, CoreInvariant, PTL DEF Spec

(* Every variable of the pool and of the machines keeps its type: however  *)
(* POSTs, their failures and health polls interleave, the pool's counter   *)
(* drifts below zero by no more than the failures and above by no more     *)
(* than has been sent, and a machine's count is exact.                     *)
THEOREM FleetTypesKept == Spec => []TypeOK
<1>1. LoadInv => TypeOK
  <2> SUFFICES ASSUME LoadInv PROVE TypeOK
    OBVIOUS
  <2>0. /\ CoreInv /\ PoolTypes /\ CountExact /\ DriftBounded
        /\ fails \in 0..MaxFails /\ fails \in Nat /\ MaxFails \in Nat /\ fails <= MaxFails
    BY FleetBounds DEF LoadInv, CoreInv, FleetTypes
  <2>1. active \in [Instances -> (-MaxFails)..(Cardinality(Benchmarks))]
    <3>1. ASSUME NEW i \in Instances PROVE active[i] \in (-MaxFails)..(Cardinality(Benchmarks))
      <4>1. active[i] \in Int /\ -fails <= active[i] /\ active[i] <= Cardinality(Sent(i))
        BY <2>0 DEF PoolTypes, DriftBounded
      <4>2. /\ Cardinality(Sent(i)) \in Nat /\ Cardinality(Benchmarks) \in Nat
            /\ Cardinality(Sent(i)) <= Cardinality(Benchmarks)
        BY FiniteLoads
      <4> QED BY <2>0, <4>1, <4>2
    <3> QED BY <2>0, <3>1 DEF PoolTypes
  <2>2. ASSUME NEW j \in Jobs
        PROVE  /\ disp[j].pc \in {"choosing", "picked", "posted", "done", "aborted"}
               /\ disp[j].inst \in 0..Machines /\ disp[j].attempt \in Attempts
    BY <2>0 DEF CoreInv, FleetTypes, DispatchStates, AttemptsPaid, PoolTypes, Attempts
  <2>3. polling.inst \in Instances /\ polling.seen \in -1..Cardinality(Benchmarks)
    <3>1. /\ polling.seen \in Int /\ polling.inst \in Instances
          /\ -1 <= polling.seen /\ polling.seen <= Cardinality(Sent(polling.inst))
      BY <2>0 DEF PoolTypes, DriftBounded
    <3>2. /\ Cardinality(Sent(polling.inst)) \in Nat /\ Cardinality(Benchmarks) \in Nat
          /\ Cardinality(Sent(polling.inst)) <= Cardinality(Benchmarks)
      BY FiniteLoads
    <3> QED BY <3>1, <3>2
  <2>4. count \in [Instances -> Nat]
    BY <2>0, FiniteLoads DEF PoolTypes, CountExact
  <2> QED BY <2>0, <2>1, <2>2, <2>3, <2>4 DEF TypeOK, PoolTypes, CoreInv, FleetTypes
<1> QED BY <1>1, LoadInvariant, PTL

=============================================================================
