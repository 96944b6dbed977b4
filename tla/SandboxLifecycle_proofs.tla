----------------------- MODULE SandboxLifecycle_proofs -----------------------
(***************************************************************************)
(* A submission is in one place at a time, its container is owned for as   *)
(* long as it exists, and the container outlives the benchmarks, for any   *)
(* number of submissions, workers, restarts and failed calls and for any   *)
(* durations.                                                              *)
(*                                                                         *)
(* The argument follows one submission: Stage says where it is on its way  *)
(* through the manager, PlaceInv that this is well defined, StageInv what  *)
(* holds at each stage, and TimeInv relates the timers of the performance  *)
(* goroutine, of the cleanup goroutine and of the benchmarks.              *)
(***************************************************************************)
EXTENDS SandboxLifecycle, FiniteSetTheorems, TLAPS

WorkerStages == {"idle", "fetch", "build", "start", "probe", "discard", "trigger", "mark"}
PerfTimers == [pc : {"none", "sleep", "dispatch", "over"}, left : Nat]
CleanTimers ==
    [pc : {"none", "await", "countdown", "finish", "remove", "over"}, left : Nat]
BenchTimers == [pc : {"none", "waiting", "running", "over"}, left : Nat]

StoreTypes ==
    /\ status \in [Subs -> Statuses]
    /\ handler \in [Subs -> {"none", "enqueue", "done"}]
    /\ queue \in Seq(Subs)
    /\ dropped \subseteq Subs /\ faulted \subseteq Subs /\ unremoved \subseteq Subs
PoolTypes ==
    /\ popped \in Subs \cup {Nobody}
    /\ jobs \in Seq(Subs) /\ Len(jobs) <= Cardinality(Workers)
    /\ work \in [Workers -> [pc : WorkerStages, sub : Subs \cup {Nobody}]]
    /\ \A w \in Workers : work[w].pc = "idle" <=> work[w].sub = Nobody
TimerTypes ==
    /\ container \in [Subs -> BOOLEAN] /\ started \in [Subs -> BOOLEAN]
    /\ perf \in [Subs -> PerfTimers] /\ clean \in [Subs -> CleanTimers]
    /\ bench \in [Subs -> [Phases -> BenchTimers]]
Types == StoreTypes /\ PoolTypes /\ TimerTypes

(* Where a submission waits for a worker.                                  *)
Holds(q, s) == \E i \in DOMAIN q : q[i] = s
NoTwice(q) == \A i, j \in DOMAIN q : q[i] = q[j] => i = j
Waits(s) == Holds(queue, s) \/ popped = s \/ Holds(jobs, s)

(* A submission is in one place at a time, and in none before it is        *)
(* enqueued.                                                               *)
OnePlace ==
    /\ NoTwice(queue) /\ NoTwice(jobs)
    /\ \A w, v \in Workers : (work[w].sub = work[v].sub /\ work[w].sub # Nobody) => w = v
    /\ \A s \in Subs :
         /\ Holds(queue, s) => popped # s /\ ~Holds(jobs, s)
         /\ popped = s => ~Holds(jobs, s)
         /\ Waits(s) => Working(s) = {}
         /\ handler[s] # "done" => ~Waits(s) /\ Working(s) = {}

PlaceInv == Types /\ OnePlace

(* How far a submission has come: its worker's stage, while it has one.    *)
Stage(s) ==
    IF handler[s] # "done" THEN "new"
    ELSE IF Waits(s) THEN "queued"
    ELSE IF Working(s) # {} THEN work[CHOOSE w \in Workers : work[w].sub = s].pc
    ELSE "gone"

Busy(s) == clean[s].pc \in {"await", "countdown", "finish", "remove"}

(* Nothing has been started for s.                                         *)
Untouched(s) ==
    /\ perf[s] = Off /\ clean[s] = Off /\ ~started[s]
    /\ \A p \in Phases : bench[s][p] = Off

(* What has been started for s at each stage.                              *)
StageOk(s) ==
    /\ Stage(s) \in {"new", "queued", "fetch", "build", "start", "probe", "discard"}
           => Untouched(s)
    /\ Stage(s) = "trigger" =>
           /\ perf[s] = Off /\ clean[s] = Off /\ ~started[s]
           /\ bench[s]["performance"] = Off
    /\ Stage(s) = "mark" => clean[s] = Off
    /\ (Stage(s) = "mark" \/ Busy(s)) => perf[s].pc # "none"

(* What the row and the container of s are at each stage.                  *)
RowOk(s) ==
    /\ (Stage(s) \in {"probe", "trigger", "mark"} \/ Busy(s)) => container[s]
    /\ (container[s] /\ s \notin dropped \cup unremoved)
           => Stage(s) \in {"probe", "trigger", "mark", "discard"} \/ Busy(s)
    /\ (status[s] \in {"READY", "RUNNING"} /\ s \notin faulted) => container[s]
    /\ (Stage(s) = "discard" \/ clean[s].pc = "remove")
           => status[s] \in Terminal \/ s \in faulted
    /\ clean[s].pc \in {"await", "countdown", "finish"}
           => status[s] = "RUNNING" \/ s \in faulted
    /\ (Stage(s) = "gone" /\ status[s] \notin Terminal /\ s \notin Harmed) => Busy(s)

StageInv == PlaceInv /\ \A s \in Subs : StageOk(s) /\ RowOk(s)

(* The ticks the performance goroutine may still take.                     *)
PerfLeft(s) == perf[s].left + (IF perf[s].pc = "sleep" THEN Window ELSE 0)

(* The performance goroutine and the safety net.                           *)
PerfOk(s) ==
    /\ started[s] => perf[s].pc \in {"over", "none"}
    /\ perf[s].pc = "over" => started[s]
    /\ perf[s].pc = "sleep" => perf[s].left <= Correctness + Gap
    /\ perf[s].pc = "dispatch" => perf[s].left <= Window
    /\ perf[s].pc \in {"sleep", "dispatch"} => container[s] /\ clean[s].pc \in {"none", "await"}
    /\ (clean[s].pc = "await" /\ ~started[s]) => PerfLeft(s) < clean[s].left
    /\ (clean[s].pc = "await" /\ started[s]) => clean[s].left > 0

(* The benchmarks of s and the countdown.                                  *)
BenchOk(s) ==
    \A p \in Phases : Live(s, p) =>
        /\ container[s]
        /\ Left(s, p) <= MaxDelay + Duration(p)
        /\ perf[s].pc = "sleep" => p = "correctness" /\ Left(s, p) + Gap <= MaxDelay + perf[s].left
        /\ perf[s].pc \in {"dispatch", "over"} => Left(s, p) <= MaxDelay + Performance
        /\ clean[s].pc = "countdown" => Left(s, p) < clean[s].left
        /\ clean[s].pc \notin {"finish", "remove", "over"}

TimeInv == StageInv /\ \A s \in Subs : PerfOk(s) /\ BenchOk(s)

(* The correctness phase while the performance goroutine sleeps, and once  *)
(* it has asked the fleet.                                                 *)
Asked(s) == perf[s].pc \in {"dispatch", "over"} \/ bench[s]["performance"].pc # "none"
OverlapOk(s) ==
    /\ (Stage(s) = "mark" \/ perf[s].pc # "none" \/ Asked(s)) => bench[s]["correctness"].pc # "none"
    /\ Live(s, "correctness") =>
          /\ Left(s, "correctness") <= MaxDelay + Correctness
          /\ perf[s].pc = "sleep" => Left(s, "correctness") + Gap <= MaxDelay + perf[s].left
          /\ Asked(s) => Left(s, "correctness") + Gap <= MaxDelay

OverlapInv == StageInv /\ \A s \in Subs : OverlapOk(s)
-----------------------------------------------------------------------------
(* What a push and a pop do to a queue.                                    *)
LEMMA Pushed ==
    ASSUME NEW q \in Seq(Subs), NEW r \in Subs
    PROVE  /\ Append(q, r) \in Seq(Subs) /\ Len(Append(q, r)) = Len(q) + 1
           /\ \A x : Holds(Append(q, r), x) <=> (Holds(q, x) \/ x = r)
           /\ (NoTwice(q) /\ ~Holds(q, r)) => NoTwice(Append(q, r))
<1>1. /\ Append(q, r) \in Seq(Subs) /\ Len(Append(q, r)) = Len(q) + 1
      /\ DOMAIN q = 1..Len(q) /\ DOMAIN Append(q, r) = 1..(Len(q) + 1) /\ Len(q) \in Nat
      /\ \A i \in 1..Len(q) : Append(q, r)[i] = q[i]
      /\ Append(q, r)[Len(q) + 1] = r
  OBVIOUS
<1>2. \A i \in DOMAIN Append(q, r) : i \in DOMAIN q \/ i = Len(q) + 1
  BY <1>1
<1>3. \A x : Holds(Append(q, r), x) <=> (Holds(q, x) \/ x = r)
  BY <1>1, <1>2 DEF Holds
<1>4. (NoTwice(q) /\ ~Holds(q, r)) => NoTwice(Append(q, r))
  BY <1>1, <1>2 DEF NoTwice, Holds
<1> QED BY <1>1, <1>3, <1>4

(* What is left of a queue without repetitions when its first job is       *)
(* taken.                                                                  *)
LEMMA PoppedFrom ==
    ASSUME NEW q \in Seq(Subs), q # <<>>
    PROVE  /\ Head(q) \in Subs /\ Tail(q) \in Seq(Subs) /\ Len(Tail(q)) <= Len(q)
           /\ Holds(q, Head(q))
           /\ NoTwice(q) => /\ NoTwice(Tail(q))
                            /\ \A x : Holds(Tail(q), x) <=> (Holds(q, x) /\ x # Head(q))
<1>1. /\ Len(q) \in Nat \ {0} /\ DOMAIN q = 1..Len(q) /\ DOMAIN Tail(q) = 1..(Len(q) - 1)
      /\ Head(q) = q[1] /\ Head(q) \in Subs /\ Tail(q) \in Seq(Subs) /\ Len(Tail(q)) = Len(q) - 1
      /\ \A i \in 1..(Len(q) - 1) : Tail(q)[i] = q[i + 1]
  OBVIOUS
<1>2. 1 \in DOMAIN q /\ \A i \in DOMAIN Tail(q) : i + 1 \in DOMAIN q /\ i + 1 # 1
  BY <1>1
<1>3. ASSUME NEW i \in DOMAIN q, i # 1 PROVE i - 1 \in DOMAIN Tail(q) /\ Tail(q)[i - 1] = q[i]
  <2>1. i - 1 \in 1..(Len(q) - 1) /\ (i - 1) + 1 = i
    BY <1>1, <1>3
  <2>2. Tail(q)[i - 1] = q[(i - 1) + 1]
    BY <1>1, <2>1
  <2> QED BY <1>1, <2>1, <2>2
<1>4. ASSUME NoTwice(q) PROVE NoTwice(Tail(q))
  <2> SUFFICES ASSUME NEW i \in DOMAIN Tail(q), NEW j \in DOMAIN Tail(q), Tail(q)[i] = Tail(q)[j]
               PROVE  i = j
    BY DEF NoTwice
  <2>1. q[i + 1] = q[j + 1] /\ i + 1 \in DOMAIN q /\ j + 1 \in DOMAIN q
    BY <1>1, <1>2
  <2>2. i + 1 = j + 1 /\ i \in Nat /\ j \in Nat
    BY <1>1, <1>4, <2>1 DEF NoTwice
  <2> QED BY <2>2
<1>5. ASSUME NoTwice(q), NEW x PROVE Holds(Tail(q), x) <=> (Holds(q, x) /\ x # Head(q))
  <2>1. Holds(Tail(q), x) => Holds(q, x) /\ x # Head(q)
    BY <1>1, <1>2, <1>5 DEF Holds, NoTwice
  <2>2. (Holds(q, x) /\ x # Head(q)) => Holds(Tail(q), x)
    BY <1>1, <1>3 DEF Holds
  <2> QED BY <2>1, <2>2
<1>6. Holds(q, Head(q)) /\ Len(Tail(q)) <= Len(q)
  BY <1>1, <1>2 DEF Holds
<1> QED BY <1>1, <1>4, <1>5, <1>6

-----------------------------------------------------------------------------
(* The manager and the fleet start in the invariants.                      *)
LEMMA LifecycleInit == Init => TimeInv /\ OverlapInv
<1> SUFFICES ASSUME Init PROVE TimeInv /\ OverlapInv
  OBVIOUS
<1> USE NobodyIsNoSub
<1>1. Types
  <2>1. StoreTypes
    BY DEF Init, StoreTypes, Statuses
  <2>2. PoolTypes
    <3>1. Cardinality(Workers) \in Nat
      BY LifecycleBounds, FS_CardinalityType
    <3> QED BY <3>1 DEF Init, PoolTypes, Idle, WorkerStages
  <2>3. TimerTypes
    BY DEF Init, TimerTypes, PerfTimers, CleanTimers, BenchTimers, Off
  <2> QED BY <2>1, <2>2, <2>3 DEF Types
<1>2. OnePlace /\ \A s \in Subs : ~Waits(s) /\ Working(s) = {}
  BY DEF Init, OnePlace, NoTwice, Holds, Waits, Working, Idle
<1>3. \A s \in Subs : /\ Stage(s) = "new" /\ Untouched(s) /\ ~Busy(s) /\ ~container[s]
                      /\ status[s] = "none"
  BY DEF Init, Stage, Untouched, Busy, Off
<1>4. ASSUME NEW s \in Subs PROVE StageOk(s) /\ RowOk(s)
  BY <1>3 DEF StageOk, RowOk, Untouched, Off
<1>5. ASSUME NEW s \in Subs PROVE PerfOk(s) /\ BenchOk(s) /\ OverlapOk(s)
  <2>1. perf[s].pc = "none" /\ clean[s].pc = "none" /\ ~started[s] /\ \A p \in Phases : bench[s][p].pc = "none"
    BY <1>3 DEF Untouched, Off
  <2> QED BY <1>3, <2>1 DEF PerfOk, BenchOk, OverlapOk, Asked, Live, Phases
<1> QED BY <1>1, <1>2, <1>4, <1>5 DEF OverlapInv, TimeInv, StageInv, PlaceInv

-----------------------------------------------------------------------------
(* What a failed call and a write of the row do.                           *)
LEMMA CallFailed ==
    ASSUME StoreTypes, NEW s \in Subs, CallFails(s)
    PROVE  faulted' \subseteq Subs /\ faulted' = faulted \cup {s} /\ dropped' = dropped /\ unremoved' = unremoved
BY DEF CallFails, StoreTypes

(* A status update writes the row of one submission, or fails and is       *)
(* remembered as a fault.                                                  *)
LEMMA RowWritten ==
    ASSUME StoreTypes, NEW s \in Subs, NEW new \in Statuses, UpdateStatus(s, new)
    PROVE  /\ status' \in [Subs -> Statuses] /\ faulted' \subseteq Subs /\ dropped' = dropped
           /\ faulted \subseteq faulted' /\ faulted' \subseteq faulted \cup {s}
           /\ \A t \in Subs \ {s} : status'[t] = status[t]
           /\ unremoved' = unremoved
           /\ status'[s] = new \/ (status'[s] = status[s] /\ s \in faulted')
BY DEF UpdateStatus, CallFails, StoreTypes, history

(* A removal takes the container away, or is remembered as one that        *)
(* failed.                                                                 *)
LEMMA Removal ==
    ASSUME StoreTypes, TimerTypes, NEW s \in Subs, RemoveContainer(s)
    PROVE  /\ container' \in [Subs -> BOOLEAN]
           /\ \A t \in Subs \ {s} : container'[t] = container[t]
           /\ ~container'[s] \/ (container'[s] = container[s] /\ s \in unremoved')
           /\ dropped' = dropped /\ faulted' = faulted /\ unremoved' \subseteq Subs
           /\ unremoved \subseteq unremoved' /\ unremoved' \subseteq unremoved \cup {s}
BY DEF RemoveContainer, StoreTypes, TimerTypes, history

(* What a step of process does to the workers.                             *)
LEMMA Advanced ==
    ASSUME Types, NEW w \in Workers, NEW st \in WorkerStages \ {"idle"}, work[w].pc # "idle",
           Goto(w, st), UNCHANGED <<popped, jobs>>
    PROVE  /\ PoolTypes' /\ work[w].sub \in Subs
           /\ work'[w].pc = st /\ work'[w].sub = work[w].sub
           /\ \A v \in Workers \ {w} : work'[v] = work[v]
<1>1. /\ work \in [Workers -> [pc : WorkerStages, sub : Subs \cup {Nobody}]]
      /\ work' = [work EXCEPT ![w] = [work[w] EXCEPT !.pc = st]]
      /\ work[w].sub \in Subs
  BY DEF Types, PoolTypes, Goto
<1>2. [work[w] EXCEPT !.pc = st] \in [pc : WorkerStages, sub : Subs \cup {Nobody}]
  BY <1>1
<1>3. /\ work'[w].pc = st /\ work'[w].sub = work[w].sub
      /\ \A v \in Workers \ {w} : work'[v] = work[v]
  BY <1>1
<1>4. work' \in [Workers -> [pc : WorkerStages, sub : Subs \cup {Nobody}]]
  BY <1>1, <1>2
<1>5. \A v \in Workers : work'[v].pc = "idle" <=> work'[v].sub = Nobody
  <2>1. work'[w].pc # "idle" /\ work'[w].sub # Nobody
    BY <1>1, <1>3, NobodyIsNoSub
  <2> QED BY <1>3, <2>1 DEF Types, PoolTypes
<1> QED BY <1>1, <1>3, <1>4, <1>5 DEF Types, PoolTypes

(* A worker that returns is idle and holds no job; the others go on.       *)
LEMMA Returned ==
    ASSUME Types, NEW w \in Workers, work[w].pc # "idle",
           Return(w), UNCHANGED <<popped, jobs>>
    PROVE  /\ PoolTypes' /\ work[w].sub \in Subs
           /\ work'[w].pc = "idle" /\ work'[w].sub = Nobody
           /\ \A v \in Workers \ {w} : work'[v] = work[v]
BY DEF Types, PoolTypes, Return, Idle, WorkerStages

(* A worker that receives takes the first job of the channel.              *)
LEMMA TakenUp ==
    ASSUME Types, NEW w \in Workers, Take(w)
    PROVE  /\ PoolTypes' /\ jobs \in Seq(Subs) /\ jobs # <<>> /\ jobs' = Tail(jobs)
           /\ work[w].pc = "idle" /\ work[w].sub = Nobody
           /\ work'[w].pc = "fetch" /\ work'[w].sub = Head(jobs) /\ Head(jobs) \in Subs
           /\ \A v \in Workers \ {w} : work'[v] = work[v]
           /\ UNCHANGED <<stores, popped, container, routines, bench, history>>
<1>1. /\ work[w].pc = "idle" /\ jobs # <<>> /\ jobs' = Tail(jobs) /\ popped' = popped
      /\ work' = [work EXCEPT ![w] = [pc |-> "fetch", sub |-> Head(jobs)]]
      /\ jobs \in Seq(Subs) /\ Len(jobs) <= Cardinality(Workers) /\ Cardinality(Workers) \in Nat
      /\ work \in [Workers -> [pc : WorkerStages, sub : Subs \cup {Nobody}]]
      /\ work[w].sub = Nobody
  BY LifecycleBounds, FS_CardinalityType DEF Take, Types, PoolTypes
<1>2. Head(jobs) \in Subs /\ Tail(jobs) \in Seq(Subs) /\ Len(Tail(jobs)) <= Len(jobs)
      /\ Len(jobs) \in Nat /\ Len(Tail(jobs)) \in Nat
  BY <1>1, PoppedFrom
<1>3. /\ work'[w].pc = "fetch" /\ work'[w].sub = Head(jobs)
      /\ \A v \in Workers \ {w} : work'[v] = work[v]
  BY <1>1
<1>4. work' \in [Workers -> [pc : WorkerStages, sub : Subs \cup {Nobody}]]
  BY <1>1, <1>2 DEF WorkerStages
<1>5. \A v \in Workers : work'[v].pc = "idle" <=> work'[v].sub = Nobody
  BY <1>2, <1>3, NobodyIsNoSub DEF Types, PoolTypes
<1>6. Len(jobs') <= Cardinality(Workers)
  BY <1>1, <1>2
<1> QED BY <1>1, <1>2, <1>3, <1>4, <1>5, <1>6 DEF Take, Types, PoolTypes

(* The names a step of process writes are statuses.                        *)
LEMMA FailureStatus ==
    ASSUME NEW err \in Errors
    PROVE  ClassifyContainerError(err) \in Terminal /\ ClassifyContainerError(err) \in Statuses
<1>1. err \in {"oom", "segfault", "unbound", "other"}
  BY LifecycleBounds
<1> QED BY <1>1 DEF ClassifyContainerError, Terminal, Statuses

-----------------------------------------------------------------------------
(* The stage of a submission is the stage of its worker, if it has one.    *)
LEMMA TheWorker ==
    ASSUME NEW wk, NEW s, NEW w \in Workers, wk[w].sub = s,
           \A v \in Workers : wk[v].sub = s => v = w
    PROVE  (CHOOSE v \in Workers : wk[v].sub = s) = w
OBVIOUS

(* The stage of a job that a worker holds is what the worker is doing.     *)
LEMMA StageOf ==
    ASSUME PlaceInv, NEW w \in Workers, work[w].sub \in Subs
    PROVE  /\ Stage(work[w].sub) = work[w].pc /\ work[w].pc # "idle"
           /\ handler[work[w].sub] = "done" /\ ~Waits(work[w].sub)
           /\ \A v \in Workers \ {w} : work[v].sub # work[w].sub
<1> DEFINE s == work[w].sub
<1>1. work[w].pc # "idle" /\ work[w].sub # Nobody
  BY NobodyIsNoSub DEF PlaceInv, Types, PoolTypes
<1>2. w \in Working(s)
  BY DEF Working
<1>3. handler[s] = "done" /\ ~Waits(s) /\ \A v \in Workers : work[v].sub = s => v = w
  BY <1>1, <1>2 DEF PlaceInv, OnePlace
<1>4. (CHOOSE v \in Workers : work[v].sub = s) = w
  BY <1>3, TheWorker
<1> QED BY <1>1, <1>2, <1>3, <1>4 DEF Stage

(* A submission's stage is a worker's only if it has a worker.             *)
LEMMA StageCases ==
    ASSUME PlaceInv, NEW s \in Subs
    PROVE  \/ Stage(s) = "new" /\ handler[s] # "done"
           \/ Stage(s) = "queued" /\ handler[s] = "done" /\ Waits(s)
           \/ Stage(s) = "gone" /\ handler[s] = "done" /\ ~Waits(s) /\ Working(s) = {}
           \/ /\ Stage(s) \in WorkerStages \ {"idle"} /\ handler[s] = "done" /\ ~Waits(s)
              /\ \E w \in Workers : work[w].sub = s /\ Stage(s) = work[w].pc
<1>1. CASE Working(s) = {}
  BY <1>1 DEF Stage
<1>2. CASE Working(s) # {}
  <2>1. PICK w \in Workers : work[w].sub = s
    BY <1>2 DEF Working
  <2>2. work[w].pc \in WorkerStages
    BY DEF PlaceInv, Types, PoolTypes
  <2> QED BY <2>1, <2>2, StageOf
<1> QED BY <1>1, <1>2

(* Steps that move no submission, except that worker w may advance.        *)
LEMMA Settled ==
    ASSUME PlaceInv, UNCHANGED <<queue, popped, jobs>>,
           NEW w \in Workers, NEW s, s = work[w].sub,
           \A v \in Workers : work'[v].sub = work[v].sub,
           \A v \in Workers \ {w} : work'[v].pc = work[v].pc,
           \A t \in Subs : handler'[t] = "done" <=> handler[t] = "done"
    PROVE  /\ OnePlace'
           /\ s \in Subs => Stage(s)' = work'[w].pc
           /\ \A t \in Subs \ {s} : Stage(t)' = Stage(t)
<1>1. \A t \in Subs : /\ Holds(queue, t)' <=> Holds(queue, t)
                      /\ Holds(jobs, t)' <=> Holds(jobs, t)
                      /\ Waits(t)' <=> Waits(t)
                      /\ Working(t)' = Working(t)
  BY DEF Holds, Waits, Working
<1>2. OnePlace'
  BY <1>1 DEF PlaceInv, OnePlace, NoTwice
<1>3. ASSUME NEW t \in Subs, NEW v \in Workers, work[v].sub = t PROVE Stage(t)' = work'[v].pc
  <2>1. handler[t] = "done" /\ ~Waits(t) /\ \A u \in Workers : work[u].sub = t => u = v
    BY <1>3, StageOf
  <2>2. (CHOOSE u \in Workers : work'[u].sub = t) = v
    BY <1>3, <2>1, TheWorker
  <2>3. v \in Working(t)
    BY <1>3 DEF Working
  <2> QED BY <1>1, <2>1, <2>2, <2>3 DEF Stage
<1>4. ASSUME NEW t \in Subs \ {s} PROVE Stage(t)' = Stage(t)
  <2>1. CASE Working(t) = {}
    BY <1>1, <2>1 DEF Stage
  <2>2. CASE Working(t) # {}
    <3>1. PICK v \in Workers : work[v].sub = t
      BY <2>2 DEF Working
    <3>2. Stage(t)' = work'[v].pc /\ Stage(t) = work[v].pc /\ v # w
      BY <1>3, <3>1, StageOf
    <3> QED BY <3>2
  <2> QED BY <2>1, <2>2
<1> QED BY <1>2, <1>3, <1>4

(* A step that moves no job changes no stage.                              *)
LEMMA Unmoved ==
    ASSUME PlaceInv, UNCHANGED <<queue, popped, jobs, work>>,
           \A s \in Subs : handler'[s] = "done" <=> handler[s] = "done"
    PROVE  OnePlace' /\ \A s \in Subs : Stage(s)' = Stage(s)
<1>1. PICK w \in Workers : TRUE
  BY LifecycleBounds
<1>2. PICK s : s = work[w].sub
  OBVIOUS
<1>3. /\ OnePlace'
      /\ s \in Subs => Stage(s)' = work'[w].pc
      /\ \A t \in Subs \ {s} : Stage(t)' = Stage(t)
  BY <1>2, Settled
<1> QED BY <1>2, <1>3, StageOf

(* A change of who waits where, the workers staying as they are.           *)
LEMMA Requeued ==
    ASSUME PlaceInv, UNCHANGED work, NoTwice(queue'), NoTwice(jobs'),
           \A s \in Subs : Waits(s)' => Working(s) = {},
           \A s \in Subs : handler'[s] = "done" \/ (~Waits(s)' /\ Working(s) = {}),
           \A s \in Subs : /\ Holds(queue', s) => popped' # s /\ ~Holds(jobs', s)
                           /\ popped' = s => ~Holds(jobs', s)
    PROVE  /\ OnePlace'
           /\ \A s \in Subs : Stage(s)' = IF handler'[s] # "done" THEN "new"
                                          ELSE IF Waits(s)' THEN "queued"
                                          ELSE IF Stage(s) \in {"new", "queued"} THEN "gone"
                                          ELSE Stage(s)
<1>1. \A s \in Subs : /\ Working(s)' = Working(s)
                      /\ Holds(queue, s)' = Holds(queue', s) /\ Holds(jobs, s)' = Holds(jobs', s)
  BY DEF Working, Holds
<1>2. NoTwice(queue)' /\ NoTwice(jobs)'
  BY DEF NoTwice
<1>3. OnePlace'
  BY <1>1, <1>2 DEF PlaceInv, OnePlace
<1>4. ASSUME NEW s \in Subs, handler'[s] = "done", ~Waits(s)'
      PROVE  Stage(s)' = IF Stage(s) \in {"new", "queued"} THEN "gone" ELSE Stage(s)
  <2>1. CASE Working(s) = {}
    <3>1. Stage(s)' = "gone"
      BY <1>1, <1>4, <2>1 DEF Stage
    <3>2. Stage(s) \in {"new", "queued", "gone"}
      BY <2>1 DEF Stage
    <3> QED BY <3>1, <3>2
  <2>2. CASE Working(s) # {}
    <3>1. PICK w \in Workers : work[w].sub = s
      BY <2>2 DEF Working
    <3>2. Stage(s) = work[w].pc /\ \A v \in Workers : work[v].sub = s => v = w
      BY <3>1, StageOf
    <3>3. (CHOOSE v \in Workers : work'[v].sub = s) = w
      BY <3>1, <3>2, TheWorker
    <3>4. Stage(s)' = work[w].pc
      BY <1>1, <1>4, <2>2, <3>3 DEF Stage
    <3>5. work[w].pc \notin {"new", "queued"}
      BY DEF PlaceInv, Types, PoolTypes, WorkerStages
    <3> QED BY <3>2, <3>4, <3>5
  <2> QED BY <2>1, <2>2
<1>5. \A s \in Subs : handler'[s] # "done" => Stage(s)' = "new"
  BY DEF Stage
<1>6. \A s \in Subs : (handler'[s] = "done" /\ Waits(s)') => Stage(s)' = "queued"
  BY DEF Stage
<1>7. \A s \in Subs : Stage(s)' = IF handler'[s] # "done" THEN "new"
                                          ELSE IF Waits(s)' THEN "queued"
                                          ELSE IF Stage(s) \in {"new", "queued"} THEN "gone"
                                          ELSE Stage(s)
  BY <1>4, <1>5, <1>6
<1> QED BY <1>3, <1>7

(* The handler hands s over, to the queue or to nobody.                    *)
LEMMA Accepted ==
    ASSUME PlaceInv, NEW s \in Subs, Enqueue(s)
    PROVE  /\ OnePlace' /\ Stage(s) = "new"
           /\ Stage(s)' = IF queue' = queue THEN "gone" ELSE "queued"
           /\ \A t \in Subs \ {s} : Stage(t)' = Stage(t)
<1>1. /\ handler[s] = "enqueue" /\ handler' = [handler EXCEPT ![s] = "done"]
      /\ handler \in [Subs -> {"none", "enqueue", "done"}] /\ queue \in Seq(Subs)
      /\ UNCHANGED <<popped, jobs, work>> /\ (queue' = Append(queue, s) \/ queue' = queue)
  BY DEF Enqueue, PlaceInv, Types, StoreTypes, pool
<1>2. /\ handler'[s] = "done" /\ ~Waits(s) /\ Working(s) = {} /\ Stage(s) = "new"
      /\ \A t \in Subs \ {s} : handler'[t] = handler[t]
  BY <1>1 DEF PlaceInv, OnePlace, Stage
<1>3. ASSUME queue' = queue PROVE \A t \in Subs : Waits(t)' = Waits(t)
  BY <1>1, <1>3 DEF Waits, Holds
<1>4. /\ Append(queue, s) # queue
      /\ \A t : Holds(Append(queue, s), t) <=> (Holds(queue, t) \/ t = s)
      /\ NoTwice(Append(queue, s))
  <2>1. NoTwice(queue) /\ ~Holds(queue, s)
    BY <1>2 DEF PlaceInv, OnePlace, Waits
  <2>2. Len(Append(queue, s)) = Len(queue) + 1 /\ Len(queue) \in Nat
    BY <1>1, Pushed
  <2> QED BY <1>1, <2>1, <2>2, Pushed
<1>5. ASSUME queue' = Append(queue, s) PROVE \A t \in Subs : Waits(t)' <=> (Waits(t) \/ t = s)
  <2>1. \A t : Waits(t)' <=> (Holds(queue', t) \/ popped' = t \/ Holds(jobs', t))
    BY DEF Waits, Holds
  <2> QED BY <1>1, <1>4, <1>5, <2>1 DEF Waits
<1>6. NoTwice(queue') /\ NoTwice(jobs')
  BY <1>1, <1>4 DEF PlaceInv, OnePlace
<1>7. \A t \in Subs : /\ Waits(t)' => Working(t) = {}
                      /\ handler'[t] = "done" \/ (~Waits(t)' /\ Working(t) = {})
  BY <1>1, <1>2, <1>3, <1>5 DEF PlaceInv, OnePlace
<1>8. \A t \in Subs : /\ Holds(queue', t) => popped' # t /\ ~Holds(jobs', t)
                      /\ popped' = t => ~Holds(jobs', t)
  BY <1>1, <1>2, <1>4 DEF PlaceInv, OnePlace, Waits
<1>9. /\ OnePlace'
      /\ \A t \in Subs : Stage(t)' = IF handler'[t] # "done" THEN "new"
                                     ELSE IF Waits(t)' THEN "queued"
                                     ELSE IF Stage(t) \in {"new", "queued"} THEN "gone"
                                     ELSE Stage(t)
  BY <1>1, <1>6, <1>7, <1>8, Requeued
<1>10. Stage(s)' = IF queue' = queue THEN "gone" ELSE "queued"
  BY <1>1, <1>2, <1>3, <1>4, <1>5, <1>9
<1>11. ASSUME NEW t \in Subs \ {s} PROVE Stage(t)' = Stage(t)
  <2>1. (Waits(t)' <=> Waits(t)) /\ handler'[t] = handler[t]
    BY <1>1, <1>2, <1>3, <1>5
  <2> QED BY <1>9, <2>1, StageCases DEF WorkerStages
<1> QED BY <1>2, <1>9, <1>10, <1>11

(* The dispatcher only moves a submission from one queue to the other.     *)
LEMMA Dispatched ==
    ASSUME PlaceInv, Pop \/ Push
    PROVE  OnePlace' /\ \A t \in Subs : Stage(t)' = Stage(t)
<1>0. /\ queue \in Seq(Subs) /\ jobs \in Seq(Subs) /\ popped \in Subs \cup {Nobody}
      /\ UNCHANGED <<handler, work>>
  BY DEF PlaceInv, Types, StoreTypes, PoolTypes, Pop, Push, stores
<1>1. CASE Pop
  <2>1. /\ popped = Nobody /\ queue # <<>> /\ popped' = Head(queue) /\ queue' = Tail(queue)
        /\ jobs' = jobs
    BY <1>1 DEF Pop
  <2>2. /\ Holds(queue, Head(queue)) /\ NoTwice(Tail(queue))
        /\ \A t : Holds(Tail(queue), t) <=> (Holds(queue, t) /\ t # Head(queue))
    BY <1>0, <2>1, PoppedFrom DEF PlaceInv, OnePlace
  <2>3. \A t \in Subs : Waits(t)' <=> Waits(t)
    <3>1. \A t : Waits(t)' <=> (Holds(queue', t) \/ popped' = t \/ Holds(jobs', t))
      BY DEF Waits, Holds
    <3> QED BY <2>1, <2>2, <3>1, NobodyIsNoSub DEF Waits
  <2>4. \A t \in Subs : /\ Holds(queue', t) => popped' # t /\ ~Holds(jobs', t)
                        /\ popped' = t => ~Holds(jobs', t)
    BY <2>1, <2>2 DEF PlaceInv, OnePlace
  <2>5. NoTwice(queue') /\ NoTwice(jobs')
    BY <2>1, <2>2 DEF PlaceInv, OnePlace
  <2> QED BY <1>0, <2>3, <2>4, <2>5, Requeued, StageCases DEF PlaceInv, OnePlace, WorkerStages
<1>2. CASE Push
  <2>1. popped \in Subs /\ jobs' = Append(jobs, popped) /\ popped' = Nobody /\ queue' = queue
    BY <1>0, <1>2 DEF Push, stores
  <2>2. ~Holds(jobs, popped) /\ ~Holds(queue, popped)
    BY <2>1 DEF PlaceInv, OnePlace
  <2>3. /\ NoTwice(Append(jobs, popped))
        /\ \A t : Holds(Append(jobs, popped), t) <=> (Holds(jobs, t) \/ t = popped)
    BY <1>0, <2>1, <2>2, Pushed DEF PlaceInv, OnePlace
  <2>4. \A t \in Subs : Waits(t)' <=> Waits(t)
    <3>1. \A t : Waits(t)' <=> (Holds(queue', t) \/ popped' = t \/ Holds(jobs', t))
      BY DEF Waits, Holds
    <3> QED BY <2>1, <2>3, <3>1, NobodyIsNoSub DEF Waits
  <2>5. \A t \in Subs : /\ Holds(queue', t) => popped' # t /\ ~Holds(jobs', t)
                        /\ popped' = t => ~Holds(jobs', t)
    BY <2>1, <2>2, <2>3, NobodyIsNoSub DEF PlaceInv, OnePlace
  <2>6. NoTwice(queue') /\ NoTwice(jobs')
    BY <2>1, <2>3 DEF PlaceInv, OnePlace
  <2> QED BY <1>0, <2>4, <2>5, <2>6, Requeued, StageCases DEF PlaceInv, OnePlace, WorkerStages
<1> QED BY <1>1, <1>2

(* A worker takes the first of jobs.                                       *)
LEMMA Taken ==
    ASSUME PlaceInv, NEW w \in Workers, Take(w), NEW s \in Subs, s = Head(jobs)
    PROVE  /\ OnePlace' /\ Stage(s) = "queued" /\ Stage(s)' = "fetch"
           /\ \A t \in Subs \ {s} : Stage(t)' = Stage(t)
<1>1. /\ jobs \in Seq(Subs) /\ jobs # <<>> /\ jobs' = Tail(jobs) /\ s \in Subs
      /\ work[w].sub = Nobody /\ work'[w].pc = "fetch" /\ work'[w].sub = s
      /\ \A v \in Workers \ {w} : work'[v] = work[v]
      /\ UNCHANGED <<handler, queue, popped>>
  BY TakenUp DEF PlaceInv, stores
<1>2. /\ Holds(jobs, s) /\ NoTwice(Tail(jobs))
      /\ \A t : Holds(Tail(jobs), t) <=> (Holds(jobs, t) /\ t # s)
  BY <1>1, PoppedFrom DEF PlaceInv, OnePlace
<1>3. /\ Waits(s) /\ Working(s) = {} /\ handler[s] = "done" /\ Stage(s) = "queued"
      /\ popped # s /\ ~Holds(queue, s)
  BY <1>1, <1>2 DEF PlaceInv, OnePlace, Waits, Stage
<1>4. \A t \in Subs : Waits(t)' <=> (Waits(t) /\ t # s)
  <2>1. \A t : Waits(t)' <=> (Holds(queue', t) \/ popped' = t \/ Holds(jobs', t))
    BY DEF Waits, Holds
  <2> QED BY <1>1, <1>2, <1>3, <2>1 DEF Waits
<1>5. Working(s)' = {w} /\ \A t \in Subs \ {s} : Working(t)' = Working(t)
  <2>1. \A v \in Workers \ {w} : work[v].sub # s
    BY <1>3 DEF Working
  <2> QED BY <1>1, <2>1, NobodyIsNoSub DEF Working
<1>6. OnePlace'
  <2>1. NoTwice(queue)' /\ NoTwice(jobs)'
    BY <1>1, <1>2 DEF PlaceInv, OnePlace, NoTwice
  <2>2. \A u, v \in Workers : (work'[u].sub = work'[v].sub /\ work'[u].sub # Nobody) => u = v
    <3>1. \A v \in Workers \ {w} : work'[v].sub # s
      BY <1>1, <1>3 DEF Working
    <3> QED BY <1>1, <3>1 DEF PlaceInv, OnePlace
  <2>3. \A t \in Subs : /\ Holds(queue, t)' <=> Holds(queue, t)
                        /\ Holds(jobs, t)' <=> (Holds(jobs, t) /\ t # s)
    BY <1>1, <1>2 DEF Holds
  <2>4. ASSUME NEW t \in Subs
        PROVE  /\ Waits(t)' => Working(t)' = {}
               /\ handler'[t] # "done" => ~Waits(t)' /\ Working(t)' = {}
    BY <1>1, <1>3, <1>4, <1>5 DEF PlaceInv, OnePlace
  <2> QED BY <1>1, <2>1, <2>2, <2>3, <2>4 DEF PlaceInv, OnePlace
<1>7. Stage(s)' = "fetch"
  <2>1. \A v \in Workers : work'[v].sub = s => v = w
    BY <1>5 DEF Working
  <2>2. (CHOOSE v \in Workers : work'[v].sub = s) = w
    BY <1>1, <2>1, TheWorker
  <2> QED BY <1>1, <1>3, <1>4, <1>5, <2>2 DEF Stage
<1>8. ASSUME NEW t \in Subs \ {s} PROVE Stage(t)' = Stage(t)
  <2>1. (Waits(t)' <=> Waits(t)) /\ Working(t)' = Working(t) /\ handler'[t] = handler[t]
    BY <1>1, <1>4, <1>5
  <2>2. CASE Working(t) = {}
    BY <2>1, <2>2 DEF Stage
  <2>3. CASE Working(t) # {}
    <3>1. PICK v \in Workers : work[v].sub = t
      BY <2>3 DEF Working
    <3>2. v # w /\ Stage(t) = work[v].pc /\ \A u \in Workers : work[u].sub = t => u = v
      BY <1>1, <3>1, StageOf, NobodyIsNoSub
    <3>3. work'[v] = work[v] /\ \A u \in Workers : work'[u].sub = t => u = v
      BY <1>1, <3>2
    <3>4. (CHOOSE u \in Workers : work'[u].sub = t) = v
      BY <3>1, <3>3, TheWorker
    <3>5. handler[t] = "done" /\ ~Waits(t)
      BY <3>1, StageOf
    <3> QED BY <2>1, <2>3, <3>2, <3>3, <3>4, <3>5 DEF Stage
  <2> QED BY <2>2, <2>3
<1> QED BY <1>3, <1>6, <1>7, <1>8

(* A worker is done with s.                                                *)
LEMMA Dismissed ==
    ASSUME PlaceInv, UNCHANGED <<handler, queue, popped, jobs>>,
           NEW w \in Workers, NEW s \in Subs, s = work[w].sub, Return(w)
    PROVE  OnePlace' /\ Stage(s)' = "gone" /\ \A t \in Subs \ {s} : Stage(t)' = Stage(t)
<1>1. /\ work[w].pc # "idle" /\ handler[s] = "done" /\ ~Waits(s)
      /\ \A v \in Workers \ {w} : work[v].sub # s
  BY StageOf
<1>2. /\ work'[w].sub = Nobody /\ \A v \in Workers \ {w} : work'[v] = work[v]
  BY <1>1, Returned DEF PlaceInv
<1>3. \A t \in Subs : /\ Holds(queue, t)' <=> Holds(queue, t)
                      /\ Holds(jobs, t)' <=> Holds(jobs, t)
                      /\ Waits(t)' <=> Waits(t)
  BY DEF Holds, Waits
<1>4. Working(s)' = {} /\ \A t \in Subs \ {s} : Working(t)' = Working(t)
  BY <1>1, <1>2, NobodyIsNoSub DEF Working
<1>5. OnePlace'
  <2>1. NoTwice(queue)' /\ NoTwice(jobs)'
    BY DEF PlaceInv, OnePlace, NoTwice
  <2>2. \A u, v \in Workers : (work'[u].sub = work'[v].sub /\ work'[u].sub # Nobody) => u = v
    BY <1>2 DEF PlaceInv, OnePlace
  <2> QED BY <1>3, <1>4, <2>1, <2>2 DEF PlaceInv, OnePlace
<1>6. Stage(s)' = "gone"
  BY <1>1, <1>3, <1>4 DEF Stage
<1>7. ASSUME NEW t \in Subs \ {s} PROVE Stage(t)' = Stage(t)
  <2>1. (Waits(t)' <=> Waits(t)) /\ Working(t)' = Working(t) /\ handler'[t] = handler[t]
    BY <1>3, <1>4
  <2>2. CASE Working(t) = {}
    BY <2>1, <2>2 DEF Stage
  <2>3. CASE Working(t) # {}
    <3>1. PICK v \in Workers : work[v].sub = t
      BY <2>3 DEF Working
    <3>2. v # w /\ Stage(t) = work[v].pc /\ \A u \in Workers : work[u].sub = t => u = v
      BY <3>1, StageOf
    <3>3. work'[v] = work[v] /\ \A u \in Workers : work'[u].sub = t => u = v
      BY <1>2, <3>2, NobodyIsNoSub
    <3>4. (CHOOSE u \in Workers : work'[u].sub = t) = v
      BY <3>1, <3>3, TheWorker
    <3>5. handler[t] = "done" /\ ~Waits(t)
      BY <3>1, StageOf
    <3> QED BY <2>1, <2>3, <3>2, <3>3, <3>4, <3>5 DEF Stage
  <2> QED BY <2>2, <2>3
<1> QED BY <1>5, <1>6, <1>7

(* After a restart a submission is in Redis, or has no place.              *)
LEMMA Restarted ==
    ASSUME PlaceInv, Restart
    PROVE  /\ OnePlace'
           /\ \A s \in Subs : \/ Stage(s)' = Stage(s) /\ Stage(s) \in {"new", "queued"}
                              \/ Stage(s)' = "gone" /\ Stage(s) = "gone"
                              \/ Stage(s)' = "gone" /\ s \in dropped'
<1>1. /\ popped' = Nobody /\ jobs' = <<>> /\ work' = [w \in Workers |-> Idle]
      /\ UNCHANGED <<handler, queue>> /\ dropped' = dropped \cup {s \in Subs : InMemory(s)}
  BY DEF Restart, stores
<1>2. \A s \in Subs : Working(s)' = {}
  BY <1>1, NobodyIsNoSub DEF Working, Idle
<1>3. \A s \in Subs : /\ Holds(queue, s)' <=> Holds(queue, s) /\ ~Holds(jobs, s)'
                      /\ Waits(s)' <=> Holds(queue, s)
  BY <1>1, NobodyIsNoSub DEF Holds, Waits
<1>4. OnePlace'
  <2>1. NoTwice(queue)' /\ NoTwice(jobs)'
    BY <1>1 DEF PlaceInv, OnePlace, NoTwice
  <2>2. \A u, v \in Workers : work'[u].sub = Nobody
    BY <1>1 DEF Idle
  <2>3. \A s \in Subs : popped' # s
    BY <1>1, NobodyIsNoSub
  <2>4. \A s \in Subs : handler[s] # "done" => ~Holds(queue, s)
    BY DEF PlaceInv, OnePlace, Waits
  <2> QED BY <1>1, <1>2, <1>3, <2>1, <2>2, <2>3, <2>4 DEF PlaceInv, OnePlace
<1>5. ASSUME NEW s \in Subs
      PROVE  \/ Stage(s)' = Stage(s) /\ Stage(s) \in {"new", "queued"}
             \/ Stage(s)' = "gone" /\ Stage(s) = "gone"
             \/ Stage(s)' = "gone" /\ s \in dropped'
  <2>1. CASE handler[s] # "done"
    BY <1>1, <2>1 DEF Stage
  <2>2. CASE handler[s] = "done" /\ Holds(queue, s)
    BY <1>1, <1>3, <2>2 DEF Stage, Waits
  <2>3. CASE handler[s] = "done" /\ ~Holds(queue, s)
    <3>1. Stage(s)' = "gone"
      BY <1>1, <1>2, <1>3, <2>3 DEF Stage
    <3>2. CASE ~Waits(s) /\ Working(s) = {}
      BY <2>3, <3>1, <3>2 DEF Stage
    <3>3. CASE Waits(s) \/ Working(s) # {}
      <4>1. InMemory(s)
        BY <2>3, <3>3 DEF InMemory, Waits, Holds
      <4> QED BY <1>1, <3>1, <4>1
    <3> QED BY <3>2, <3>3
  <2> QED BY <2>1, <2>2, <2>3
<1> QED BY <1>4, <1>5

-----------------------------------------------------------------------------
(* A step seen from one submission.                                        *)
Moves(s, from, to) == Stage(s) = from /\ Stage(s)' = to
SameFault(s) ==
    /\ s \in faulted' <=> s \in faulted
    /\ s \in dropped' <=> s \in dropped
    /\ s \in unremoved' <=> s \in unremoved
SameRow(s) == status'[s] = status[s] /\ SameFault(s)
SameTimers(s) ==
    perf'[s] = perf[s] /\ clean'[s] = clean[s] /\ started'[s] = started[s] /\ bench'[s] = bench[s]
Same(s) == Stage(s)' = Stage(s) /\ SameRow(s) /\ container'[s] = container[s] /\ SameTimers(s)
Others(s) == \A t \in Subs \ {s} : Same(t)

(* The row is written, or the call for s failed.                           *)
Row(s, new) ==
    /\ dropped' = dropped /\ (s \in faulted => s \in faulted') /\ unremoved' = unremoved
    /\ status'[s] \in new \/ (status'[s] = status[s] /\ s \in faulted')
RowFailed(s) ==
    dropped' = dropped /\ status'[s] = status[s] /\ s \in faulted' /\ unremoved' = unremoved

(* The container is removed, or the removal failed.                        *)
Removed(s) ==
    /\ status'[s] = status[s] /\ (s \in faulted' <=> s \in faulted)
    /\ (s \in dropped' <=> s \in dropped) /\ (s \in unremoved => s \in unremoved')
    /\ ~container'[s] \/ (container'[s] = container[s] /\ s \in unremoved')

(* What the handler and process do before they ask the fleet.              *)
Early(s) ==
    /\ SameTimers(s)
    /\ \/ /\ container'[s] = container[s]
          /\ \/ Moves(s, "new", "new") /\ Row(s, {"PENDING"})
             \/ Moves(s, "new", "queued") /\ SameRow(s)
             \/ Moves(s, "new", "gone") /\ RowFailed(s)
             \/ Moves(s, "queued", "fetch") /\ SameRow(s)
             \/ Moves(s, "fetch", "gone") /\ RowFailed(s)
             \/ Moves(s, "fetch", "build") /\ Row(s, {"BUILDING"})
             \/ Moves(s, "build", "start") /\ SameRow(s)
             \/ Moves(s, "build", "gone") /\ Row(s, Terminal)
             \/ Moves(s, "probe", "trigger") /\ Row(s, {"READY"})
             \/ Moves(s, "start", "discard") /\ Row(s, Terminal)
             \/ Moves(s, "probe", "discard") /\ Row(s, Terminal)
       \/ Moves(s, "start", "probe") /\ SameRow(s) /\ container'[s]
       \/ Moves(s, "discard", "gone") /\ Removed(s)

(* What process leaves behind: the performance goroutine, ...              *)
Triggered(s) ==
    /\ Moves(s, "trigger", "mark") /\ SameRow(s) /\ container'[s] = container[s]
    /\ bench[s]["correctness"].pc # "none"
    /\ perf'[s] = [pc |-> "sleep", left |-> Correctness + Gap]
    /\ clean'[s] = clean[s] /\ started'[s] = started[s] /\ bench'[s] = bench[s]

(* ... and the cleanup goroutine.                                          *)
Marked(s) ==
    /\ Moves(s, "mark", "gone") /\ Row(s, {"RUNNING"}) /\ container'[s] = container[s]
    /\ clean'[s] = [pc |-> "await", left |-> MaxWait]
    /\ perf'[s] = perf[s] /\ started'[s] = started[s] /\ bench'[s] = bench[s]

(* A step of one of the two.                                               *)
RoutineStep(s) ==
    /\ Stage(s)' = Stage(s) /\ bench'[s] = bench[s]
    /\ \/ /\ perf[s] = [pc |-> "sleep", left |-> 0] /\ started'[s] = started[s]
          /\ perf'[s] = [pc |-> "dispatch", left |-> Window]
          /\ clean'[s] = clean[s] /\ SameRow(s) /\ container'[s] = container[s]
       \/ /\ perf[s].pc = "dispatch" /\ started'[s]
          /\ perf'[s] = [pc |-> "over", left |-> 0]
          /\ clean'[s] = clean[s] /\ SameRow(s) /\ container'[s] = container[s]
       \/ /\ perf'[s] = perf[s] /\ started'[s] = started[s]
          /\ \/ /\ clean[s].pc = "await" /\ started[s]
                /\ clean'[s] = [pc |-> "countdown", left |-> Performance + Grace]
                /\ SameRow(s) /\ container'[s] = container[s]
             \/ /\ clean[s].pc \in {"await", "countdown"} /\ clean[s].left = 0
                /\ clean'[s] = [pc |-> "finish", left |-> 0]
                /\ SameRow(s) /\ container'[s] = container[s]
             \/ /\ clean[s].pc = "finish" /\ clean'[s] = [pc |-> "remove", left |-> 0]
                /\ container'[s] = container[s]
                /\ \/ status[s] = "RUNNING" /\ Row(s, {"SUCCESS"})
                   \/ status[s] # "RUNNING" /\ SameRow(s)
             \/ /\ clean[s].pc = "remove" /\ clean'[s] = [pc |-> "over", left |-> 0]
                /\ Removed(s)

(* A step of the fleet.                                                    *)
BenchStep(s, p) ==
    /\ Stage(s)' = Stage(s) /\ SameRow(s) /\ container'[s] = container[s]
    /\ perf'[s] = perf[s] /\ clean'[s] = clean[s] /\ started'[s] = started[s]
    /\ \A r \in Phases \ {p} : bench'[s][r] = bench[s][r]
    /\ \/ /\ \/ p = "correctness" /\ Stage(s) = "trigger"
             \/ p = "performance" /\ perf[s].pc = "dispatch"
          /\ bench[s][p].pc = "none" /\ bench'[s][p] = [pc |-> "waiting", left |-> MaxDelay]
       \/ bench[s][p].pc = "waiting" /\ bench'[s][p] = [pc |-> "running", left |-> Duration(p)]
       \/ bench[s][p] = [pc |-> "running", left |-> 0] /\ bench'[s][p] = [pc |-> "over", left |-> 0]

(* The handler and the dispatcher.                                         *)
LEMMA HandlerSteps ==
    ASSUME PlaceInv
    PROVE  /\ \A s \in Subs : InsertRow(s) \/ Enqueue(s) => Types' /\ OnePlace' /\ Others(s) /\ Early(s)
           /\ Pop \/ Push => Types' /\ OnePlace' /\ \A s \in Subs : Same(s)
<1> USE DEF routines, history
<1>0. StoreTypes /\ PoolTypes /\ TimerTypes
  BY DEF PlaceInv, Types
<1>1. ASSUME NEW s \in Subs, InsertRow(s) PROVE Types' /\ OnePlace' /\ Others(s) /\ Early(s)
  <2>1. /\ handler[s] = "none" /\ handler' = [handler EXCEPT ![s] = "enqueue"]
        /\ status' = [status EXCEPT ![s] = "PENDING"]
        /\ UNCHANGED <<queue, popped, jobs, work, container, started, perf, clean, bench>>
        /\ UNCHANGED <<dropped, faulted, unremoved>>
    BY <1>1 DEF InsertRow, pool
  <2>2. StoreTypes' /\ PoolTypes' /\ TimerTypes'
    BY <1>0, <2>1 DEF StoreTypes, PoolTypes, TimerTypes, Statuses
  <2>3. /\ \A t \in Subs : handler'[t] = "done" <=> handler[t] = "done"
        /\ status'[s] = "PENDING" /\ \A t \in Subs \ {s} : status'[t] = status[t]
    BY <1>0, <2>1 DEF StoreTypes
  <2>4. OnePlace' /\ \A t \in Subs : Stage(t)' = Stage(t)
    BY <2>1, <2>3, Unmoved
  <2>5. Stage(s) = "new"
    BY <2>1 DEF Stage
  <2>6. Others(s)
    BY <2>1, <2>3, <2>4 DEF Others, Same, SameRow, SameFault, SameTimers
  <2>7. Early(s)
    BY <2>1, <2>3, <2>4, <2>5 DEF Early, SameTimers, Moves, Row
  <2> QED BY <2>2, <2>4, <2>6, <2>7 DEF Types
<1>2. ASSUME NEW s \in Subs, Enqueue(s) PROVE Types' /\ OnePlace' /\ Others(s) /\ Early(s)
  <2>1. /\ handler[s] = "enqueue" /\ handler' = [handler EXCEPT ![s] = "done"]
        /\ UNCHANGED <<status, popped, jobs, work, container, started, perf, clean, bench>>
        /\ \/ queue' = Append(queue, s) /\ dropped' = dropped /\ faulted' = faulted
           \/ queue' = queue /\ dropped' = dropped /\ faulted' = faulted \cup {s}
        /\ unremoved' = unremoved
    BY <1>2 DEF Enqueue, CallFails, pool
  <2>2. Append(queue, s) \in Seq(Subs) /\ Append(queue, s) # queue
    <3>1. Append(queue, s) \in Seq(Subs) /\ Len(Append(queue, s)) = Len(queue) + 1 /\ Len(queue) \in Nat
      BY <1>0, Pushed DEF StoreTypes
    <3> QED BY <3>1
  <2>3. StoreTypes' /\ PoolTypes' /\ TimerTypes'
    BY <1>0, <2>1, <2>2 DEF StoreTypes, PoolTypes, TimerTypes
  <2>4. /\ OnePlace' /\ Stage(s) = "new"
        /\ Stage(s)' = IF queue' = queue THEN "gone" ELSE "queued"
        /\ \A t \in Subs \ {s} : Stage(t)' = Stage(t)
    BY <1>2, Accepted
  <2>5. Others(s)
    BY <2>1, <2>4 DEF Others, Same, SameRow, SameFault, SameTimers
  <2>6. Early(s)
    BY <2>1, <2>2, <2>4 DEF Early, SameTimers, Moves, SameRow, SameFault, RowFailed
  <2> QED BY <2>3, <2>4, <2>5, <2>6 DEF Types
<1>3. ASSUME Pop \/ Push PROVE Types' /\ OnePlace' /\ \A s \in Subs : Same(s)
  <2>1. /\ UNCHANGED <<status, handler, work, container, started, perf, clean, bench, dropped, faulted, unremoved>>
        /\ \/ /\ popped = Nobody /\ queue # <<>> /\ popped' = Head(queue) /\ queue' = Tail(queue)
              /\ jobs' = jobs
           \/ /\ popped # Nobody /\ Len(jobs) < Cardinality(Workers)
              /\ jobs' = Append(jobs, popped) /\ popped' = Nobody /\ queue' = queue
    BY <1>3 DEF Pop, Push, stores
  <2>2. StoreTypes' /\ PoolTypes'
    <3>1. Cardinality(Workers) \in Nat
      BY LifecycleBounds, FS_CardinalityType
    <3>2. CASE queue # <<>> /\ popped' = Head(queue) /\ queue' = Tail(queue) /\ jobs' = jobs
      <4>1. Head(queue) \in Subs /\ Tail(queue) \in Seq(Subs)
        BY <1>0, <3>2 DEF StoreTypes
      <4> QED BY <1>0, <2>1, <3>2, <4>1 DEF StoreTypes, PoolTypes
    <3>3. CASE /\ popped # Nobody /\ Len(jobs) < Cardinality(Workers)
               /\ jobs' = Append(jobs, popped) /\ popped' = Nobody /\ queue' = queue
      <4>1. Append(jobs, popped) \in Seq(Subs) /\ Len(Append(jobs, popped)) = Len(jobs) + 1
        BY <1>0, <3>3, Pushed DEF PoolTypes
      <4>2. Len(jobs) \in Nat
        BY <1>0 DEF PoolTypes
      <4> QED BY <1>0, <2>1, <3>1, <3>3, <4>1, <4>2 DEF StoreTypes, PoolTypes
    <3> QED BY <2>1, <3>2, <3>3
  <2>3. TimerTypes'
    BY <1>0, <2>1 DEF TimerTypes
  <2>4. OnePlace' /\ \A t \in Subs : Stage(t)' = Stage(t)
    BY <1>3, Dispatched
  <2> QED BY <2>1, <2>2, <2>3, <2>4 DEF Types, Same, SameRow, SameFault, SameTimers
<1> QED BY <1>1, <1>2, <1>3

(* The steps of process.                                                   *)
LEMMA WorkerSteps ==
    ASSUME PlaceInv, NEW w \in Workers, NEW s \in Subs, s = work[w].sub,
           WorkerStep(w), ~Take(w)
    PROVE  Types' /\ OnePlace' /\ Others(s) /\ (Early(s) \/ Triggered(s) \/ Marked(s))
<1> USE DEF stores, history
<1>0. StoreTypes /\ PoolTypes /\ TimerTypes /\ Types
  BY DEF PlaceInv, Types
<1>1. Stage(s) = work[w].pc /\ work[w].pc # "idle"
  BY StageOf
<1>2. ASSUME NEW st \in WorkerStages \ {"idle"}, Goto(w, st), UNCHANGED <<handler, queue, popped, jobs>>
      PROVE  /\ PoolTypes' /\ OnePlace' /\ Stage(s)' = st
             /\ \A t \in Subs \ {s} : Stage(t)' = Stage(t)
  <2>1. /\ PoolTypes' /\ work'[w].pc = st /\ work'[w].sub = work[w].sub
        /\ \A v \in Workers \ {w} : work'[v] = work[v]
    BY <1>0, <1>1, <1>2, Advanced
  <2> QED BY <1>2, <2>1, Settled
<1>3. ASSUME Return(w), UNCHANGED <<handler, queue, popped, jobs>>
      PROVE  /\ PoolTypes' /\ OnePlace' /\ Stage(s)' = "gone"
             /\ \A t \in Subs \ {s} : Stage(t)' = Stage(t)
  BY <1>0, <1>1, <1>3, Returned, Dismissed
<1>4. ASSUME NEW new \in Statuses, UpdateStatus(s, new), UNCHANGED <<handler, queue>>
      PROVE  /\ StoreTypes' /\ Row(s, {new})
             /\ \A t \in Subs \ {s} : SameRow(t)
  <2>1. /\ status' \in [Subs -> Statuses] /\ faulted' \subseteq Subs /\ dropped' = dropped
        /\ faulted \subseteq faulted' /\ faulted' \subseteq faulted \cup {s}
        /\ \A t \in Subs \ {s} : status'[t] = status[t]
        /\ status'[s] = new \/ (status'[s] = status[s] /\ s \in faulted')
        /\ unremoved' = unremoved
    BY <1>0, <1>4, RowWritten
  <2> QED BY <1>0, <1>4, <2>1 DEF StoreTypes, Row, SameRow, SameFault
<1>5. ASSUME UNCHANGED <<status, handler, queue, history>>
      PROVE  StoreTypes' /\ \A t \in Subs : SameRow(t)
  BY <1>0, <1>5 DEF StoreTypes, SameRow, SameFault
<1>6. ASSUME UNCHANGED <<container, routines, bench>>
      PROVE  TimerTypes' /\ \A t \in Subs : SameTimers(t) /\ container'[t] = container[t]
  BY <1>0, <1>6 DEF TimerTypes, SameTimers, routines
<1>7. ASSUME container' = [container EXCEPT ![s] = TRUE], UNCHANGED <<routines, bench>>
      PROVE  /\ TimerTypes' /\ \A t \in Subs : SameTimers(t)
             /\ container'[s] /\ \A t \in Subs \ {s} : container'[t] = container[t]
  BY <1>0, <1>7 DEF TimerTypes, SameTimers, routines
<1> DEFINE Goal == Types' /\ OnePlace' /\ Others(s) /\ (Early(s) \/ Triggered(s) \/ Marked(s))
<1>8. CASE Fetch(w)
  <2>1. work[w].pc = "fetch" /\ UNCHANGED <<handler, queue, popped, jobs, container, routines, bench>>
    BY <1>8 DEF Fetch, At
  <2>2. CASE CallFails(s) /\ Return(w) /\ UNCHANGED status
    <3>1. faulted' \subseteq Subs /\ faulted' = faulted \cup {s} /\ dropped' = dropped /\ unremoved' = unremoved
      BY <1>0, <2>2, CallFailed
    <3>2. StoreTypes' /\ RowFailed(s) /\ \A t \in Subs \ {s} : SameRow(t)
      BY <1>0, <2>1, <2>2, <3>1 DEF StoreTypes, RowFailed, SameRow, SameFault
    <3> QED BY <1>1, <1>3, <1>6, <2>1, <2>2, <3>2 DEF Types, Others, Same, Early, Moves
  <2>3. CASE UpdateStatus(s, "BUILDING") /\ Goto(w, "build")
    BY <1>1, <1>2, <1>4, <1>6, <2>1, <2>3 DEF Types, Others, Same, Early, Moves, Statuses, WorkerStages
  <2> QED BY <1>8, <2>2, <2>3 DEF Fetch
<1>9. CASE BuildImage(w)
  BY <1>1, <1>2, <1>5, <1>6, <1>9 DEF BuildImage, At, pool, Types, Others, Same, Early, Moves, WorkerStages
<1>10. CASE BuildFails(w)
  <2>1. /\ work[w].pc = "build" /\ Return(w) /\ UpdateStatus(s, "FAILED_SYSTEM")
        /\ UNCHANGED <<handler, queue, popped, jobs, container, routines, bench>>
    BY <1>10 DEF BuildFails, At
  <2>2. StoreTypes' /\ Row(s, {"FAILED_SYSTEM"}) /\ \A t \in Subs \ {s} : SameRow(t)
    BY <1>4, <2>1 DEF Statuses, Terminal
  <2>3. Row(s, Terminal)
    BY <2>2 DEF Row, Terminal
  <2> QED BY <1>1, <1>3, <1>6, <2>1, <2>2, <2>3 DEF Types, Others, Same, Early, Moves
<1>11. CASE StartContainer(w)
  <2>1. /\ work[w].pc = "start" /\ Goto(w, "probe") /\ container' = [container EXCEPT ![s] = TRUE]
        /\ UNCHANGED <<stores, popped, jobs, routines, bench, history>>
    BY <1>11 DEF StartContainer, At
  <2> QED BY <1>1, <1>2, <1>5, <1>7, <2>1 DEF Types, Others, Same, Early, Moves, WorkerStages
<1>12. CASE SandboxReady(w)
  <2>1. /\ work[w].pc = "probe" /\ Goto(w, "trigger") /\ UpdateStatus(s, "READY")
        /\ UNCHANGED <<handler, queue, popped, jobs, container, routines, bench>>
    BY <1>12 DEF SandboxReady, At
  <2> QED BY <1>1, <1>2, <1>4, <1>6, <2>1 DEF Types, Others, Same, Early, Moves, Statuses, WorkerStages
<1>13. ASSUME NEW err \in Errors, RunFails(w, err) PROVE Goal
  <2>1. /\ work[w].pc \in {"start", "probe"} /\ Goto(w, "discard")
        /\ UpdateStatus(s, ClassifyContainerError(err))
        /\ UNCHANGED <<handler, queue, popped, jobs, container, routines, bench>>
    BY <1>13 DEF RunFails, At, AfterRunFailure
  <2>2. StoreTypes' /\ Row(s, Terminal) /\ \A t \in Subs \ {s} : SameRow(t)
    BY <1>4, <2>1, FailureStatus DEF Row
  <2> QED BY <1>1, <1>2, <1>6, <2>1, <2>2 DEF Types, Others, Same, Early, Moves, WorkerStages
<1>14. CASE Discard(w)
  <2>1. /\ work[w].pc = "discard" /\ Return(w) /\ RemoveContainer(s)
        /\ UNCHANGED <<status, handler, queue, popped, jobs, routines, bench>>
    BY <1>14 DEF Discard, At
  <2>2. /\ container' \in [Subs -> BOOLEAN]
        /\ \A t \in Subs \ {s} : container'[t] = container[t]
        /\ ~container'[s] \/ (container'[s] = container[s] /\ s \in unremoved')
        /\ dropped' = dropped /\ faulted' = faulted /\ unremoved' \subseteq Subs
        /\ unremoved \subseteq unremoved' /\ unremoved' \subseteq unremoved \cup {s}
    BY <1>0, <2>1, Removal
  <2>3. /\ StoreTypes' /\ TimerTypes' /\ Removed(s)
        /\ \A t \in Subs : SameTimers(t) /\ (t # s => SameRow(t))
    BY <1>0, <2>1, <2>2 DEF StoreTypes, TimerTypes, Removed, SameTimers, SameRow, SameFault, routines
  <2> QED BY <1>1, <1>3, <2>1, <2>2, <2>3 DEF Types, Others, Same, Early, Moves
<1>15. CASE Trigger(w)
  <2>1. /\ work[w].pc = "trigger" /\ bench[s]["correctness"].pc # "none" /\ Goto(w, "mark")
        /\ perf' = [perf EXCEPT ![s] = [pc |-> "sleep", left |-> Correctness + Gap]]
        /\ UNCHANGED <<stores, popped, jobs, container, started, clean, bench, history>>
    BY <1>15 DEF Trigger, At
  <2>2. TimerTypes' /\ perf'[s] = [pc |-> "sleep", left |-> Correctness + Gap]
        /\ \A t \in Subs \ {s} : perf'[t] = perf[t]
    <3>1. [pc |-> "sleep", left |-> Correctness + Gap] \in PerfTimers
      BY LifecycleBounds DEF PerfTimers
    <3> QED BY <1>0, <2>1, <3>1 DEF TimerTypes
  <2> QED BY <1>1, <1>2, <1>5, <2>1, <2>2 DEF Types, Others, Same, SameTimers, Triggered, Moves, WorkerStages
<1>16. CASE MarkRunning(w)
  <2>1. /\ work[w].pc = "mark" /\ UpdateStatus(s, "RUNNING") /\ Return(w)
        /\ clean' = [clean EXCEPT ![s] = [pc |-> "await", left |-> MaxWait]]
        /\ UNCHANGED <<handler, queue, popped, jobs, container, started, perf, bench>>
    BY <1>16 DEF MarkRunning, At
  <2>2. TimerTypes' /\ clean'[s] = [pc |-> "await", left |-> MaxWait]
        /\ \A t \in Subs \ {s} : clean'[t] = clean[t]
    <3>1. [pc |-> "await", left |-> MaxWait] \in CleanTimers
      BY LifecycleBounds DEF CleanTimers, MaxWait
    <3> QED BY <1>0, <2>1, <3>1 DEF TimerTypes
  <2>3. StoreTypes' /\ Row(s, {"RUNNING"}) /\ \A t \in Subs \ {s} : SameRow(t)
    BY <1>4, <2>1 DEF Statuses
  <2> QED BY <1>1, <1>3, <2>1, <2>2, <2>3 DEF Types, Others, Same, SameTimers, Marked, Moves
<1> QED BY <1>8, <1>9, <1>10, <1>11, <1>12, <1>13, <1>14, <1>15, <1>16 DEF WorkerStep

(* A worker receives a job: it changes its place, and its stage becomes an *)
(* early one.                                                              *)
LEMMA TakeStep ==
    ASSUME PlaceInv, NEW w \in Workers, Take(w)
    PROVE  Types' /\ OnePlace' /\ \E s \in Subs : Others(s) /\ Early(s)
<1>0. StoreTypes /\ PoolTypes /\ TimerTypes /\ Types
  BY DEF PlaceInv, Types
<1>1. /\ PoolTypes' /\ Head(jobs) \in Subs
      /\ UNCHANGED <<status, handler, queue, container, started, perf, clean, bench, dropped, faulted, unremoved>>
  BY <1>0, TakenUp DEF stores, routines, history
<1>2. PICK s \in Subs : s = Head(jobs)
  BY <1>1
<1>3. /\ OnePlace' /\ Stage(s) = "queued" /\ Stage(s)' = "fetch"
      /\ \A t \in Subs \ {s} : Stage(t)' = Stage(t)
  BY <1>2, Taken
<1>4. Types'
  BY <1>0, <1>1 DEF Types, StoreTypes, TimerTypes
<1>5. Others(s) /\ Early(s)
  BY <1>1, <1>3 DEF Others, Same, Early, Moves, SameRow, SameFault, SameTimers
<1> QED BY <1>3, <1>4, <1>5

(* The steps of the two goroutines of a submission.                        *)
LEMMA RoutineSteps ==
    ASSUME PlaceInv, NEW s \in Subs, PerfWakes(s) \/ PerfReturns(s) \/ CleanupStep(s)
    PROVE  Types' /\ OnePlace' /\ Others(s) /\ RoutineStep(s)
<1> USE DEF stores, pool, history
<1>0. StoreTypes /\ PoolTypes /\ TimerTypes /\ Types
  BY DEF PlaceInv, Types
<1>1. ASSUME UNCHANGED <<handler, queue, pool, bench>>
      PROVE  /\ PoolTypes' /\ OnePlace' /\ \A t \in Subs : Stage(t)' = Stage(t)
             /\ \A t \in Subs : bench'[t] = bench[t]
  <2>1. UNCHANGED <<queue, popped, jobs, work>> /\ \A t \in Subs : handler'[t] = "done" <=> handler[t] = "done"
    BY <1>1
  <2>2. OnePlace' /\ \A t \in Subs : Stage(t)' = Stage(t)
    BY <2>1, Unmoved
  <2> QED BY <1>0, <1>1, <2>2 DEF PoolTypes
<1>2. ASSUME UNCHANGED <<status, handler, queue, history>>
      PROVE  StoreTypes' /\ \A t \in Subs : SameRow(t)
  BY <1>0, <1>2 DEF StoreTypes, SameRow, SameFault
<1>3. ASSUME NEW x \in PerfTimers, perf' = [perf EXCEPT ![s] = x]
      PROVE  /\ perf' \in [Subs -> PerfTimers] /\ perf'[s] = x
             /\ \A t \in Subs \ {s} : perf'[t] = perf[t]
  BY <1>0, <1>3 DEF TimerTypes
<1>4. ASSUME NEW x \in CleanTimers, clean' = [clean EXCEPT ![s] = x]
      PROVE  /\ clean' \in [Subs -> CleanTimers] /\ clean'[s] = x
             /\ \A t \in Subs \ {s} : clean'[t] = clean[t]
  BY <1>0, <1>4 DEF TimerTypes
<1>5. /\ [pc |-> "dispatch", left |-> Window] \in PerfTimers
      /\ [pc |-> "over", left |-> 0] \in PerfTimers
      /\ [pc |-> "countdown", left |-> Performance + Grace] \in CleanTimers
      /\ [pc |-> "finish", left |-> 0] \in CleanTimers
      /\ [pc |-> "remove", left |-> 0] \in CleanTimers
      /\ [pc |-> "over", left |-> 0] \in CleanTimers
  BY LifecycleBounds DEF PerfTimers, CleanTimers
<1>6. CASE PerfWakes(s)
  <2>1. /\ perf[s] = [pc |-> "sleep", left |-> 0]
        /\ perf' = [perf EXCEPT ![s] = [pc |-> "dispatch", left |-> Window]]
        /\ UNCHANGED <<status, handler, queue, pool, container, started, clean, bench, history>>
    BY <1>6 DEF PerfWakes
  <2>2. /\ perf' \in [Subs -> PerfTimers] /\ perf'[s] = [pc |-> "dispatch", left |-> Window]
        /\ \A t \in Subs \ {s} : perf'[t] = perf[t]
    BY <1>3, <1>5, <2>1
  <2>3. TimerTypes'
    BY <1>0, <2>1, <2>2 DEF TimerTypes
  <2> HIDE DEF pool, history, stores
  <2>4. Others(s)
    BY <1>1, <1>2, <2>1, <2>2 DEF Others, Same, SameTimers
  <2>5. RoutineStep(s)
    BY <1>1, <1>2, <2>1, <2>2 DEF RoutineStep
  <2> QED BY <1>1, <1>2, <2>1, <2>3, <2>4, <2>5 DEF Types
<1>7. CASE PerfReturns(s)
  <2>1. /\ perf[s].pc = "dispatch"
        /\ perf' = [perf EXCEPT ![s] = [pc |-> "over", left |-> 0]]
        /\ started' = [started EXCEPT ![s] = TRUE]
        /\ UNCHANGED <<status, handler, queue, pool, container, clean, bench, history>>
    BY <1>7 DEF PerfReturns
  <2>2. /\ perf' \in [Subs -> PerfTimers] /\ perf'[s] = [pc |-> "over", left |-> 0]
        /\ \A t \in Subs \ {s} : perf'[t] = perf[t]
    BY <1>3, <1>5, <2>1
  <2>3. /\ started' \in [Subs -> BOOLEAN] /\ started'[s] = TRUE
        /\ \A t \in Subs \ {s} : started'[t] = started[t]
    BY <1>0, <2>1 DEF TimerTypes
  <2>4. TimerTypes'
    BY <1>0, <2>1, <2>2, <2>3 DEF TimerTypes
  <2> HIDE DEF pool, history, stores
  <2>5. Others(s)
    BY <1>1, <1>2, <2>1, <2>2, <2>3 DEF Others, Same, SameTimers
  <2>6. RoutineStep(s)
    BY <1>1, <1>2, <2>1, <2>2, <2>3 DEF RoutineStep
  <2> QED BY <1>1, <1>2, <2>1, <2>4, <2>5, <2>6 DEF Types
<1>8. CASE CleanupCountdown(s) \/ CleanupDue(s)
  <2>1. PICK x \in CleanTimers :
          /\ clean' = [clean EXCEPT ![s] = x]
          /\ \/ /\ clean[s].pc = "await" /\ started[s]
                /\ x = [pc |-> "countdown", left |-> Performance + Grace]
             \/ /\ clean[s].pc \in {"await", "countdown"} /\ clean[s].left = 0
                /\ x = [pc |-> "finish", left |-> 0]
    BY <1>5, <1>8 DEF CleanupCountdown, CleanupDue
  <2>2. UNCHANGED <<status, handler, queue, pool, container, started, perf, bench, history>>
    BY <1>8 DEF CleanupCountdown, CleanupDue
  <2>3. /\ clean' \in [Subs -> CleanTimers] /\ clean'[s] = x
        /\ \A t \in Subs \ {s} : clean'[t] = clean[t]
    BY <1>4, <2>1
  <2>4. TimerTypes'
    BY <1>0, <2>2, <2>3 DEF TimerTypes
  <2> HIDE DEF pool, history, stores
  <2>5. Others(s)
    BY <1>1, <1>2, <2>2, <2>3 DEF Others, Same, SameTimers
  <2>6. RoutineStep(s)
    BY <1>1, <1>2, <2>1, <2>2, <2>3 DEF RoutineStep
  <2> QED BY <1>1, <1>2, <2>2, <2>4, <2>5, <2>6 DEF Types
<1>9. CASE CleanupMarks(s)
  <2>1. /\ clean[s].pc = "finish"
        /\ clean' = [clean EXCEPT ![s] = [pc |-> "remove", left |-> 0]]
        /\ UNCHANGED <<handler, queue, pool, container, started, perf, bench>>
    BY <1>9 DEF CleanupMarks
  <2>2. /\ clean' \in [Subs -> CleanTimers] /\ clean'[s] = [pc |-> "remove", left |-> 0]
        /\ \A t \in Subs \ {s} : clean'[t] = clean[t]
    BY <1>4, <1>5, <2>1
  <2>3. TimerTypes'
    BY <1>0, <2>1, <2>2 DEF TimerTypes
  <2>4. /\ StoreTypes' /\ \A t \in Subs \ {s} : SameRow(t)
        /\ \/ status[s] = "RUNNING" /\ Row(s, {"SUCCESS"})
           \/ status[s] # "RUNNING" /\ SameRow(s)
    <3>1. CASE status[s] = "RUNNING" /\ UpdateStatus(s, "SUCCESS")
      <4>1. "SUCCESS" \in Statuses
        BY DEF Statuses, Terminal
      <4>2. /\ status' \in [Subs -> Statuses] /\ faulted' \subseteq Subs /\ dropped' = dropped
            /\ faulted \subseteq faulted' /\ faulted' \subseteq faulted \cup {s}
            /\ \A t \in Subs \ {s} : status'[t] = status[t]
            /\ status'[s] = "SUCCESS" \/ (status'[s] = status[s] /\ s \in faulted')
            /\ unremoved' = unremoved
        BY <1>0, <3>1, <4>1, RowWritten
      <4> QED BY <1>0, <2>1, <3>1, <4>2 DEF StoreTypes, Row, SameRow, SameFault
    <3>2. CASE status[s] # "RUNNING" /\ UNCHANGED <<status, history>>
      BY <1>2, <2>1, <3>2
    <3> QED BY <1>9, <3>1, <3>2 DEF CleanupMarks, StillRunning
  <2> HIDE DEF pool, history, stores
  <2>5. Others(s)
    BY <1>1, <2>1, <2>2, <2>4 DEF Others, Same, SameTimers
  <2>6. RoutineStep(s)
    BY <1>1, <2>1, <2>2, <2>4 DEF RoutineStep
  <2> QED BY <1>1, <2>1, <2>3, <2>4, <2>5, <2>6 DEF Types
<1>10. CASE CleanupRemoves(s)
  <2>1. /\ clean[s].pc = "remove"
        /\ clean' = [clean EXCEPT ![s] = [pc |-> "over", left |-> 0]]
        /\ RemoveContainer(s)
        /\ UNCHANGED <<status, handler, queue, pool, started, perf, bench>>
    BY <1>10 DEF CleanupRemoves
  <2>2. /\ clean' \in [Subs -> CleanTimers] /\ clean'[s] = [pc |-> "over", left |-> 0]
        /\ \A t \in Subs \ {s} : clean'[t] = clean[t]
    BY <1>4, <1>5, <2>1
  <2> HIDE DEF pool, history, stores
  <2>3. /\ container' \in [Subs -> BOOLEAN]
        /\ \A t \in Subs \ {s} : container'[t] = container[t]
        /\ ~container'[s] \/ (container'[s] = container[s] /\ s \in unremoved')
        /\ dropped' = dropped /\ faulted' = faulted /\ unremoved' \subseteq Subs
        /\ unremoved \subseteq unremoved' /\ unremoved' \subseteq unremoved \cup {s}
    BY <1>0, <2>1, Removal
  <2>4. TimerTypes' /\ StoreTypes'
    BY <1>0, <2>1, <2>2, <2>3 DEF TimerTypes, StoreTypes
  <2>5. Removed(s) /\ \A t \in Subs \ {s} : SameRow(t)
    BY <2>1, <2>3 DEF Removed, SameRow, SameFault
  <2>6. Others(s)
    BY <1>1, <2>1, <2>2, <2>3, <2>5 DEF Others, Same, SameTimers
  <2>7. RoutineStep(s)
    BY <1>1, <2>1, <2>2, <2>5 DEF RoutineStep
  <2> QED BY <1>1, <2>1, <2>4, <2>6, <2>7 DEF Types
<1> QED BY <1>6, <1>7, <1>8, <1>9, <1>10 DEF CleanupStep

(* The steps of the fleet.                                                 *)
LEMMA FleetSteps ==
    ASSUME PlaceInv, NEW s \in Subs, NEW p \in Phases, FleetAccepts(s, p) \/ FleetStep(s, p)
    PROVE  Types' /\ OnePlace' /\ Others(s) /\ BenchStep(s, p)
<1>0. StoreTypes /\ PoolTypes /\ TimerTypes /\ Types
  BY DEF PlaceInv, Types
<1>1. PICK x \in BenchTimers :
        /\ bench' = [bench EXCEPT ![s][p] = x]
        /\ \/ Dispatching(s, p) /\ bench[s][p].pc = "none" /\ x = [pc |-> "waiting", left |-> MaxDelay]
           \/ bench[s][p].pc = "waiting" /\ x = [pc |-> "running", left |-> Duration(p)]
           \/ bench[s][p] = [pc |-> "running", left |-> 0] /\ x = [pc |-> "over", left |-> 0]
  <2>1. /\ [pc |-> "waiting", left |-> MaxDelay] \in BenchTimers
        /\ [pc |-> "running", left |-> Duration(p)] \in BenchTimers
        /\ [pc |-> "over", left |-> 0] \in BenchTimers
    BY LifecycleBounds DEF BenchTimers, Duration
  <2> QED BY <2>1 DEF FleetAccepts, FleetStep, BenchmarkStarts, BenchmarkEnds, Duration
<1>2. /\ UNCHANGED <<status, handler, queue, popped, jobs, work, container, started, perf, clean>>
      /\ UNCHANGED <<dropped, faulted, unremoved>>
  BY DEF FleetAccepts, FleetStep, BenchmarkStarts, BenchmarkEnds, stores, pool, routines, history
<1>3. /\ bench' \in [Subs -> [Phases -> BenchTimers]] /\ bench'[s][p] = x
      /\ \A r \in Phases \ {p} : bench'[s][r] = bench[s][r]
      /\ \A t \in Subs \ {s} : bench'[t] = bench[t]
  BY <1>0, <1>1 DEF TimerTypes
<1>4. Types'
  BY <1>0, <1>2, <1>3 DEF Types, StoreTypes, PoolTypes, TimerTypes
<1>5. OnePlace' /\ \A t \in Subs : Stage(t)' = Stage(t)
  BY <1>2, Unmoved
<1>6. Others(s)
  BY <1>2, <1>3, <1>5 DEF Others, Same, SameRow, SameFault, SameTimers
<1>7. Dispatching(s, p) => \/ p = "correctness" /\ Stage(s) = "trigger"
                           \/ p = "performance" /\ perf[s].pc = "dispatch"
  <2>1. CASE p = "correctness"
    <3> SUFFICES ASSUME Dispatching(s, p) PROVE Stage(s) = "trigger"
      BY <2>1
    <3>1. PICK w \in Workers : work[w] = [pc |-> "trigger", sub |-> s]
      BY <2>1 DEF Dispatching
    <3>2. work[w].pc = "trigger" /\ work[w].sub = s
      BY <3>1
    <3> QED BY <3>2, StageOf
  <2>2. CASE p # "correctness"
    BY <2>2 DEF Dispatching, Phases
  <2> QED BY <2>1, <2>2
<1>8. BenchStep(s, p)
  BY <1>1, <1>2, <1>3, <1>5, <1>7 DEF BenchStep, SameRow, SameFault
<1> QED BY <1>4, <1>5, <1>6, <1>8

(* A tick of the clock, seen from one submission.                          *)
Ticks(s) ==
    /\ Stage(s)' = Stage(s) /\ SameRow(s) /\ container'[s] = container[s] /\ started'[s] = started[s]
    /\ perf'[s].pc = perf[s].pc /\ clean'[s].pc = clean[s].pc
    /\ perf[s] = Off => perf'[s] = Off
    /\ clean[s] = Off => clean'[s] = Off
    /\ perf[s].pc \in {"sleep", "dispatch"} => perf[s].left > 0 /\ perf'[s].left = perf[s].left - 1
    /\ clean[s].pc \in {"await", "countdown"} => clean[s].left > 0 /\ clean'[s].left = clean[s].left - 1
    /\ ~(clean[s].pc = "await" /\ started[s])
    /\ \A p \in Phases :
          /\ bench'[s][p].pc = bench[s][p].pc
          /\ bench[s][p] = Off => bench'[s][p] = Off
          /\ Live(s, p) => bench[s][p].left > 0 /\ bench'[s][p].left = bench[s][p].left - 1

(* One timer in a tick.                                                    *)
LEMMA OneTick ==
    ASSUME NEW t \in PerfTimers \cup CleanTimers \cup BenchTimers, Timed(t) => t.left > 0
    PROVE  /\ t \in PerfTimers => After(t) \in PerfTimers
           /\ t \in CleanTimers => After(t) \in CleanTimers
           /\ t \in BenchTimers => After(t) \in BenchTimers
           /\ After(t).pc = t.pc
           /\ t = Off => After(t) = Off
           /\ t.pc \in {"sleep", "dispatch", "await", "countdown", "waiting", "running"}
                 => t.left > 0 /\ After(t).left = t.left - 1
<1>1. CASE Timed(t)
  <2>1. After(t) = [t EXCEPT !.left = t.left - 1] /\ t.left > 0 /\ t.left - 1 \in Nat
    BY <1>1 DEF After, PerfTimers, CleanTimers, BenchTimers
  <2>2. t # Off
    BY <1>1 DEF Timed, Off
  <2> QED BY <2>1, <2>2 DEF PerfTimers, CleanTimers, BenchTimers
<1>2. CASE ~Timed(t)
  BY <1>2 DEF After, Timed
<1> QED BY <1>1, <1>2

(* Time passes: no job moves, and the timers go down together.             *)
LEMMA TickStep ==
    ASSUME PlaceInv, Tick
    PROVE  Types' /\ OnePlace' /\ \A s \in Subs : Ticks(s)
<1>0. StoreTypes /\ PoolTypes /\ TimerTypes /\ Types
  BY DEF PlaceInv, Types
<1>1. /\ UNCHANGED <<status, handler, queue, popped, jobs, work, container, started, dropped, faulted, unremoved>>
      /\ \A s \in Subs : ~(clean[s].pc = "await" /\ started[s])
      /\ perf' = [s \in Subs |-> After(perf[s])]
      /\ clean' = [s \in Subs |-> After(clean[s])]
      /\ bench' = [s \in Subs |-> [p \in Phases |-> After(bench[s][p])]]
  BY DEF Tick, stores, pool, history
<1>2. ASSUME NEW s \in Subs
      PROVE  /\ Timed(perf[s]) => perf[s].left > 0
             /\ Timed(clean[s]) => clean[s].left > 0
             /\ \A p \in Phases : Timed(bench[s][p]) => bench[s][p].left > 0
  <2>1. \A t \in Timers : Timed(t) => t.left > 0
    BY DEF Tick
  <2>2. perf[s] \in Timers /\ clean[s] \in Timers /\ \A p \in Phases : bench[s][p] \in Timers
    BY DEF Timers
  <2> QED BY <2>1, <2>2
<1>3. ASSUME NEW s \in Subs
      PROVE  /\ perf'[s] \in PerfTimers /\ perf'[s].pc = perf[s].pc
             /\ perf[s] = Off => perf'[s] = Off
             /\ perf[s].pc \in {"sleep", "dispatch"} => perf[s].left > 0 /\ perf'[s].left = perf[s].left - 1
  <2>1. perf[s] \in PerfTimers /\ perf'[s] = After(perf[s])
    BY <1>0, <1>1 DEF TimerTypes
  <2> QED BY <1>2, <2>1, OneTick
<1>4. ASSUME NEW s \in Subs
      PROVE  /\ clean'[s] \in CleanTimers /\ clean'[s].pc = clean[s].pc
             /\ clean[s] = Off => clean'[s] = Off
             /\ clean[s].pc \in {"await", "countdown"} => clean[s].left > 0 /\ clean'[s].left = clean[s].left - 1
  <2>1. clean[s] \in CleanTimers /\ clean'[s] = After(clean[s])
    BY <1>0, <1>1 DEF TimerTypes
  <2> QED BY <1>2, <2>1, OneTick
<1>5. ASSUME NEW s \in Subs, NEW p \in Phases
      PROVE  /\ bench'[s][p] \in BenchTimers /\ bench'[s][p].pc = bench[s][p].pc
             /\ bench[s][p] = Off => bench'[s][p] = Off
             /\ Live(s, p) => bench[s][p].left > 0 /\ bench'[s][p].left = bench[s][p].left - 1
  <2>1. bench[s][p] \in BenchTimers /\ bench'[s][p] = After(bench[s][p])
    BY <1>0, <1>1 DEF TimerTypes
  <2> QED BY <1>2, <2>1, OneTick DEF Live
<1>6. TimerTypes'
  <2>1. perf' \in [Subs -> PerfTimers] /\ clean' \in [Subs -> CleanTimers]
    BY <1>1, <1>3, <1>4
  <2>2. bench' \in [Subs -> [Phases -> BenchTimers]]
    BY <1>1, <1>5
  <2> QED BY <1>0, <1>1, <2>1, <2>2 DEF TimerTypes
<1>7. StoreTypes' /\ PoolTypes'
  BY <1>0, <1>1 DEF StoreTypes, PoolTypes
<1>8. OnePlace' /\ \A t \in Subs : Stage(t)' = Stage(t)
  BY <1>1, Unmoved
<1>9. \A s \in Subs : Ticks(s)
  BY <1>1, <1>3, <1>4, <1>5, <1>8 DEF Ticks, SameRow, SameFault
<1> QED BY <1>6, <1>7, <1>8, <1>9 DEF Types

(* A restart, seen from one submission.                                    *)
Restarts(s) ==
    /\ \/ Stage(s)' = Stage(s) /\ Stage(s) \in {"new", "queued"}
       \/ Stage(s)' = "gone" /\ Stage(s) = "gone"
       \/ Stage(s)' = "gone" /\ s \in dropped'
    /\ perf'[s] = Off /\ clean'[s] = Off /\ started'[s] = started[s] /\ bench'[s] = bench[s]
    /\ status'[s] = status[s] /\ container'[s] = container[s] /\ (s \in faulted' <=> s \in faulted)
    /\ (s \in dropped => s \in dropped') /\ (s \in unremoved' <=> s \in unremoved)
    /\ (Stage(s) \in WorkerStages \/ Busy(s)) => s \in dropped'

(* A restart: a job in memory is dropped with its goroutines, a job in the *)
(* queue keeps its place.                                                  *)
LEMMA RestartStep ==
    ASSUME PlaceInv, Restart
    PROVE  Types' /\ OnePlace' /\ \A s \in Subs : Restarts(s)
<1>0. StoreTypes /\ PoolTypes /\ TimerTypes /\ Types
  BY DEF PlaceInv, Types
<1>1. /\ popped' = Nobody /\ jobs' = <<>> /\ work' = [w \in Workers |-> Idle]
      /\ perf' = [s \in Subs |-> Off] /\ clean' = [s \in Subs |-> Off]
      /\ dropped' = dropped \cup {s \in Subs : InMemory(s)}
      /\ UNCHANGED <<status, handler, queue, container, started, bench, faulted, unremoved>>
  BY DEF Restart, stores
<1>2. StoreTypes'
  BY <1>0, <1>1 DEF StoreTypes
<1>3. PoolTypes'
  <2>1. Cardinality(Workers) \in Nat
    BY LifecycleBounds, FS_CardinalityType
  <2> QED BY <1>1, <2>1 DEF PoolTypes, Idle, WorkerStages
<1>4. TimerTypes'
  BY <1>0, <1>1 DEF TimerTypes, PerfTimers, CleanTimers, Off
<1>5. ASSUME NEW s \in Subs PROVE Restarts(s)
  <2>1. \/ Stage(s)' = Stage(s) /\ Stage(s) \in {"new", "queued"}
        \/ Stage(s)' = "gone" /\ Stage(s) = "gone"
        \/ Stage(s)' = "gone" /\ s \in dropped'
    BY Restarted
  <2>2. (Stage(s) \in WorkerStages \/ Busy(s)) => s \in dropped'
    <3>1. Busy(s) => InMemory(s)
      BY DEF Busy, InMemory
    <3>2. Stage(s) \in WorkerStages => InMemory(s)
      <4>1. Stage(s) \in WorkerStages => \E w \in Workers : work[w].sub = s
        BY StageCases DEF WorkerStages
      <4> QED BY <4>1 DEF InMemory, Working
    <3> QED BY <1>1, <3>1, <3>2
  <2> QED BY <1>1, <2>1, <2>2 DEF Restarts
<1> QED BY <1>2, <1>3, <1>4, <1>5, Restarted DEF Types

(* Every step is one of these.                                             *)
LEMMA StepsOfSubmissions ==
    ASSUME PlaceInv, [Next]_vars
    PROVE  /\ Types' /\ OnePlace'
           /\ \/ \A s \in Subs : Same(s)
              \/ \E s \in Subs : /\ Others(s)
                                 /\ \/ Early(s) \/ Triggered(s) \/ Marked(s) \/ RoutineStep(s)
                                    \/ \E p \in Phases : BenchStep(s, p)
              \/ \A s \in Subs : Ticks(s)
              \/ \A s \in Subs : Restarts(s)
<1> DEFINE Goal ==
           /\ Types' /\ OnePlace'
           /\ \/ \A s \in Subs : Same(s)
              \/ \E s \in Subs : /\ Others(s)
                                 /\ \/ Early(s) \/ Triggered(s) \/ Marked(s) \/ RoutineStep(s)
                                    \/ \E p \in Phases : BenchStep(s, p)
              \/ \A s \in Subs : Ticks(s)
              \/ \A s \in Subs : Restarts(s)
<1>1. ASSUME NEW s \in Subs, InsertRow(s) \/ Enqueue(s) PROVE Goal
  BY <1>1, HandlerSteps
<1>2. ASSUME DispatcherStep PROVE Goal
  BY <1>2, HandlerSteps DEF DispatcherStep
<1>3. ASSUME NEW w \in Workers, WorkerStep(w) PROVE Goal
  <2>1. CASE Take(w)
    BY <2>1, TakeStep
  <2>2. CASE ~Take(w)
    <3>1. work[w].pc # "idle"
      BY <1>3, <2>2 DEF WorkerStep, Fetch, BuildImage, BuildFails, StartContainer, SandboxReady,
                        RunFails, Discard, Trigger, MarkRunning, At
    <3>2. PICK s \in Subs : s = work[w].sub
      BY <3>1 DEF PlaceInv, Types, PoolTypes
    <3>3. Types' /\ OnePlace' /\ Others(s) /\ (Early(s) \/ Triggered(s) \/ Marked(s))
      BY <1>3, <2>2, <3>2, WorkerSteps
    <3> QED BY <3>3
  <2> QED BY <2>1, <2>2
<1>4. ASSUME NEW s \in Subs, PerfWakes(s) \/ PerfReturns(s) \/ CleanupStep(s) PROVE Goal
  BY <1>4, RoutineSteps
<1>5. ASSUME NEW s \in Subs, NEW p \in Phases, FleetAccepts(s, p) \/ FleetStep(s, p) PROVE Goal
  BY <1>5, FleetSteps
<1>6. ASSUME Tick PROVE Goal
  BY <1>6, TickStep
<1>7. ASSUME Restart PROVE Goal
  BY <1>7, RestartStep
<1>8. ASSUME UNCHANGED vars PROVE Goal
  <2>1. /\ UNCHANGED <<status, handler, queue, popped, jobs, work, container, started, perf, clean, bench>>
        /\ UNCHANGED <<dropped, faulted, unremoved>>
    BY <1>8 DEF vars, stores, pool, routines, history
  <2>2. Types'
    BY <2>1 DEF PlaceInv, Types, StoreTypes, PoolTypes, TimerTypes
  <2>3. OnePlace' /\ \A t \in Subs : Stage(t)' = Stage(t)
    BY <2>1, Unmoved
  <2> QED BY <2>1, <2>2, <2>3 DEF Same, SameRow, SameFault, SameTimers
<1> HIDE DEF Goal
<1>9. Goal
  BY <1>1, <1>2, <1>3, <1>4, <1>5, <1>6, <1>7, <1>8 DEF Next
<1> QED BY <1>9 DEF Goal

-----------------------------------------------------------------------------
(* A step that is none of its business leaves a submission as it was.      *)
LEMMA Unaffected ==
    ASSUME NEW s \in Subs, Same(s)
    PROVE  /\ StageOk(s) => StageOk(s)'
           /\ RowOk(s) => RowOk(s)'
           /\ PerfOk(s) => PerfOk(s)'
           /\ BenchOk(s) => BenchOk(s)'
           /\ OverlapOk(s) => OverlapOk(s)'
<1>1. /\ Stage(s)' = Stage(s) /\ status'[s] = status[s] /\ container'[s] = container[s]
      /\ perf'[s] = perf[s] /\ clean'[s] = clean[s] /\ started'[s] = started[s]
      /\ bench'[s] = bench[s]
      /\ (s \in faulted' <=> s \in faulted) /\ (s \in dropped' <=> s \in dropped)
      /\ (s \in unremoved' <=> s \in unremoved)
  BY DEF Same, SameRow, SameFault, SameTimers
<1>2. /\ Busy(s)' <=> Busy(s)
      /\ Untouched(s)' <=> Untouched(s)
      /\ PerfLeft(s)' = PerfLeft(s)
      /\ s \in Harmed' <=> s \in Harmed
  BY <1>1 DEF Busy, Untouched, PerfLeft, Harmed
<1>3. \A p \in Phases : (Live(s, p)' <=> Live(s, p)) /\ Left(s, p)' = Left(s, p)
  BY <1>1 DEF Live, Left
<1>4. StageOk(s) => StageOk(s)'
  BY <1>1, <1>2 DEF StageOk
<1>5. RowOk(s) => RowOk(s)'
  BY <1>1, <1>2 DEF RowOk
<1>6. PerfOk(s) => PerfOk(s)'
  BY <1>1, <1>2 DEF PerfOk
<1>7. BenchOk(s) => BenchOk(s)'
  BY <1>1, <1>3 DEF BenchOk
<1>8. OverlapOk(s) => OverlapOk(s)'
  <2>1. "correctness" \in Phases
    BY DEF Phases
  <2> QED BY <1>1, <1>3, <2>1 DEF OverlapOk, Asked
<1> QED BY <1>4, <1>5, <1>6, <1>7, <1>8

(* The types of what belongs to one submission.                            *)
LEMMA OfOne ==
    ASSUME Types, NEW s \in Subs
    PROVE  /\ perf[s] \in PerfTimers /\ perf[s].left \in Nat
           /\ perf[s].pc \in {"none", "sleep", "dispatch", "over"}
           /\ clean[s] \in CleanTimers /\ clean[s].left \in Nat
           /\ clean[s].pc \in {"none", "await", "countdown", "finish", "remove", "over"}
           /\ \A p \in Phases : /\ bench[s][p] \in BenchTimers /\ bench[s][p].left \in Nat
                                /\ bench[s][p].pc \in {"none", "waiting", "running", "over"}
           /\ status[s] \in Statuses /\ started[s] \in BOOLEAN /\ container[s] \in BOOLEAN
BY DEF Types, StoreTypes, TimerTypes, PerfTimers, CleanTimers, BenchTimers

(* The submission a step is about keeps its stage in order, ...            *)
LEMMA StageOkStep ==
    ASSUME PlaceInv, NEW s \in Subs, StageOk(s),
           \/ Early(s) \/ Triggered(s) \/ Marked(s) \/ RoutineStep(s)
           \/ \E p \in Phases : BenchStep(s, p)
           \/ Ticks(s) \/ Restarts(s)
    PROVE  StageOk(s)'
<1>1. CASE Early(s)
  <2>1. /\ SameTimers(s)
        /\ Stage(s) \in {"new", "queued", "fetch", "build", "start", "probe", "discard"}
        /\ Stage(s)' \in {"new", "queued", "fetch", "build", "start", "probe", "discard", "trigger", "gone"}
    BY <1>1 DEF Early, Moves
  <2>2. Untouched(s) /\ Untouched(s)'
    BY <2>1 DEF StageOk, Untouched, SameTimers
  <2>3. ~Busy(s)'
    BY <2>2 DEF Untouched, Busy, Off
  <2> QED BY <2>1, <2>2, <2>3 DEF StageOk, Untouched, Phases
<1>2. CASE Triggered(s)
  <2>1. Stage(s) = "trigger" /\ Stage(s)' = "mark" /\ clean'[s] = clean[s] /\ perf'[s].pc = "sleep"
    BY <1>2 DEF Triggered, Moves
  <2> QED BY <2>1 DEF StageOk
<1>3. CASE Marked(s)
  <2>1. Stage(s) = "mark" /\ Stage(s)' = "gone" /\ perf'[s] = perf[s]
    BY <1>3 DEF Marked, Moves
  <2> QED BY <2>1 DEF StageOk
<1>4. CASE RoutineStep(s)
  <2>1. Stage(s)' = Stage(s) /\ ~Untouched(s) /\ Stage(s) # "trigger"
    BY <1>4 DEF RoutineStep, Untouched, Off, StageOk
  <2>2. Stage(s) = "mark" => clean'[s] = Off
    BY <1>4 DEF RoutineStep, StageOk, Off
  <2>3. Busy(s)' => Busy(s) /\ perf[s].pc # "none"
    BY <1>4 DEF RoutineStep, Busy, StageOk
  <2>4. perf[s].pc # "none" => perf'[s].pc # "none"
    BY <1>4 DEF RoutineStep
  <2> QED BY <2>1, <2>2, <2>3, <2>4 DEF StageOk
<1>5. ASSUME NEW p \in Phases, BenchStep(s, p) PROVE StageOk(s)'
  <2>1. Stage(s)' = Stage(s) /\ perf'[s] = perf[s] /\ clean'[s] = clean[s] /\ started'[s] = started[s]
    BY <1>5 DEF BenchStep
  <2>2. ~Untouched(s) \/ Stage(s) = "trigger"
    BY <1>5 DEF BenchStep, Untouched, Off
  <2>3. Stage(s) = "trigger" => bench'[s]["performance"] = Off
    <3>1. SUFFICES ASSUME Stage(s) = "trigger" PROVE bench'[s]["performance"] = Off
      OBVIOUS
    <3>2. perf[s] = Off /\ bench[s]["performance"] = Off
      BY <3>1 DEF StageOk
    <3>3. p # "performance"
      BY <1>5, <3>2 DEF BenchStep, Off
    <3> QED BY <1>5, <3>2, <3>3 DEF BenchStep, Phases
  <2>4. Busy(s)' <=> Busy(s)
    BY <2>1 DEF Busy
  <2> QED BY <2>1, <2>2, <2>3, <2>4 DEF StageOk
<1>6. CASE Ticks(s)
  <2>1. Untouched(s) => Untouched(s)'
    BY <1>6 DEF Ticks, Untouched
  <2>2. Busy(s)' <=> Busy(s)
    BY <1>6 DEF Ticks, Busy
  <2> QED BY <1>6, <2>1, <2>2 DEF Ticks, StageOk, Phases
<1>7. CASE Restarts(s)
  <2>1. ~Busy(s)'
    BY <1>7 DEF Restarts, Busy, Off
  <2>2. Stage(s)' \in {"new", "queued"} => Stage(s) = Stage(s)'
    BY <1>7 DEF Restarts
  <2>3. Untouched(s) => Untouched(s)'
    BY <1>7 DEF Restarts, Untouched
  <2>4. Stage(s)' \in {"new", "queued", "gone"}
    BY <1>7 DEF Restarts
  <2> QED BY <2>1, <2>2, <2>3, <2>4 DEF StageOk
<1> QED BY <1>1, <1>2, <1>3, <1>4, <1>5, <1>6, <1>7

(* ... and its row and container.                                          *)
LEMMA RowOkStep ==
    ASSUME PlaceInv, NEW s \in Subs, StageOk(s), RowOk(s),
           \/ Early(s) \/ Triggered(s) \/ Marked(s) \/ RoutineStep(s)
           \/ \E p \in Phases : BenchStep(s, p)
           \/ Ticks(s) \/ Restarts(s)
    PROVE  RowOk(s)'
<1> USE DEF Harmed
<1>0. "RUNNING" \notin Terminal /\ "READY" \notin Terminal /\ "PENDING" \notin Terminal
      /\ "BUILDING" \notin Terminal /\ "SUCCESS" \in Terminal
  BY DEF Terminal
<1>1. CASE Early(s)
  <2>0. /\ SameTimers(s)
        /\ Stage(s) \in {"new", "queued", "fetch", "build", "start", "probe", "discard"}
    BY <1>1 DEF Early, Moves
  <2>1. Untouched(s) /\ clean'[s] = Off /\ clean[s] = Off /\ ~Busy(s) /\ ~Busy(s)'
    BY <2>0 DEF StageOk, Untouched, Busy, Off, SameTimers
  <2>2. clean'[s].pc = "none" /\ clean[s].pc = "none"
    BY <2>1 DEF Off
  <2> USE <1>0, <2>1, <2>2 DEF Moves, Row, RowFailed, SameRow, SameFault
  <2>3. CASE container'[s] = container[s] /\ Moves(s, "new", "new") /\ Row(s, {"PENDING"})
    BY <2>3 DEF RowOk
  <2>4. CASE container'[s] = container[s] /\ (Moves(s, "new", "queued") \/ Moves(s, "queued", "fetch") \/ Moves(s, "build", "start")) /\ SameRow(s)
    BY <2>4 DEF RowOk
  <2>5. CASE container'[s] = container[s] /\ (Moves(s, "new", "gone") \/ Moves(s, "fetch", "gone")) /\ RowFailed(s)
    BY <2>5 DEF RowOk
  <2>6. CASE container'[s] = container[s] /\ Moves(s, "fetch", "build") /\ Row(s, {"BUILDING"})
    BY <2>6 DEF RowOk
  <2>7. CASE container'[s] = container[s] /\ Moves(s, "build", "gone") /\ Row(s, Terminal)
    BY <2>7 DEF RowOk
  <2>8. CASE container'[s] = container[s] /\ Moves(s, "probe", "trigger") /\ Row(s, {"READY"})
    BY <2>8 DEF RowOk
  <2>9. CASE container'[s] = container[s] /\ (Moves(s, "start", "discard") \/ Moves(s, "probe", "discard")) /\ Row(s, Terminal)
    BY <2>9 DEF RowOk
  <2>10. CASE Moves(s, "start", "probe") /\ SameRow(s) /\ container'[s]
    BY <2>10 DEF RowOk
  <2>11. CASE Moves(s, "discard", "gone") /\ Removed(s)
    BY <2>11 DEF RowOk, Removed
  <2> QED BY <1>1, <2>3, <2>4, <2>5, <2>6, <2>7, <2>8, <2>9, <2>10, <2>11 DEF Early
<1>2. CASE Triggered(s)
  BY <1>2 DEF Triggered, Moves, SameRow, SameFault, RowOk, Busy
<1>3. CASE Marked(s)
  <2>1. /\ Stage(s) = "mark" /\ Stage(s)' = "gone" /\ container'[s] = container[s]
        /\ clean'[s].pc = "await" /\ Busy(s)' /\ container[s]
    BY <1>3 DEF Marked, Moves, Busy, RowOk
  <2> QED BY <1>3, <2>1 DEF Marked, Row, RowOk
<1>4. CASE RoutineStep(s)
  <2>0. Stage(s)' = Stage(s)
    BY <1>4 DEF RoutineStep
  <2>1. CASE clean'[s] = clean[s] /\ SameRow(s) /\ container'[s] = container[s]
    BY <2>0, <2>1 DEF SameRow, SameFault, RowOk, Busy
  <2>2. CASE /\ clean[s].pc \in {"await", "countdown"} /\ clean'[s].pc \in {"countdown", "finish"}
             /\ SameRow(s) /\ container'[s] = container[s]
    BY <2>0, <2>2 DEF SameRow, SameFault, RowOk, Busy
  <2>3. CASE /\ clean[s].pc = "finish" /\ clean'[s].pc = "remove" /\ container'[s] = container[s]
             /\ status[s] = "RUNNING" /\ Row(s, {"SUCCESS"})
    <3>1. Stage(s) # "discard" /\ Stage(s) # "mark"
      BY <2>3 DEF StageOk, Untouched, Off
    <3> QED BY <1>0, <2>0, <2>3, <3>1 DEF Row, RowOk, Busy
  <2>4. CASE /\ clean[s].pc = "finish" /\ clean'[s].pc = "remove" /\ container'[s] = container[s]
             /\ status[s] # "RUNNING" /\ SameRow(s)
    BY <2>0, <2>4 DEF SameRow, SameFault, RowOk, Busy
  <2>5. CASE clean[s].pc = "remove" /\ clean'[s].pc = "over" /\ Removed(s)
    <3>1. Stage(s) \notin {"probe", "trigger", "mark", "discard"}
      BY <2>5 DEF StageOk, Untouched, Off
    <3>2. status[s] \notin {"READY", "RUNNING"} \/ s \in faulted
      BY <1>0, <2>5 DEF RowOk
    <3>3. ~Busy(s)'
      BY <2>5 DEF Busy
    <3> QED BY <1>0, <2>0, <2>5, <3>1, <3>2, <3>3 DEF Removed, RowOk
  <2> QED BY <1>4, <2>1, <2>2, <2>3, <2>4, <2>5 DEF RoutineStep
<1>5. ASSUME NEW p \in Phases, BenchStep(s, p) PROVE RowOk(s)'
  BY <1>5 DEF BenchStep, SameRow, SameFault, RowOk, Busy
<1>6. CASE Ticks(s)
  BY <1>6 DEF Ticks, SameRow, SameFault, RowOk, Busy
<1>7. CASE Restarts(s)
  <2>1. ~Busy(s)' /\ clean'[s].pc = "none"
    BY <1>7 DEF Restarts, Busy, Off
  <2>2. /\ status'[s] = status[s] /\ container'[s] = container[s] /\ (s \in faulted' <=> s \in faulted)
        /\ (s \in dropped => s \in dropped') /\ (s \in unremoved' <=> s \in unremoved)
        /\ (Stage(s) \in WorkerStages \/ Busy(s)) => s \in dropped'
        /\ Stage(s)' \in {"new", "queued", "gone"}
        /\ Stage(s)' = "gone" => Stage(s) = "gone" \/ s \in dropped'
    BY <1>7 DEF Restarts
  <2> QED BY <2>1, <2>2 DEF RowOk, WorkerStages
<1> QED BY <1>1, <1>2, <1>3, <1>4, <1>5, <1>6, <1>7

(* A submission's stage and what belongs to it always agree.               *)
LEMMA StageStep == StageInv /\ [Next]_vars => StageInv'
<1> SUFFICES ASSUME StageInv, [Next]_vars PROVE StageInv'
  OBVIOUS
<1>1. PlaceInv /\ \A s \in Subs : StageOk(s) /\ RowOk(s)
  BY DEF StageInv
<1>2. PlaceInv'
  BY <1>1, StepsOfSubmissions DEF PlaceInv
<1>3. ASSUME NEW s \in Subs PROVE StageOk(s)' /\ RowOk(s)'
  <2>1. \/ Same(s)
        \/ Early(s) \/ Triggered(s) \/ Marked(s) \/ RoutineStep(s)
        \/ \E p \in Phases : BenchStep(s, p)
        \/ Ticks(s) \/ Restarts(s)
    BY <1>1, StepsOfSubmissions DEF Others
  <2> QED BY <1>1, <2>1, Unaffected, StageOkStep, RowOkStep
<1> QED BY <1>2, <1>3 DEF StageInv

-----------------------------------------------------------------------------
(* The performance goroutine is done before the safety net fires.          *)
LEMMA PerfOkStep ==
    ASSUME PlaceInv, Types', NEW s \in Subs, StageOk(s), RowOk(s), PerfOk(s),
           \/ Early(s) \/ Triggered(s) \/ Marked(s) \/ RoutineStep(s)
           \/ \E p \in Phases : BenchStep(s, p)
           \/ Ticks(s) \/ Restarts(s)
    PROVE  PerfOk(s)'
<1>0. /\ perf[s].left \in Nat /\ perf'[s].left \in Nat
      /\ clean[s].left \in Nat /\ clean'[s].left \in Nat
      /\ perf[s].pc \in {"none", "sleep", "dispatch", "over"}
  BY OfOne DEF PlaceInv, Types, TimerTypes, PerfTimers, CleanTimers
<1>c. {Correctness, Gap, Performance, Window, Grace, Buffer} \subseteq Nat \ {0}
  BY LifecycleBounds
<1>1. CASE Early(s)
  <2>1. Untouched(s) /\ SameTimers(s)
    BY <1>1 DEF Early, Moves, StageOk
  <2> QED BY <2>1 DEF PerfOk, Untouched, SameTimers, Off
<1>2. CASE Triggered(s)
  <2>1. /\ perf'[s].pc = "sleep" /\ perf'[s].left = Correctness + Gap
        /\ clean'[s] = Off /\ ~started'[s] /\ container'[s]
    BY <1>2 DEF Triggered, Moves, StageOk, RowOk
  <2> QED BY <2>1, <1>c DEF PerfOk, Off
<1>3. CASE Marked(s)
  <2>1. /\ perf'[s] = perf[s] /\ started'[s] = started[s] /\ container'[s] = container[s]
        /\ clean'[s].pc = "await" /\ clean'[s].left = Correctness + Gap + Performance + Buffer
        /\ perf[s].pc # "none"
    BY <1>3 DEF Marked, Moves, StageOk, MaxWait
  <2>2. PerfLeft(s)' <= Correctness + Gap + Window \/ started[s]
    BY <1>0, <1>c, <2>1 DEF PerfOk, PerfLeft
  <2>3. clean'[s].left > 0 /\ Correctness + Gap + Window < clean'[s].left
    BY <1>c, <2>1, DispatchEndsFirst
  <2>4. PerfLeft(s)' \in Nat
    BY <1>0, <1>c DEF PerfLeft
  <2>5. ~started[s] => PerfLeft(s)' < clean'[s].left
    BY <1>0, <1>c, <2>2, <2>3, <2>4
  <2> QED BY <2>1, <2>3, <2>5 DEF PerfOk
<1>4. CASE RoutineStep(s)
  <2>1. CASE /\ perf[s].pc = "sleep" /\ perf[s].left = 0 /\ started'[s] = started[s]
             /\ perf'[s] = [pc |-> "dispatch", left |-> Window]
             /\ clean'[s] = clean[s] /\ container'[s] = container[s]
    <3>1. ~started[s] /\ container[s] /\ clean[s].pc \in {"none", "await"}
      BY <2>1 DEF PerfOk
    <3>2. PerfLeft(s)' = Window /\ PerfLeft(s) = Window
      BY <1>c, <2>1 DEF PerfLeft
    <3> QED BY <1>c, <2>1, <3>1, <3>2 DEF PerfOk
  <2>2. CASE /\ perf[s].pc = "dispatch" /\ started'[s] /\ perf'[s].pc = "over" /\ clean'[s] = clean[s]
    <3>1. ~started[s]
      BY <2>2 DEF PerfOk
    <3>2. clean[s].pc = "await" => clean[s].left > 0
      BY <1>0, <2>2, <3>1 DEF PerfOk, PerfLeft
    <3> QED BY <2>2, <3>2 DEF PerfOk
  <2>3. CASE /\ perf'[s] = perf[s] /\ started'[s] = started[s]
             /\ \/ clean[s].pc = "await" /\ started[s] /\ clean'[s].pc = "countdown"
                \/ /\ clean[s].pc \in {"await", "countdown"} /\ clean[s].left = 0
                   /\ clean'[s].pc = "finish"
                \/ clean[s].pc = "finish" /\ clean'[s].pc = "remove"
                \/ clean[s].pc = "remove" /\ clean'[s].pc = "over"
    <3>1. perf[s].pc \notin {"sleep", "dispatch"}
      <4>1. clean[s].pc = "await" => clean[s].left > 0
        BY <1>0, <1>c DEF PerfOk, PerfLeft
      <4> QED BY <2>3, <4>1 DEF PerfOk
    <3> QED BY <2>3, <3>1 DEF PerfOk
  <2> QED BY <1>4, <2>1, <2>2, <2>3 DEF RoutineStep
<1>5. ASSUME NEW p \in Phases, BenchStep(s, p) PROVE PerfOk(s)'
  BY <1>5 DEF BenchStep, PerfOk, PerfLeft
<1>6. CASE Ticks(s)
  <2>1. /\ perf'[s].pc = perf[s].pc /\ clean'[s].pc = clean[s].pc /\ started'[s] = started[s]
        /\ container'[s] = container[s] /\ ~(clean[s].pc = "await" /\ started[s])
        /\ perf[s].pc \in {"sleep", "dispatch"} => perf'[s].left = perf[s].left - 1
        /\ clean[s].pc = "await" => clean'[s].left = clean[s].left - 1
    BY <1>6 DEF Ticks
  <2>2. perf[s].pc \in {"sleep", "dispatch"} => PerfLeft(s)' = PerfLeft(s) - 1
    BY <1>0, <1>c, <2>1 DEF PerfLeft
  <2>3. PerfLeft(s) \in Nat
    BY <1>0, <1>c DEF PerfLeft
  <2>4. (clean[s].pc = "await" /\ ~started[s]) => PerfLeft(s)' < clean'[s].left
    <3>1. SUFFICES ASSUME clean[s].pc = "await", ~started[s] PROVE PerfLeft(s)' < clean'[s].left
      OBVIOUS
    <3>2. PerfLeft(s) < clean[s].left /\ clean'[s].left = clean[s].left - 1
      BY <2>1, <3>1 DEF PerfOk
    <3>3. perf[s].pc \in {"none", "sleep", "dispatch"}
      BY <1>0, <3>1 DEF PerfOk
    <3>4. CASE perf[s].pc = "none"
      BY <3>4, <3>1, <2>1 DEF StageOk, Busy
    <3> QED BY <1>0, <2>2, <2>3, <3>2, <3>3, <3>4
  <2> QED BY <1>0, <1>c, <2>1, <2>4 DEF PerfOk
<1>7. CASE Restarts(s)
  <2>1. perf'[s].pc = "none" /\ clean'[s].pc = "none"
    BY <1>7 DEF Restarts, Off
  <2> QED BY <2>1 DEF PerfOk
<1> QED BY <1>1, <1>2, <1>3, <1>4, <1>5, <1>6, <1>7

(* A benchmark ends before the countdown does, if it waits for its cores   *)
(* for less than the grace period.                                         *)
LEMMA BenchOkStep ==
    ASSUME MaxDelay < Grace, PlaceInv, Types', NEW s \in Subs,
           StageOk(s), RowOk(s), PerfOk(s), BenchOk(s),
           \/ Early(s) \/ Triggered(s) \/ Marked(s) \/ RoutineStep(s)
           \/ \E p \in Phases : BenchStep(s, p)
           \/ Ticks(s) \/ Restarts(s)
    PROVE  BenchOk(s)'
<1>0. /\ perf[s].left \in Nat /\ perf'[s].left \in Nat
      /\ clean[s].left \in Nat /\ clean'[s].left \in Nat
      /\ perf[s].pc \in {"none", "sleep", "dispatch", "over"}
      /\ \A p \in Phases : /\ bench[s][p].left \in Nat /\ bench'[s][p].left \in Nat
                           /\ bench[s][p].pc \in {"none", "waiting", "running", "over"}
  BY OfOne DEF PlaceInv, Types, TimerTypes, PerfTimers, CleanTimers, BenchTimers
<1>c. /\ {Correctness, Gap, Performance, Window, Grace, Buffer} \subseteq Nat \ {0} /\ MaxDelay \in Nat
      /\ \A p \in Phases : Duration(p) \in Nat /\ Duration(p) > 0
      /\ Duration("correctness") = Correctness /\ Duration("performance") = Performance
  BY LifecycleBounds DEF Duration
<1>n. \A p \in Phases : Left(s, p) \in Nat
  BY <1>0, <1>c DEF Left
<1>s. ASSUME bench'[s] = bench[s]
      PROVE  \A p \in Phases : (Live(s, p)' <=> Live(s, p)) /\ Left(s, p)' = Left(s, p)
  BY <1>s DEF Live, Left
<1>1. CASE Early(s)
  <2>1. Untouched(s) /\ bench'[s] = bench[s]
    BY <1>1 DEF Early, Moves, StageOk, SameTimers
  <2>2. \A p \in Phases : ~Live(s, p)'
    BY <2>1 DEF Untouched, Off, Live
  <2> QED BY <2>2 DEF BenchOk
<1>2. CASE Triggered(s)
  <2>1. /\ perf'[s].pc = "sleep" /\ perf'[s].left = Correctness + Gap /\ clean'[s] = Off
        /\ container'[s] = container[s] /\ bench'[s] = bench[s] /\ clean'[s] = clean[s]
        /\ bench[s]["performance"] = Off
    BY <1>2 DEF Triggered, Moves, StageOk
  <2>2. ASSUME NEW p \in Phases, Live(s, p) PROVE p = "correctness"
    BY <2>1, <2>2 DEF Live, Off, Phases
  <2>3. ASSUME NEW p \in Phases, Live(s, p)
        PROVE  Left(s, p) + Gap <= MaxDelay + (Correctness + Gap)
    <3>1. p = "correctness" /\ Left(s, p) <= MaxDelay + Correctness
      BY <1>c, <2>2, <2>3 DEF BenchOk
    <3> QED BY <1>c, <1>n, <2>3, <3>1
  <2> QED BY <1>s, <2>1, <2>2, <2>3 DEF BenchOk, Off
<1>3. CASE Marked(s)
  <2>1. /\ perf'[s] = perf[s] /\ container'[s] = container[s] /\ clean'[s].pc = "await"
        /\ bench'[s] = bench[s]
    BY <1>3 DEF Marked
  <2> QED BY <1>s, <2>1 DEF BenchOk
<1>4. CASE RoutineStep(s)
  <2>0. bench'[s] = bench[s] /\ \A p \in Phases : (Live(s, p)' <=> Live(s, p)) /\ Left(s, p)' = Left(s, p)
    BY <1>4, <1>s DEF RoutineStep
  <2>1. CASE /\ perf[s].pc = "sleep" /\ perf[s].left = 0 /\ perf'[s].pc = "dispatch"
             /\ clean'[s] = clean[s] /\ container'[s] = container[s]
    <3>1. ASSUME NEW p \in Phases, Live(s, p) PROVE Left(s, p) <= MaxDelay + Performance
      <4>1. Left(s, p) + Gap <= MaxDelay + 0
        BY <2>1, <3>1 DEF BenchOk
      <4> QED BY <1>c, <1>n, <3>1, <4>1
    <3> QED BY <2>0, <2>1, <3>1 DEF BenchOk
  <2>2. CASE /\ perf[s].pc = "dispatch" /\ perf'[s].pc = "over"
             /\ clean'[s] = clean[s] /\ container'[s] = container[s]
    BY <2>0, <2>2 DEF BenchOk
  <2>3. CASE /\ perf'[s] = perf[s] /\ container'[s] = container[s]
             /\ clean[s].pc = "await" /\ started[s]
             /\ clean'[s].pc = "countdown" /\ clean'[s].left = Performance + Grace
    <3>1. perf[s].pc = "over"
      BY <2>3 DEF PerfOk, StageOk, Busy
    <3>2. ASSUME NEW p \in Phases, Live(s, p) PROVE Left(s, p) < Performance + Grace
      <4>1. Left(s, p) <= MaxDelay + Performance
        BY <3>1, <3>2 DEF BenchOk
      <4> QED BY <1>c, <1>n, <3>2, <4>1
    <3> QED BY <2>0, <2>3, <3>2 DEF BenchOk
  <2>4. CASE /\ perf'[s] = perf[s] /\ container'[s] = container[s]
             /\ clean[s].pc \in {"await", "countdown"} /\ clean[s].left = 0
             /\ clean'[s].pc = "finish"
    <3>1. clean[s].pc = "countdown"
      <4>1. perf[s].left \in Nat /\ PerfLeft(s) \in Nat
        BY <1>0, <1>c DEF PerfLeft
      <4> QED BY <2>4, <4>1 DEF PerfOk
    <3>2. \A p \in Phases : ~Live(s, p)
      BY <1>n, <2>4, <3>1 DEF BenchOk
    <3> QED BY <2>0, <3>2 DEF BenchOk
  <2>5. CASE clean[s].pc \in {"finish", "remove"}
    <3>1. \A p \in Phases : ~Live(s, p)
      BY <2>5 DEF BenchOk
    <3> QED BY <2>0, <3>1 DEF BenchOk
  <2> QED BY <1>4, <2>1, <2>2, <2>3, <2>4, <2>5 DEF RoutineStep
<1>5. ASSUME NEW p \in Phases, BenchStep(s, p) PROVE BenchOk(s)'
  <2>0. /\ perf'[s] = perf[s] /\ clean'[s] = clean[s] /\ container'[s] = container[s]
        /\ \A r \in Phases \ {p} : bench'[s][r] = bench[s][r]
    BY <1>5 DEF BenchStep
  <2>1. \A r \in Phases \ {p} : (Live(s, r)' <=> Live(s, r)) /\ Left(s, r)' = Left(s, r)
    BY <2>0 DEF Live, Left
  <2>2. ASSUME Live(s, p)'
        PROVE  /\ container[s]
               /\ Left(s, p)' <= MaxDelay + Duration(p)
               /\ perf[s].pc = "sleep" => p = "correctness" /\ Left(s, p)' + Gap <= MaxDelay + perf[s].left
               /\ perf[s].pc \in {"dispatch", "over"} => Left(s, p)' <= MaxDelay + Performance
               /\ clean[s].pc = "countdown" => Left(s, p)' < clean[s].left
               /\ clean[s].pc \notin {"finish", "remove", "over"}
    <3>1. CASE p = "correctness" /\ Stage(s) = "trigger" /\ bench'[s][p] = [pc |-> "waiting", left |-> MaxDelay]
      <4>1. perf[s].pc = "none" /\ clean[s].pc = "none" /\ container[s]
        BY <3>1 DEF StageOk, RowOk, Off
      <4>2. Left(s, p)' = MaxDelay + Duration(p)
        BY <3>1 DEF Left
      <4> QED BY <1>c, <4>1, <4>2
    <3>2. CASE p = "performance" /\ perf[s].pc = "dispatch" /\ bench'[s][p] = [pc |-> "waiting", left |-> MaxDelay]
      <4>1. clean[s].pc \in {"none", "await"} /\ container[s]
        BY <3>2 DEF PerfOk
      <4>2. Left(s, p)' = MaxDelay + Performance
        BY <1>c, <3>2 DEF Left
      <4> QED BY <1>c, <3>2, <4>1, <4>2
    <3>3. CASE bench[s][p].pc = "waiting" /\ bench'[s][p] = [pc |-> "running", left |-> Duration(p)]
      <4>1. Live(s, p) /\ Left(s, p) = bench[s][p].left + Duration(p) /\ Left(s, p)' = Duration(p)
        BY <1>c, <3>3 DEF Live, Left
      <4>2. Left(s, p)' <= Left(s, p) /\ Left(s, p)' \in Nat
        BY <1>0, <1>c, <4>1
      <4>3. /\ container[s]
            /\ Left(s, p) <= MaxDelay + Duration(p)
            /\ perf[s].pc = "sleep" => p = "correctness" /\ Left(s, p) + Gap <= MaxDelay + perf[s].left
            /\ perf[s].pc \in {"dispatch", "over"} => Left(s, p) <= MaxDelay + Performance
            /\ clean[s].pc = "countdown" => Left(s, p) < clean[s].left
            /\ clean[s].pc \notin {"finish", "remove", "over"}
        BY <4>1 DEF BenchOk
      <4> HIDE DEF BenchOk, Left
      <4> QED BY <1>0, <1>c, <1>n, <4>2, <4>3
    <3>4. CASE bench'[s][p] = [pc |-> "over", left |-> 0]
      BY <2>2, <3>4 DEF Live
    <3> QED BY <1>5, <3>1, <3>2, <3>3, <3>4 DEF BenchStep
  <2>3. ASSUME NEW r \in Phases, Live(s, r)'
        PROVE  /\ container'[s]
               /\ Left(s, r)' <= MaxDelay + Duration(r)
               /\ perf'[s].pc = "sleep" => r = "correctness" /\ Left(s, r)' + Gap <= MaxDelay + perf'[s].left
               /\ perf'[s].pc \in {"dispatch", "over"} => Left(s, r)' <= MaxDelay + Performance
               /\ clean'[s].pc = "countdown" => Left(s, r)' < clean'[s].left
               /\ clean'[s].pc \notin {"finish", "remove", "over"}
    <3>1. CASE r = p
      BY <2>0, <2>2, <2>3, <3>1
    <3>2. CASE r # p
      BY <2>0, <2>1, <2>3, <3>2 DEF BenchOk
    <3> QED BY <3>1, <3>2
  <2> QED BY <2>3 DEF BenchOk, Duration
<1>6. CASE Ticks(s)
  <2>1. /\ perf'[s].pc = perf[s].pc /\ clean'[s].pc = clean[s].pc /\ container'[s] = container[s]
        /\ perf[s].pc = "sleep" => perf'[s].left = perf[s].left - 1
        /\ clean[s].pc = "countdown" => clean'[s].left = clean[s].left - 1
        /\ \A p \in Phases : /\ bench'[s][p].pc = bench[s][p].pc
                             /\ Live(s, p) => bench'[s][p].left = bench[s][p].left - 1
    BY <1>6 DEF Ticks
  <2>2. ASSUME NEW p \in Phases, Live(s, p)'
        PROVE  Live(s, p) /\ Left(s, p)' = Left(s, p) - 1
    <3>1. Live(s, p)
      BY <2>1, <2>2 DEF Live
    <3> QED BY <1>0, <1>c, <2>1, <3>1 DEF Left
  <2>3. ASSUME NEW p \in Phases, Live(s, p)'
        PROVE  /\ container'[s]
               /\ Left(s, p)' <= MaxDelay + Duration(p)
               /\ perf'[s].pc = "sleep" => p = "correctness" /\ Left(s, p)' + Gap <= MaxDelay + perf'[s].left
               /\ perf'[s].pc \in {"dispatch", "over"} => Left(s, p)' <= MaxDelay + Performance
               /\ clean'[s].pc = "countdown" => Left(s, p)' < clean'[s].left
               /\ clean'[s].pc \notin {"finish", "remove", "over"}
    <3>1. Live(s, p) /\ Left(s, p)' = Left(s, p) - 1 /\ Left(s, p) \in Nat
      BY <1>n, <2>2, <2>3
    <3>2. /\ container[s]
          /\ Left(s, p) <= MaxDelay + Duration(p)
          /\ perf[s].pc = "sleep" => p = "correctness" /\ Left(s, p) + Gap <= MaxDelay + perf[s].left
          /\ perf[s].pc \in {"dispatch", "over"} => Left(s, p) <= MaxDelay + Performance
          /\ clean[s].pc = "countdown" => Left(s, p) < clean[s].left
          /\ clean[s].pc \notin {"finish", "remove", "over"}
      BY <3>1 DEF BenchOk
    <3> QED BY <1>0, <1>c, <2>1, <3>1, <3>2
  <2> QED BY <2>3 DEF BenchOk, Duration
<1>7. CASE Restarts(s)
  <2>1. /\ perf'[s].pc = "none" /\ clean'[s].pc = "none" /\ container'[s] = container[s]
        /\ bench'[s] = bench[s]
    BY <1>7 DEF Restarts, Off
  <2> QED BY <1>s, <2>1 DEF BenchOk
<1> QED BY <1>1, <1>2, <1>3, <1>4, <1>5, <1>6, <1>7

(* The timers of a submission stay in order.                               *)
LEMMA TimeStep == (MaxDelay < Grace) /\ TimeInv /\ [Next]_vars => TimeInv'
<1> SUFFICES ASSUME MaxDelay < Grace, TimeInv, [Next]_vars PROVE TimeInv'
  OBVIOUS
<1>1. PlaceInv /\ StageInv /\ \A s \in Subs : StageOk(s) /\ RowOk(s) /\ PerfOk(s) /\ BenchOk(s)
  BY DEF TimeInv, StageInv
<1>2. StageInv' /\ Types'
  BY <1>1, StageStep DEF StageInv, PlaceInv
<1>3. ASSUME NEW s \in Subs PROVE PerfOk(s)' /\ BenchOk(s)'
  <2>1. \/ Same(s)
        \/ Early(s) \/ Triggered(s) \/ Marked(s) \/ RoutineStep(s)
        \/ \E p \in Phases : BenchStep(s, p)
        \/ Ticks(s) \/ Restarts(s)
    BY <1>1, StepsOfSubmissions DEF Others
  <2> QED BY <1>1, <1>2, <2>1, Unaffected, PerfOkStep, BenchOkStep
<1> QED BY <1>2, <1>3 DEF TimeInv

(* What is left of the correctness phase goes down with the sleep of the   *)
(* performance goroutine, so that at most the excess of the longest wait   *)
(* over the gap is left when it wakes up.                                  *)
LEMMA OverlapOkStep ==
    ASSUME PlaceInv, Types', NEW s \in Subs, StageOk(s), OverlapOk(s),
           \/ Early(s) \/ Triggered(s) \/ Marked(s) \/ RoutineStep(s)
           \/ \E p \in Phases : BenchStep(s, p)
           \/ Ticks(s) \/ Restarts(s)
    PROVE  OverlapOk(s)'
<1>0. /\ perf[s].pc \in {"none", "sleep", "dispatch", "over"} /\ perf[s].left \in Nat
      /\ perf'[s].left \in Nat
      /\ \A p \in Phases : /\ bench[s][p].left \in Nat /\ bench'[s][p].left \in Nat
                           /\ bench[s][p].pc \in {"none", "waiting", "running", "over"}
  BY OfOne DEF PlaceInv, Types, TimerTypes, PerfTimers, BenchTimers
<1>c. /\ "correctness" \in Phases /\ "performance" \in Phases /\ Phases = {"correctness", "performance"}
      /\ Duration("correctness") = Correctness
      /\ Correctness \in Nat /\ Gap \in Nat /\ MaxDelay \in Nat
  BY LifecycleBounds DEF Phases, Duration
<1>n. Left(s, "correctness") \in Nat
  BY <1>0, <1>c DEF Left
<1>s. ASSUME bench'[s] = bench[s]
      PROVE  /\ Live(s, "correctness")' <=> Live(s, "correctness")
             /\ Left(s, "correctness")' = Left(s, "correctness")
  BY <1>s DEF Live, Left
<1>1. CASE Early(s)
  <2>1. Untouched(s) /\ SameTimers(s) /\ Stage(s)' # "mark"
    BY <1>1 DEF Early, Moves, StageOk
  <2> QED BY <1>c, <2>1 DEF OverlapOk, Asked, Untouched, SameTimers, Off, Live
<1>2. CASE Triggered(s)
  <2>1. /\ bench[s]["performance"] = Off /\ bench'[s] = bench[s]
        /\ bench[s]["correctness"].pc # "none"
        /\ perf'[s].pc = "sleep" /\ perf'[s].left = Correctness + Gap
    BY <1>2 DEF Triggered, Moves, StageOk
  <2>2. ~Asked(s)'
    BY <2>1 DEF Asked, Off
  <2>3. Live(s, "correctness") => Left(s, "correctness") <= MaxDelay + Correctness
    BY DEF OverlapOk
  <2>4. Live(s, "correctness") => Left(s, "correctness") + Gap <= MaxDelay + perf'[s].left
    BY <1>c, <1>n, <2>1, <2>3
  <2> QED BY <1>s, <2>1, <2>2, <2>3, <2>4 DEF OverlapOk
<1>3. CASE Marked(s)
  <2>1. perf'[s] = perf[s] /\ bench'[s] = bench[s] /\ Stage(s)' # "mark"
    BY <1>3 DEF Marked, Moves
  <2> QED BY <1>s, <2>1 DEF OverlapOk, Asked
<1>4. CASE RoutineStep(s)
  <2>0. bench'[s] = bench[s] /\ Stage(s)' = Stage(s)
    BY <1>4 DEF RoutineStep
  <2>1. CASE perf'[s] = perf[s]
    BY <1>s, <2>0, <2>1 DEF OverlapOk, Asked
  <2>2. CASE perf[s].pc = "dispatch" /\ perf'[s].pc = "over"
    BY <1>s, <2>0, <2>2 DEF OverlapOk, Asked
  <2>3. CASE perf[s].pc = "sleep" /\ perf[s].left = 0 /\ perf'[s].pc = "dispatch"
    <3>1. Live(s, "correctness") => Left(s, "correctness") + Gap <= MaxDelay
      BY <1>c, <1>n, <2>3 DEF OverlapOk
    <3> QED BY <1>s, <2>0, <2>3, <3>1 DEF OverlapOk, Asked
  <2> QED BY <1>4, <2>1, <2>2, <2>3 DEF RoutineStep
<1>5. ASSUME NEW p \in Phases, BenchStep(s, p) PROVE OverlapOk(s)'
  <2>1. Stage(s)' = Stage(s) /\ perf'[s] = perf[s]
        /\ \A r \in Phases \ {p} : bench'[s][r] = bench[s][r]
    BY <1>5 DEF BenchStep
  <2>2. CASE p = "correctness"
    <3>1. bench'[s]["performance"] = bench[s]["performance"]
      BY <1>c, <2>1, <2>2
    <3>2. Asked(s)' <=> Asked(s)
      BY <2>1, <3>1 DEF Asked
    <3>3. CASE bench[s]["correctness"].pc = "none" /\ bench'[s]["correctness"] = [pc |-> "waiting", left |-> MaxDelay]
      <4>1. Left(s, "correctness")' = MaxDelay + Correctness
        BY <1>c, <3>3 DEF Left
      <4>2. ~Asked(s)' /\ perf'[s].pc # "sleep"
        BY <2>1, <3>2, <3>3 DEF OverlapOk
      <4> QED BY <1>c, <3>3, <4>1, <4>2 DEF OverlapOk
    <3>4. CASE /\ bench[s]["correctness"].pc = "waiting"
               /\ bench'[s]["correctness"] = [pc |-> "running", left |-> Correctness]
      <4>1. /\ Live(s, "correctness") /\ Left(s, "correctness")' = Correctness
            /\ Left(s, "correctness") = bench[s]["correctness"].left + Correctness
        BY <1>c, <3>4 DEF Live, Left
      <4>2. Left(s, "correctness")' <= Left(s, "correctness") /\ Left(s, "correctness")' \in Nat
        BY <1>0, <1>c, <4>1
      <4>3. /\ Left(s, "correctness") <= MaxDelay + Correctness
            /\ perf[s].pc = "sleep" => Left(s, "correctness") + Gap <= MaxDelay + perf[s].left
            /\ Asked(s) => Left(s, "correctness") + Gap <= MaxDelay
        BY <4>1 DEF OverlapOk
      <4>4. /\ Left(s, "correctness")' <= MaxDelay + Correctness
            /\ perf[s].pc = "sleep" => Left(s, "correctness")' + Gap <= MaxDelay + perf[s].left
            /\ Asked(s) => Left(s, "correctness")' + Gap <= MaxDelay
        <5> HIDE DEF Left, Asked
        <5> QED BY <1>0, <1>c, <1>n, <4>2, <4>3
      <4> QED BY <2>1, <3>2, <3>4, <4>4 DEF OverlapOk
    <3>5. CASE bench'[s]["correctness"] = [pc |-> "over", left |-> 0]
      BY <3>5 DEF OverlapOk, Live
    <3> QED BY <1>5, <1>c, <2>2, <3>3, <3>4, <3>5 DEF BenchStep
  <2>3. CASE p = "performance"
    <3>1. bench'[s]["correctness"] = bench[s]["correctness"]
      BY <1>c, <2>1, <2>3
    <3>2. /\ Live(s, "correctness")' <=> Live(s, "correctness")
          /\ Left(s, "correctness")' = Left(s, "correctness")
      BY <3>1 DEF Live, Left
    <3>3. Asked(s)
      BY <1>5, <2>3 DEF BenchStep, Asked
    <3> QED BY <2>1, <3>1, <3>2, <3>3 DEF OverlapOk
  <2> QED BY <1>c, <2>2, <2>3
<1>6. CASE Ticks(s)
  <2>1. /\ Stage(s)' = Stage(s) /\ perf'[s].pc = perf[s].pc
        /\ perf[s].pc = "sleep" => perf'[s].left = perf[s].left - 1
        /\ \A p \in Phases : /\ bench'[s][p].pc = bench[s][p].pc
                             /\ Live(s, p) => bench'[s][p].left = bench[s][p].left - 1
    BY <1>6 DEF Ticks
  <2>2. /\ Live(s, "correctness")' <=> Live(s, "correctness")
        /\ Asked(s)' <=> Asked(s)
    BY <1>c, <2>1 DEF Live, Asked
  <2>3. Live(s, "correctness") => Left(s, "correctness")' = Left(s, "correctness") - 1
    BY <1>0, <1>c, <2>1 DEF Left
  <2>4. Live(s, "correctness") =>
          /\ Left(s, "correctness") <= MaxDelay + Correctness
          /\ perf[s].pc = "sleep" => Left(s, "correctness") + Gap <= MaxDelay + perf[s].left
          /\ Asked(s) => Left(s, "correctness") + Gap <= MaxDelay
    BY DEF OverlapOk
  <2>5. Live(s, "correctness") =>
          /\ Left(s, "correctness")' <= MaxDelay + Correctness
          /\ perf'[s].pc = "sleep" => Left(s, "correctness")' + Gap <= MaxDelay + perf'[s].left
          /\ Asked(s) => Left(s, "correctness")' + Gap <= MaxDelay
    <3> HIDE DEF Live, Left, Asked
    <3> QED BY <1>0, <1>c, <1>n, <2>1, <2>3, <2>4
  <2> QED BY <1>c, <2>1, <2>2, <2>5 DEF OverlapOk
<1>7. CASE Restarts(s)
  <2>1. perf'[s].pc = "none" /\ bench'[s] = bench[s] /\ Stage(s)' # "mark"
    BY <1>7 DEF Restarts, Off
  <2> QED BY <1>s, <2>1 DEF OverlapOk, Asked
<1> QED BY <1>1, <1>2, <1>3, <1>4, <1>5, <1>6, <1>7

(* Every step bounds the overlap.                                          *)
LEMMA OverlapStep == OverlapInv /\ [Next]_vars => OverlapInv'
<1> SUFFICES ASSUME OverlapInv, [Next]_vars PROVE OverlapInv'
  OBVIOUS
<1>1. StageInv /\ PlaceInv /\ \A s \in Subs : StageOk(s) /\ OverlapOk(s)
  BY DEF OverlapInv, StageInv
<1>2. StageInv' /\ Types'
  BY <1>1, StageStep DEF StageInv, PlaceInv
<1>3. ASSUME NEW s \in Subs PROVE OverlapOk(s)'
  <2>1. \/ Same(s)
        \/ Early(s) \/ Triggered(s) \/ Marked(s) \/ RoutineStep(s)
        \/ \E p \in Phases : BenchStep(s, p)
        \/ Ticks(s) \/ Restarts(s)
    BY <1>1, StepsOfSubmissions DEF Others
  <2> QED BY <1>1, <1>2, <2>1, Unaffected, OverlapOkStep
<1> QED BY <1>2, <1>3 DEF OverlapInv

-----------------------------------------------------------------------------
(* Every variable of the lifecycle keeps its type, no timer is overdue     *)
(* and jobs never exceeds its capacity: dispatch blocks instead (Push).    *)
THEOREM LifecycleTypes == Spec => []TypeOK
<1>1. StageInv => TypeOK
  <2> SUFFICES ASSUME StageInv PROVE TypeOK
    OBVIOUS
  <2>1. Types
    BY DEF StageInv, PlaceInv
  <2>2. \A t \in Timers : t.left \in Nat
    BY <2>1, OfOne DEF Timers
  <2> QED BY <2>1, <2>2 DEF Types, StoreTypes, PoolTypes, WorkerStages, TypeOK
<1>2. Init => StageInv
  BY LifecycleInit DEF TimeInv
<1> QED BY <1>1, <1>2, StageStep, PTL DEF Spec

(* How often a queue holds a submission.                                   *)
LEMMA HeldTimes ==
    ASSUME NEW q \in Seq(Subs), NEW s, NoTwice(q)
    PROVE  Cardinality({i \in DOMAIN q : q[i] = s}) = IF Holds(q, s) THEN 1 ELSE 0
<1>1. CASE Holds(q, s)
  <2>1. PICK i \in DOMAIN q : q[i] = s
    BY <1>1 DEF Holds
  <2>2. {j \in DOMAIN q : q[j] = s} = {i}
    BY <2>1 DEF NoTwice
  <2> QED BY <1>1, <2>2, FS_Singleton
<1>2. CASE ~Holds(q, s)
  <2>1. {j \in DOMAIN q : q[j] = s} = {}
    BY <1>2 DEF Holds
  <2> QED BY <1>2, <2>1, FS_EmptySet
<1> QED BY <1>1, <1>2

(* A submission that was answered 202 and is not finished is in exactly    *)
(* one place, of the list, the dispatcher, jobs, the workers and the       *)
(* cleanup goroutines, unless a restart or a failed call concerned it, and *)
(* never in two: no two workers ever process the same submission.          *)
THEOREM HeldInOnePlace == Spec => []HeldOnce
<1>1. StageInv => HeldOnce
  <2> SUFFICES ASSUME StageInv, NEW s \in Subs
               PROVE  /\ Places(s) <= 1
                      /\ (handler[s] = "done" /\ status[s] \notin Terminal /\ s \notin Harmed)
                             => Places(s) = 1
    BY DEF HeldOnce
  <2>1. PlaceInv /\ Types /\ OnePlace /\ StageOk(s) /\ RowOk(s)
    BY DEF StageInv, PlaceInv
  <2>2. /\ Cardinality({i \in DOMAIN queue : queue[i] = s}) = IF Holds(queue, s) THEN 1 ELSE 0
        /\ Cardinality({i \in DOMAIN jobs : jobs[i] = s}) = IF Holds(jobs, s) THEN 1 ELSE 0
    BY <2>1, HeldTimes DEF Types, StoreTypes, PoolTypes, OnePlace
  <2>3. Cardinality(Working(s)) = IF Working(s) = {} THEN 0 ELSE 1
    <3>1. CASE Working(s) = {}
      BY <3>1, FS_EmptySet
    <3>2. CASE Working(s) # {}
      <4>1. PICK w \in Workers : work[w].sub = s
        BY <3>2 DEF Working
      <4>2. Working(s) = {w}
        BY <2>1, <4>1, NobodyIsNoSub DEF OnePlace, Working
      <4> QED BY <3>2, <4>2, FS_Singleton
    <3> QED BY <3>1, <3>2
  <2>4. clean[s].pc \notin {"none", "over"} <=> Busy(s)
    BY <2>1, OfOne DEF Busy
  <2>5. Busy(s) => Stage(s) = "gone"
    BY <2>1, StageCases DEF StageOk, Untouched, Busy, Off, WorkerStages
  <2>6. Stage(s) = "gone" => ~Waits(s) /\ Working(s) = {}
    BY <2>1, StageCases DEF WorkerStages
  <2>7. Working(s) # {} => ~Waits(s)
    BY <2>1 DEF OnePlace
  <2>8. Places(s) = (IF Holds(queue, s) THEN 1 ELSE 0) + (IF Holds(jobs, s) THEN 1 ELSE 0)
                      + (IF popped = s THEN 1 ELSE 0) + (IF Working(s) = {} THEN 0 ELSE 1)
                      + (IF Busy(s) THEN 1 ELSE 0)
    BY <2>2, <2>3, <2>4 DEF Places
  <2>9. /\ Holds(queue, s) => popped # s /\ ~Holds(jobs, s)
        /\ popped = s => ~Holds(jobs, s)
    BY <2>1 DEF OnePlace
  <2>10. Places(s) <= 1
    BY <2>5, <2>6, <2>7, <2>8, <2>9 DEF Waits
  <2>11. ASSUME handler[s] = "done", status[s] \notin Terminal, s \notin Harmed
         PROVE  Waits(s) \/ Working(s) # {} \/ Busy(s)
    <3>1. Stage(s) = "gone" => Busy(s)
      BY <2>11 , <2>1 DEF RowOk
    <3> QED BY <2>11, <3>1 DEF Stage
  <2>12. (Waits(s) \/ Working(s) # {} \/ Busy(s)) => Places(s) = 1
    BY <2>5, <2>6, <2>7, <2>8, <2>9 DEF Waits
  <2> QED BY <2>10, <2>11, <2>12
<1>2. Init => StageInv
  BY LifecycleInit DEF TimeInv
<1> QED BY <1>1, <1>2, StageStep, PTL DEF Spec

(* Every container has a worker or a cleanup goroutine that will remove    *)
(* it, unless a restart took that from memory or Docker has failed the one *)
(* attempt (RemoveContainer only logs it), and a READY or RUNNING          *)
(* submission has its container: no other failure on process's way leaks   *)
(* one.                                                                    *)
THEOREM EveryContainerOwned == Spec => []ContainerOwned
<1>1. StageInv => ContainerOwned
  <2> SUFFICES ASSUME StageInv, NEW s \in Subs
               PROVE  /\ (container[s] /\ s \notin dropped \cup unremoved) =>
                            \/ \E w \in Working(s) : work[w].pc \in {"probe", "trigger", "mark", "discard"}
                            \/ clean[s].pc \in {"await", "countdown", "finish", "remove"}
                      /\ (status[s] \in {"READY", "RUNNING"} /\ s \notin faulted) => container[s]
    BY DEF ContainerOwned
  <2>1. PlaceInv /\ RowOk(s)
    BY DEF StageInv
  <2>2. Stage(s) \in {"probe", "trigger", "mark", "discard"}
          => \E w \in Working(s) : work[w].pc \in {"probe", "trigger", "mark", "discard"}
    BY <2>1, StageCases DEF Working
  <2> QED BY <2>1, <2>2 DEF RowOk, Busy
<1>2. Init => StageInv
  BY LifecycleInit DEF TimeInv
<1> QED BY <1>1, <1>2, StageStep, PTL DEF Spec

(* If cores are free within the grace period, the container is there for   *)
(* as long as a benchmark of it runs: cleanup waits for the confirmation   *)
(* of the performance phase, and the safety net never fires before it.     *)
THEOREM ContainerOutlives ==
    ASSUME MaxDelay < Grace
    PROVE  Spec => []ContainerOutlivesBenchmark
<1>1. TimeInv => ContainerOutlivesBenchmark
  BY DEF TimeInv, BenchOk, Live, ContainerOutlivesBenchmark
<1>2. Init => TimeInv
  BY LifecycleInit
<1>3. TimeInv /\ [Next]_vars => TimeInv'
  BY TimeStep
<1> QED BY <1>1, <1>2, <1>3, PTL DEF Spec

(* Whatever the durations and the waits for cores, restarts and failed     *)
(* calls included: when the fleet has accepted the performance phase, what *)
(* is left of the correctness phase is at most the excess of the longest   *)
(* wait over the gap.  This is all that the fixed sleep of triggerBotFleet *)
(* gives (the configuration PhaseOverlap.cfg shows an overlap).            *)
THEOREM OverlapIsBounded == Spec => []OverlapWithinWait
<1>1. OverlapInv => OverlapWithinWait
  BY DEF OverlapInv, OverlapOk, Asked, OverlapWithinWait
<1> QED BY <1>1, OverlapStep, LifecycleInit, PTL DEF Spec

=============================================================================
