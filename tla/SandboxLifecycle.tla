-------------------------- MODULE SandboxLifecycle --------------------------
(***************************************************************************)
(* From POST /submit to the removal of the sandbox: the submission         *)
(* service's handler, the Redis list, the sandbox manager's dispatcher and *)
(* bounded worker pool (worker.go), and the two goroutines process leaves  *)
(* behind for each submission, one that dispatches the performance phase   *)
(* after a fixed sleep and one that removes the container.                 *)
(*                                                                         *)
(* Time is discrete and relative: a timer holds the ticks that are left.   *)
(* A sleep that has run out ends before the next tick; every other step    *)
(* takes as long as it likes.  The fleet is external here (FleetPool       *)
(* models it): it accepts a benchmark, which then waits for cores for at   *)
(* most MaxDelay ticks and runs for its duration.                          *)
(***************************************************************************)
EXTENDS Integers, Sequences, FiniteSets

CONSTANTS Subs,         \* submission ids
          Workers,      \* the worker goroutines; also the capacity of jobs
          Correctness,  \* CorrectnessDurationSecs
          Gap,          \* benchmarkPhaseGapSecs
          Performance,  \* DefaultDurationSecs
          Window,       \* deadline of the performance dispatch (10 minutes)
          Grace,        \* what cleanup adds to the performance phase (300 s)
          Buffer,       \* what the safety net adds to the longest run (600 s)
          MaxDelay,     \* longest wait of an accepted benchmark for its cores
          Errors,       \* how RunSandbox may fail
          MaxRestarts,  \* bound on the restarts of the sandbox manager
          MaxFaulted    \* bound on the submissions a failed call concerns, and
                        \* on those whose removal fails

ASSUME LifecycleBounds ==
    /\ IsFiniteSet(Subs) /\ IsFiniteSet(Workers) /\ Workers # {}
    /\ {Correctness, Gap, Performance, Window, Grace, Buffer} \subseteq Nat \ {0}
    /\ {MaxDelay, MaxRestarts, MaxFaulted} \subseteq Nat
    /\ Errors \subseteq {"oom", "segfault", "unbound", "other"}

(* Both are 600 s in the code: the performance dispatch is given up before *)
(* the safety net of the cleanup goroutine fires.                          *)
ASSUME DispatchEndsFirst == Window < Performance + Buffer

VARIABLES status,     \* the row: "none" before it is inserted
          handler,    \* the submit handler: "none", "enqueue" or "done"
          queue,      \* submission_queue
          popped,     \* what the dispatcher has popped and not handed over
          jobs,       \* the jobs channel
          work,       \* of each worker: where its process is, and for whom
          container,  \* whether the submission's container exists
          started,    \* whether perfStarted is closed
          perf,       \* the performance goroutine: where it is, ticks left
          clean,      \* the cleanup goroutine: where it is, ticks left
          bench,      \* of each phase: what the fleet does with it, ticks
          restarts,   \* restarts so far
          dropped,    \* history: submissions a restart took from memory
          faulted,    \* history: submissions for which a call failed
          unremoved   \* history: submissions whose removal failed

stores == <<status, handler, queue>>
pool == <<popped, jobs, work>>
routines == <<started, perf, clean>>
history == <<restarts, dropped, faulted, unremoved>>
vars == <<stores, pool, container, routines, bench, history>>

Phases == {"correctness", "performance"}
Nobody == "nobody"
ASSUME NobodyIsNoSub == Nobody \notin Subs
Idle == [pc |-> "idle", sub |-> Nobody]
Off == [pc |-> "none", left |-> 0]

Init ==
    /\ status = [s \in Subs |-> "none"] /\ handler = [s \in Subs |-> "none"]
    /\ queue = <<>> /\ popped = Nobody /\ jobs = <<>>
    /\ work = [w \in Workers |-> Idle]
    /\ container = [s \in Subs |-> FALSE] /\ started = [s \in Subs |-> FALSE]
    /\ perf = [s \in Subs |-> Off] /\ clean = [s \in Subs |-> Off]
    /\ bench = [s \in Subs |-> [p \in Phases |-> Off]]
    /\ restarts = 0 /\ dropped = {} /\ faulted = {} /\ unremoved = {}

(* A call to Postgres or Redis for s fails, without effect.                *)
CallFails(s) ==
    /\ s \in faulted \/ Cardinality(faulted) < MaxFaulted
    /\ faulted' = faulted \cup {s}
    /\ UNCHANGED <<restarts, dropped, unremoved>>

(* UpdateStatus; no caller looks at the error.                             *)
UpdateStatus(s, new) ==
    \/ status' = [status EXCEPT ![s] = new] /\ UNCHANGED history
    \/ CallFails(s) /\ UNCHANGED status

(* RemoveContainer: Docker removes the container if there is one, or fails *)
(* to; a failure is only logged and nobody tries again.                    *)
RemoveContainer(s) ==
    \/ container' = [container EXCEPT ![s] = FALSE] /\ UNCHANGED history
    \/ /\ container[s] /\ Cardinality(unremoved) < MaxFaulted
       /\ unremoved' = unremoved \cup {s}
       /\ UNCHANGED <<container, restarts, dropped, faulted>>
-----------------------------------------------------------------------------
(* submit: the archive is stored, then the PENDING row is inserted.        *)
InsertRow(s) ==
    /\ handler[s] = "none" /\ handler' = [handler EXCEPT ![s] = "enqueue"]
    /\ status' = [status EXCEPT ![s] = "PENDING"]
    /\ UNCHANGED <<queue, pool, container, routines, bench, history>>

(* RPUSH; a failure is logged and the answer is 202 all the same.          *)
Enqueue(s) ==
    /\ handler[s] = "enqueue" /\ handler' = [handler EXCEPT ![s] = "done"]
    /\ \/ queue' = Append(queue, s) /\ UNCHANGED history
       \/ CallFails(s) /\ UNCHANGED queue
    /\ UNCHANGED <<status, pool, container, routines, bench>>

(* dispatch: BLPOP ...                                                     *)
Pop ==
    /\ popped = Nobody /\ queue # <<>>
    /\ popped' = Head(queue) /\ queue' = Tail(queue)
    /\ UNCHANGED <<status, handler, jobs, work, container, routines, bench, history>>

(* Mutant of Push: a hand-over that ignores the capacity of jobs.          *)
PushUnbounded ==
    /\ popped # Nobody
    /\ jobs' = Append(jobs, popped) /\ popped' = Nobody
    /\ UNCHANGED <<stores, work, container, routines, bench, history>>

(* Mutant of Push: a hand-over that gives up when jobs is full.            *)
PushOrDrop ==
    /\ popped # Nobody /\ popped' = Nobody
    /\ jobs' = IF Len(jobs) < Cardinality(Workers) THEN Append(jobs, popped) ELSE jobs
    /\ UNCHANGED <<stores, work, container, routines, bench, history>>

(* ... and the hand-over, blocked while jobs is full.                      *)
Push ==
    /\ popped # Nobody /\ Len(jobs) < Cardinality(Workers)
    /\ jobs' = Append(jobs, popped) /\ popped' = Nobody
    /\ UNCHANGED <<stores, work, container, routines, bench, history>>

Take(w) ==
    /\ work[w].pc = "idle" /\ jobs # <<>>
    /\ work' = [work EXCEPT ![w] = [pc |-> "fetch", sub |-> Head(jobs)]]
    /\ jobs' = Tail(jobs)
    /\ UNCHANGED <<stores, popped, container, routines, bench, history>>
-----------------------------------------------------------------------------
(* process, step by step.                                                  *)
At(w, stage) == work[w].pc = stage
Goto(w, stage) == work' = [work EXCEPT ![w].pc = stage]
Return(w) == work' = [work EXCEPT ![w] = Idle]

(* GetSubmission; without its row the job is given up.                     *)
Fetch(w) ==
    /\ At(w, "fetch")
    /\ \/ CallFails(work[w].sub) /\ Return(w) /\ UNCHANGED status
       \/ UpdateStatus(work[w].sub, "BUILDING") /\ Goto(w, "build")
    /\ UNCHANGED <<handler, queue, popped, jobs, container, routines, bench>>

(* buildImage: download, extraction and docker build go well ...           *)
BuildImage(w) ==
    /\ At(w, "build") /\ Goto(w, "start")
    /\ UNCHANGED <<stores, popped, jobs, container, routines, bench, history>>

(* ... or one of them fails, and the job ends.                             *)
BuildFails(w) ==
    /\ At(w, "build") /\ Return(w)
    /\ UpdateStatus(work[w].sub, "FAILED_SYSTEM")
    /\ UNCHANGED <<handler, queue, popped, jobs, container, routines, bench>>

(* RunSandbox: the container is created and started ...                    *)
StartContainer(w) ==
    /\ At(w, "start") /\ Goto(w, "probe")
    /\ container' = [container EXCEPT ![work[w].sub] = TRUE]
    /\ UNCHANGED <<stores, popped, jobs, routines, bench, history>>

(* ... and its port answers.                                               *)
SandboxReady(w) ==
    /\ At(w, "probe") /\ Goto(w, "trigger")
    /\ UpdateStatus(work[w].sub, "READY")
    /\ UNCHANGED <<handler, queue, popped, jobs, container, routines, bench>>

(* classifyContainerError.                                                 *)
ClassifyContainerError(err) ==
    CASE err = "oom" -> "FAILED_RESOURCE"
      [] err = "segfault" -> "FAILED_LOGIC"
      [] err = "unbound" -> "FAILED_STARTUP"
      [] err = "other" -> "FAILED_SYSTEM"

(* Mutant of AfterRunFailure: the half-started container is left behind.   *)
NoDiscard == Idle.pc

(* What process does once RunSandbox has failed.                           *)
AfterRunFailure == "discard"

(* RunSandbox fails, before or after the container exists.                 *)
RunFails(w, err) ==
    /\ (At(w, "start") /\ err # "unbound") \/ At(w, "probe")
    /\ UpdateStatus(work[w].sub, ClassifyContainerError(err))
    /\ Goto(w, AfterRunFailure)
    /\ UNCHANGED <<handler, queue, popped, jobs, container, routines, bench>>

(* Mutant of Discard: the worker never comes back from the removal.        *)
DiscardHangs(w) ==
    /\ At(w, "discard") /\ RemoveContainer(work[w].sub)
    /\ UNCHANGED <<stores, pool, routines, bench>>

(* RemoveContainer by name, on that path.                                  *)
Discard(w) ==
    /\ At(w, "discard") /\ Return(w) /\ RemoveContainer(work[w].sub)
    /\ UNCHANGED <<stores, popped, jobs, routines, bench>>

(* triggerBotFleet: the fleet has accepted the correctness phase (Dispatch *)
(* tries until it does); the performance goroutine starts to sleep.        *)
Trigger(w) ==
    LET s == work[w].sub
    IN  /\ At(w, "trigger") /\ bench[s]["correctness"].pc # "none"
        /\ perf' = [perf EXCEPT ![s] = [pc |-> "sleep", left |-> Correctness + Gap]]
        /\ Goto(w, "mark")
        /\ UNCHANGED <<stores, popped, jobs, container, started, clean, bench, history>>

(* Mutant of MaxWait: no time is left for a dispatch that is delayed.      *)
MaxWaitWithoutBuffer == Correctness + Gap + Performance

(* maxWait: the safety net of the cleanup goroutine.                       *)
MaxWait == Correctness + Gap + Performance + Buffer

(* The row is RUNNING and the cleanup goroutine starts; process returns.   *)
MarkRunning(w) ==
    LET s == work[w].sub
    IN  /\ At(w, "mark") /\ UpdateStatus(s, "RUNNING") /\ Return(w)
        /\ clean' = [clean EXCEPT ![s] = [pc |-> "await", left |-> MaxWait]]
        /\ UNCHANGED <<handler, queue, popped, jobs, container, started, perf, bench>>
-----------------------------------------------------------------------------
(* The performance goroutine wakes up and calls Dispatch.                  *)
PerfWakes(s) ==
    /\ perf[s] = [pc |-> "sleep", left |-> 0]
    /\ perf' = [perf EXCEPT ![s] = [pc |-> "dispatch", left |-> Window]]
    /\ UNCHANGED <<stores, pool, container, started, clean, bench, history>>

(* Dispatch returns, with the 202 or at its deadline, whether or not the   *)
(* fleet has accepted a request by then; perfStarted is closed.            *)
PerfReturns(s) ==
    /\ perf[s].pc = "dispatch"
    /\ bench[s]["performance"].pc # "none" \/ perf[s].left = 0
    /\ perf' = [perf EXCEPT ![s] = [pc |-> "over", left |-> 0]]
    /\ started' = [started EXCEPT ![s] = TRUE]
    /\ UNCHANGED <<stores, pool, container, clean, bench, history>>

(* The cleanup goroutine: perfStarted, and the countdown after it ...      *)
CleanupCountdown(s) ==
    /\ clean[s].pc = "await" /\ started[s]
    /\ clean' = [clean EXCEPT ![s] = [pc |-> "countdown", left |-> Performance + Grace]]
    /\ UNCHANGED <<stores, pool, container, started, perf, bench, history>>

(* ... or the safety net; select takes either if both are ready.           *)
CleanupDue(s) ==
    /\ clean[s].pc \in {"await", "countdown"} /\ clean[s].left = 0
    /\ clean' = [clean EXCEPT ![s] = [pc |-> "finish", left |-> 0]]
    /\ UNCHANGED <<stores, pool, container, started, perf, bench, history>>

(* The row may be marked SUCCESS.                                          *)
StillRunning(s) == status[s] = "RUNNING"

(* SUCCESS, if the row is still RUNNING; the read may fail too.            *)
CleanupMarks(s) ==
    /\ clean[s].pc = "finish"
    /\ clean' = [clean EXCEPT ![s] = [pc |-> "remove", left |-> 0]]
    /\ \/ StillRunning(s) /\ UpdateStatus(s, "SUCCESS")
       \/ ~StillRunning(s) /\ UNCHANGED <<status, history>>
    /\ UNCHANGED <<handler, queue, pool, container, started, perf, bench>>

(* RemoveContainer, and the goroutine ends.                                *)
CleanupRemoves(s) ==
    /\ clean[s].pc = "remove"
    /\ clean' = [clean EXCEPT ![s] = [pc |-> "over", left |-> 0]]
    /\ RemoveContainer(s)
    /\ UNCHANGED <<stores, pool, started, perf, bench>>
-----------------------------------------------------------------------------
(* The fleet accepts the request of a Dispatch under way: the benchmark    *)
(* starts to wait for cores.                                               *)
Dispatching(s, p) ==
    IF p = "correctness" THEN \E w \in Workers : work[w] = [pc |-> "trigger", sub |-> s]
    ELSE perf[s].pc = "dispatch"

FleetAccepts(s, p) ==
    /\ Dispatching(s, p) /\ bench[s][p].pc = "none"
    /\ bench' = [bench EXCEPT ![s][p] = [pc |-> "waiting", left |-> MaxDelay]]
    /\ UNCHANGED <<stores, pool, container, routines, history>>

BenchmarkStarts(s, p) ==
    /\ bench[s][p].pc = "waiting"
    /\ bench' = [bench EXCEPT ![s][p] =
          [pc |-> "running", left |-> IF p = "correctness" THEN Correctness ELSE Performance]]
    /\ UNCHANGED <<stores, pool, container, routines, history>>

BenchmarkEnds(s, p) ==
    /\ bench[s][p] = [pc |-> "running", left |-> 0]
    /\ bench' = [bench EXCEPT ![s][p] = [pc |-> "over", left |-> 0]]
    /\ UNCHANGED <<stores, pool, container, routines, history>>

(* A tick passes: no timer has run out that is not served.                 *)
Timed(t) == t.pc \in {"sleep", "dispatch", "await", "countdown", "waiting", "running"}
After(t) == IF Timed(t) THEN [t EXCEPT !.left = @ - 1] ELSE t
Timers == {perf[s] : s \in Subs} \cup {clean[s] : s \in Subs}
            \cup {bench[s][p] : s \in Subs, p \in Phases}
Tick ==
    /\ \E t \in Timers : Timed(t)
    /\ \A t \in Timers : Timed(t) => t.left > 0
    /\ \A s \in Subs : ~(clean[s].pc = "await" /\ started[s])
    /\ perf' = [s \in Subs |-> After(perf[s])]
    /\ clean' = [s \in Subs |-> After(clean[s])]
    /\ bench' = [s \in Subs |-> [p \in Phases |-> After(bench[s][p])]]
    /\ UNCHANGED <<stores, pool, container, started, history>>

(* Who has work left for s, in the manager's memory.                       *)
Working(s) == {w \in Workers : work[w].sub = s}
InMemory(s) ==
    \/ popped = s \/ (\E i \in DOMAIN jobs : jobs[i] = s) \/ Working(s) # {}
    \/ perf[s].pc \notin {"none", "over"} \/ clean[s].pc \notin {"none", "over"}

(* The sandbox manager stops and starts again.  After SIGTERM the calls of *)
(* a worker fail without effect and the process ends, so that a stop is    *)
(* one step here; goroutines, jobs and timers are gone.                    *)
Restart ==
    /\ restarts < MaxRestarts /\ restarts' = restarts + 1
    /\ dropped' = dropped \cup {s \in Subs : InMemory(s)}
    /\ popped' = Nobody /\ jobs' = <<>> /\ work' = [w \in Workers |-> Idle]
    /\ perf' = [s \in Subs |-> Off] /\ clean' = [s \in Subs |-> Off]
    /\ UNCHANGED <<stores, container, started, bench, faulted, unremoved>>
-----------------------------------------------------------------------------
WorkerStep(w) ==
    \/ Take(w) \/ Fetch(w) \/ BuildImage(w) \/ BuildFails(w)
    \/ StartContainer(w) \/ SandboxReady(w)
    \/ (\E err \in Errors : RunFails(w, err))
    \/ Discard(w) \/ Trigger(w) \/ MarkRunning(w)
CleanupStep(s) ==
    CleanupCountdown(s) \/ CleanupDue(s) \/ CleanupMarks(s) \/ CleanupRemoves(s)
FleetStep(s, p) == BenchmarkStarts(s, p) \/ BenchmarkEnds(s, p)
DispatcherStep == Pop \/ Push

Next ==
    \/ \E s \in Subs : InsertRow(s) \/ Enqueue(s)
    \/ DispatcherStep \/ (\E w \in Workers : WorkerStep(w))
    \/ \E s \in Subs : PerfWakes(s) \/ PerfReturns(s) \/ CleanupStep(s)
    \/ \E s \in Subs, p \in Phases : FleetAccepts(s, p) \/ FleetStep(s, p)
    \/ Tick \/ Restart

(* Goroutines run when they can and time passes; the fleet accepts a       *)
(* correctness phase in the end (FleetPool!DispatchReturns) and starts     *)
(* what it has accepted.  Nothing obliges it to accept a performance phase *)
(* in time, a client to submit, or the manager to restart.                 *)
Fairness ==
    /\ WF_vars(DispatcherStep) /\ WF_vars(Tick)
    /\ \A w \in Workers : WF_vars(WorkerStep(w))
    /\ \A s \in Subs :
        /\ WF_vars(Enqueue(s)) /\ WF_vars(PerfWakes(s)) /\ WF_vars(PerfReturns(s))
        /\ WF_vars(CleanupStep(s)) /\ WF_vars(FleetAccepts(s, "correctness"))
        /\ \A p \in Phases : WF_vars(FleetStep(s, p))

Spec == Init /\ [][Next]_vars /\ Fairness
-----------------------------------------------------------------------------
Terminal == {"SUCCESS", "FAILED_LOGIC", "FAILED_RESOURCE", "FAILED_STARTUP", "FAILED_SYSTEM"}
Statuses == {"none", "PENDING", "BUILDING", "READY", "RUNNING"} \cup Terminal
Harmed == dropped \cup faulted

(* Every variable has its type and no timer is overdue; jobs never holds   *)
(* more than its capacity.                                                 *)
TypeOK ==
    /\ status \in [Subs -> Statuses]
    /\ queue \in Seq(Subs) /\ jobs \in Seq(Subs) /\ Len(jobs) <= Cardinality(Workers)
    /\ popped \in Subs \cup {Nobody}
    /\ work \in [Workers -> [pc : {"idle", "fetch", "build", "start", "probe", "discard",
                                   "trigger", "mark"}, sub : Subs \cup {Nobody}]]
    /\ \A t \in Timers : t.left \in Nat

(* A submission that was answered 202 and is not finished is in exactly    *)
(* one place: in Redis, with the dispatcher, in jobs, with one worker or   *)
(* with its cleanup goroutine.  Only a restart of the manager or a failed  *)
(* call can lose it (BLPOP removes what it returns), and nothing ever      *)
(* doubles it, so that two workers never share a container name.           *)
Places(s) ==
    Cardinality({i \in DOMAIN queue : queue[i] = s}) + Cardinality({i \in DOMAIN jobs : jobs[i] = s})
      + (IF popped = s THEN 1 ELSE 0) + Cardinality(Working(s))
      + (IF clean[s].pc \notin {"none", "over"} THEN 1 ELSE 0)
HeldOnce ==
    \A s \in Subs : /\ Places(s) <= 1
                    /\ (handler[s] = "done" /\ status[s] \notin Terminal /\ s \notin Harmed)
                           => Places(s) = 1

(* A container exists only while a worker or a cleanup goroutine has it:   *)
(* every path of process, failures of calls included, leads to an attempt  *)
(* to remove it, so that only a restart of the manager, or Docker failing  *)
(* that one attempt (it is logged, never repeated), leaves one behind.     *)
(* Conversely the endpoint of a READY or RUNNING submission is there.      *)
ContainerOwned ==
    \A s \in Subs :
        /\ (container[s] /\ s \notin dropped \cup unremoved) =>
              \/ \E w \in Working(s) : work[w].pc \in {"probe", "trigger", "mark", "discard"}
              \/ clean[s].pc \in {"await", "countdown", "finish", "remove"}
        /\ (status[s] \in {"READY", "RUNNING"} /\ s \notin faulted) => container[s]

(* The container is there for as long as a benchmark of it runs, however   *)
(* late the performance phase is dispatched and even if its dispatch is    *)
(* given up, provided cores are free within the grace period: "cleanup now *)
(* waits for a confirmation signal" (workflow_walkthrough.md), and the     *)
(* safety net never fires before that signal.                              *)
ContainerOutlivesBenchmark ==
    \A s \in Subs : \A p \in Phases : bench[s][p].pc = "running" => container[s]

(* A benchmark that is accepted and not over, and the ticks it may still   *)
(* take.                                                                   *)
Duration(p) == IF p = "correctness" THEN Correctness ELSE Performance
Live(s, p) == bench[s][p].pc \in {"waiting", "running"}
Left(s, p) == bench[s][p].left + (IF bench[s][p].pc = "waiting" THEN Duration(p) ELSE 0)

(* The phases run one after the other: "correctness must complete before   *)
(* performance so the checker finalises the verdict first"                 *)
(* (triggerBotFleet).                                                      *)
PhasesSequential ==
    \A s \in Subs : bench[s]["performance"].pc = "running"
                        => bench[s]["correctness"].pc = "over"

(* What the fixed sleep of triggerBotFleet does give: once the fleet has   *)
(* accepted the performance phase, all that can be left of the correctness *)
(* phase is what the longest wait for cores exceeds the gap by.  With no   *)
(* such excess the phases never overlap.                                   *)
OverlapWithinWait ==
    \A s \in Subs :
        (bench[s]["performance"].pc # "none" /\ Live(s, "correctness"))
            => Left(s, "correctness") + Gap <= MaxDelay

(* Every accepted submission reaches a final status and its container is   *)
(* removed, unless a restart or a failed call to the stores concerned it:  *)
(* the failures of one submission never hold up another.  Where Docker     *)
(* fails the one removal the status is still reached, and the container    *)
(* stays.                                                                  *)
EveryJobFinishes ==
    \A s \in Subs : status[s] = "PENDING"
        ~> (\/ status[s] \in Terminal /\ (container[s] => s \in unremoved)
            \/ s \in Harmed)
=============================================================================
