---------------------------- MODULE ReplayEngine ----------------------------
(***************************************************************************)
(* The goroutines of the replay engine (Engine.Run, dispatch, flushAll and *)
(* takeEvents in artifact-checker/internal/replayengine/engine.go): the    *)
(* Run loop buffers events and hands a finished submission to a worker,    *)
(* workers replay under a semaphore and send one verdict each, and the     *)
(* updates channel is closed when all is done.                             *)
(*                                                                         *)
(* An event is [id, sub, end]; what a replay makes of the events is        *)
(* Replay.tla's subject, so an update carries the events it was made from. *)
(***************************************************************************)
EXTENDS Integers, Sequences, FiniteSets

CONSTANTS Subs,       \* submission ids
          Workers,    \* concurrent replays allowed (GOMAXPROCS)
          InCap,      \* capacity of the channel from the router
          UpdCap,     \* capacity of the updates channel
          MaxEvents   \* bound on the events offered

ASSUME EngineBounds ==
    /\ IsFiniteSet(Subs)
    /\ Workers \in Nat \ {0} /\ InCap \in Nat \ {0}
    /\ UpdCap \in Nat \ {0} /\ MaxEvents \in Nat

VARIABLES in,         \* channel from the router
          inClosed,
          offered,    \* events put on in so far
          cancelled,  \* the service context is done
          run,        \* Run: "loop", "flush" (flushAll), "wait" (wg.Wait), "done"
          buffers,    \* buffered events of each submission
          finalized,  \* submissions whose events were lifted off the buffers
          worker,     \* each submission's worker: "none", "spawned", "replaying", "done"
          lifted,     \* the events each worker owns
          sem,        \* slots of the semaphore in use
          updates,    \* every verdict sent, in order
          taken,      \* how many of them the aggregator has received
          updClosed,
          seen        \* history: every event Run received, by submission

vars == <<in, inClosed, offered, cancelled, run, buffers, finalized, worker, lifted,
          sem, updates, taken, updClosed, seen>>

Events == [id : 1..MaxEvents, sub : Subs, end : BOOLEAN]
Updates == [sub : Subs, events : Seq(Events)]

Init ==
    /\ in = <<>> /\ inClosed = FALSE /\ offered = 0 /\ cancelled = FALSE
    /\ run = "loop"
    /\ buffers = [s \in Subs |-> <<>>]
    /\ finalized = {}
    /\ worker = [s \in Subs |-> "none"]
    /\ lifted = [s \in Subs |-> <<>>]
    /\ sem = 0
    /\ updates = <<>> /\ taken = 0 /\ updClosed = FALSE
    /\ seen = [s \in Subs |-> <<>>]

(* Mutant of UpdatesHaveRoom: a send does not block on a full channel.     *)
SendsUnbounded == TRUE

(* A send on the updates channel can go through.                           *)
UpdatesHaveRoom == Len(updates) - taken < UpdCap
-----------------------------------------------------------------------------
(* The router puts an event on the channel, or closes it.                  *)
Offer(s, end) ==
    /\ ~inClosed /\ offered < MaxEvents /\ Len(in) < InCap
    /\ offered' = offered + 1
    /\ in' = Append(in, [id |-> offered', sub |-> s, end |-> end])
    /\ UNCHANGED <<inClosed, cancelled, run, buffers, finalized, worker, lifted, sem,
                   updates, taken, updClosed, seen>>

CloseIn ==
    /\ ~inClosed /\ inClosed' = TRUE
    /\ UNCHANGED <<in, offered, cancelled, run, buffers, finalized, worker, lifted, sem,
                   updates, taken, updClosed, seen>>

(* Another goroutine of the service failed, or a signal came.              *)
CancelService ==
    /\ ~cancelled /\ cancelled' = TRUE
    /\ UNCHANGED <<in, inClosed, offered, run, buffers, finalized, worker, lifted, sem,
                   updates, taken, updClosed, seen>>

(* The aggregator receives a verdict.                                      *)
Downstream ==
    /\ taken < Len(updates) /\ taken' = taken + 1
    /\ UNCHANGED <<in, inClosed, offered, cancelled, run, buffers, finalized, worker,
                   lifted, sem, updates, updClosed, seen>>
-----------------------------------------------------------------------------
(* Mutant of Accepts: a straggler is buffered like any event.    *)
StragglersToo(s) == TRUE

(* Run buffers an event unless its submission's verdict is final.          *)
Accepts(s) == s \notin finalized

(* Mutant of CanDispatch: the slot is taken on the Run goroutine.          *)
SlotFree == sem < Workers

(* dispatch never waits on the Run goroutine: the worker takes the slot.   *)
CanDispatch == TRUE

(* Mutant of TakeEvents: the submission is not marked final.               *)
TakeKeepsOpen(s) ==
    /\ buffers' = [buffers EXCEPT ![s] = <<>>]
    /\ finalized' = finalized

(* takeEvents: the buffered events change owner and the submission is      *)
(* final.                                                                  *)
TakeEvents(s) ==
    /\ buffers' = [buffers EXCEPT ![s] = <<>>]
    /\ finalized' = finalized \cup {s}

(* Run receives an event of a submission already judged: a straggler.      *)
RunIgnore ==
    /\ run = "loop" /\ in # <<>> /\ ~Accepts(Head(in).sub)
    /\ seen' = [seen EXCEPT ![Head(in).sub] = Append(@, Head(in))]
    /\ in' = Tail(in)
    /\ UNCHANGED <<inClosed, offered, cancelled, run, buffers, finalized, worker, lifted,
                   sem, updates, taken, updClosed>>

(* Run buffers an event that is not an end-of-run marker.                  *)
RunBuffer ==
    /\ run = "loop" /\ in # <<>> /\ Accepts(Head(in).sub) /\ ~Head(in).end
    /\ seen' = [seen EXCEPT ![Head(in).sub] = Append(@, Head(in))]
    /\ buffers' = [buffers EXCEPT ![Head(in).sub] = Append(@, Head(in))]
    /\ in' = Tail(in)
    /\ UNCHANGED <<inClosed, offered, cancelled, run, finalized, worker, lifted, sem,
                   updates, taken, updClosed>>

(* Run receives the marker: buffer it, lift the events, start a worker.    *)
RunDispatch ==
    /\ run = "loop" /\ in # <<>> /\ Accepts(Head(in).sub) /\ Head(in).end
    /\ CanDispatch
    /\ seen' = [seen EXCEPT ![Head(in).sub] = Append(@, Head(in))]
    /\ lifted' = [lifted EXCEPT ![Head(in).sub] = Append(buffers[Head(in).sub], Head(in))]
    /\ TakeEvents(Head(in).sub)
    /\ worker' = [worker EXCEPT ![Head(in).sub] = "spawned"]
    /\ in' = Tail(in)
    /\ UNCHANGED <<inClosed, offered, cancelled, run, sem, updates, taken, updClosed>>

(* The channel is closed and empty: flushAll.                              *)
RunInputEnded ==
    /\ run = "loop" /\ inClosed /\ in = <<>>
    /\ run' = "flush"
    /\ UNCHANGED <<in, inClosed, offered, cancelled, buffers, finalized, worker, lifted,
                   sem, updates, taken, updClosed, seen>>

(* flushAll sends the verdict of a submission whose marker never came.     *)
FlushOne(s) ==
    /\ run = "flush" /\ buffers[s] # <<>> /\ UpdatesHaveRoom
    /\ updates' = Append(updates, [sub |-> s, events |-> buffers[s]])
    /\ TakeEvents(s)
    /\ UNCHANGED <<in, inClosed, offered, cancelled, run, worker, lifted, sem, taken,
                   updClosed, seen>>

FlushDone ==
    /\ run = "flush" /\ \A s \in Subs : buffers[s] = <<>>
    /\ run' = "wait"
    /\ UNCHANGED <<in, inClosed, offered, cancelled, buffers, finalized, worker, lifted,
                   sem, updates, taken, updClosed, seen>>

(* ctx.Done wins the select of that send: the submission is final, without *)
(* a verdict, and flushAll gives up.                                       *)
FlushCancelled(s) ==
    /\ run = "flush" /\ buffers[s] # <<>> /\ cancelled
    /\ TakeEvents(s)
    /\ run' = "wait"
    /\ UNCHANGED <<in, inClosed, offered, cancelled, worker, lifted, sem, updates, taken,
                   updClosed, seen>>

(* ctx.Done wins the select of the Run loop.                               *)
RunCancelled ==
    /\ cancelled /\ run = "loop"
    /\ run' = "wait"
    /\ UNCHANGED <<in, inClosed, offered, cancelled, buffers, finalized, worker, lifted,
                   sem, updates, taken, updClosed, seen>>

(* Mutant of WorkersDone: the deferred wg.Wait is missing.                 *)
NoWait == TRUE

(* wg.Wait returns.                                                        *)
WorkersDone == \A s \in Subs : worker[s] \in {"none", "done"}

(* The deferred calls of Run: wg.Wait, then close(updates).                *)
RunFinish ==
    /\ run = "wait" /\ WorkersDone
    /\ run' = "done" /\ updClosed' = TRUE
    /\ UNCHANGED <<in, inClosed, offered, cancelled, buffers, finalized, worker, lifted,
                   sem, updates, taken, seen>>
-----------------------------------------------------------------------------
(* A worker takes a slot of the semaphore.                                 *)
Acquire(s) ==
    /\ worker[s] = "spawned" /\ sem < Workers
    /\ sem' = sem + 1
    /\ worker' = [worker EXCEPT ![s] = "replaying"]
    /\ UNCHANGED <<in, inClosed, offered, cancelled, run, buffers, finalized, lifted,
                   updates, taken, updClosed, seen>>

(* Mutant of Release: the deferred receive from the semaphore is missing.  *)
NoRelease == sem

(* The slot given back by the worker's deferred receive.                   *)
Release == sem - 1

(* A worker sends its verdict, gives the slot back and is done.            *)
SendVerdict(s) ==
    /\ worker[s] = "replaying" /\ UpdatesHaveRoom
    /\ updates' = Append(updates, [sub |-> s, events |-> lifted[s]])
    /\ sem' = Release
    /\ worker' = [worker EXCEPT ![s] = "done"]
    /\ UNCHANGED <<in, inClosed, offered, cancelled, run, buffers, finalized, lifted,
                   taken, updClosed, seen>>

(* ctx.Done wins the worker's select: no verdict is sent.                  *)
WorkerCancelled(s) ==
    /\ cancelled /\ worker[s] \in {"spawned", "replaying"}
    /\ sem' = IF worker[s] = "replaying" THEN Release ELSE sem
    /\ worker' = [worker EXCEPT ![s] = "done"]
    /\ UNCHANGED <<in, inClosed, offered, cancelled, run, buffers, finalized, lifted,
                   updates, taken, updClosed, seen>>
-----------------------------------------------------------------------------
RunStep ==
    \/ RunIgnore \/ RunBuffer \/ RunDispatch \/ RunInputEnded
    \/ (\E s \in Subs : FlushOne(s) \/ FlushCancelled(s))
    \/ FlushDone \/ RunCancelled \/ RunFinish

WorkerStep(s) == Acquire(s) \/ SendVerdict(s) \/ WorkerCancelled(s)

Environment ==
    \/ \E s \in Subs, end \in BOOLEAN : Offer(s, end)
    \/ CloseIn \/ CancelService \/ Downstream

Next == RunStep \/ (\E s \in Subs : WorkerStep(s)) \/ Environment

(* Goroutines run when they can.  Blocked workers are served in some order *)
(* (a channel queues its senders), hence strong fairness.  Nothing is      *)
(* assumed of the router or the aggregator.                                *)
Fairness == WF_vars(RunStep) /\ \A s \in Subs : SF_vars(WorkerStep(s))

Spec == Init /\ [][Next]_vars /\ Fairness
-----------------------------------------------------------------------------
(* Every variable has its type; no channel holds more than its capacity.   *)
TypeOK ==
    /\ in \in Seq(Events) /\ Len(in) <= InCap
    /\ inClosed \in BOOLEAN /\ offered \in 0..MaxEvents /\ cancelled \in BOOLEAN
    /\ run \in {"loop", "flush", "wait", "done"}
    /\ buffers \in [Subs -> Seq(Events)] /\ finalized \in SUBSET Subs
    /\ worker \in [Subs -> {"none", "spawned", "replaying", "done"}]
    /\ lifted \in [Subs -> Seq(Events)]
    /\ sem \in Int
    /\ updates \in Seq(Updates) /\ taken \in 0..Len(updates)
    /\ Len(updates) - taken <= UpdCap
    /\ updClosed \in BOOLEAN
    /\ seen \in [Subs -> Seq(Events)]

(* updates is closed only when no goroutine can send on it any more: the   *)
(* send of a worker, or of flushAll, on the closed channel would panic.    *)
NoSendAfterClose ==
    updClosed => run = "done" /\ \A s \in Subs : worker[s] \in {"none", "done"}

(* A submission is judged at most once, however late events, its marker    *)
(* and the shutdown flush interleave.                                      *)
OneVerdictPerSubmission ==
    \A i, j \in DOMAIN updates : updates[i].sub = updates[j].sub => i = j

(* ev is what a submission sent, in order, from its first event to its     *)
(* first end-of-run marker, all being everything it ever sent.             *)
UpToMarker(ev, all) ==
    /\ Len(ev) \in 1..Len(all)
    /\ \A k \in 1..Len(ev) : ev[k] = all[k] /\ (ev[k].end <=> k = Len(ev))

(* ev is everything a submission sent, no marker among it.                 *)
AllUnmarked(ev, all) ==
    /\ Len(ev) = Len(all)
    /\ \A k \in 1..Len(ev) : ev[k] = all[k] /\ ~ev[k].end

(* A verdict is made from everything its submission had sent, in order, up *)
(* to and including its first end-of-run marker (up to the end of input if *)
(* none came): no event is dropped, duplicated or taken from a later run.  *)
VerdictOnWholeStream ==
    \A i \in DOMAIN updates :
        LET u == updates[i]
        IN  UpToMarker(u.events, seen[u.sub]) \/ AllUnmarked(u.events, seen[u.sub])

(* The slots in use are those of the replays under way, Workers at most.   *)
SemaphoreExact ==
    sem = Cardinality({s \in Subs : worker[s] = "replaying"}) /\ sem <= Workers

(* The Run loop drains its input even if the aggregator never takes a      *)
(* verdict: "a burst of end-of-run markers can never stall the upstream    *)
(* watermark router or the Kafka consumer" (engine.go).                    *)
NeverStallsUpstream == (in # <<>>) ~> (in = <<>> \/ cancelled)
=============================================================================
