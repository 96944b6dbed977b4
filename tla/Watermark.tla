------------------------------ MODULE Watermark ------------------------------
(***************************************************************************)
(* Event-time reordering in the artifact checker                           *)
(* (artifact-checker/internal/watermark): the Router goroutine fans the    *)
(* consumer's events out to one Processor goroutine per submission; a      *)
(* Processor buffers events in a min-heap and releases those behind the    *)
(* watermark, and the whole heap on the end-of-run marker, on an idle      *)
(* timeout and when its channel closes.                                    *)
(*                                                                         *)
(* An event is [id, sub, ts, end]: id numbers the arrivals, so that it     *)
(* also stands for the ingest sequence that breaks timestamp ties.  The    *)
(* consumer has already dropped events without a submission id.  In the    *)
(* heap and in out an event also carries two history fields, set when its  *)
(* Processor receives it: at, how much had been emitted by then, and late, *)
(* whether the watermark or a flush had already passed it by.              *)
(***************************************************************************)
EXTENDS Integers, Sequences, FiniteSets

CONSTANTS Subs,          \* submission ids
          Feed,          \* what the consumer may deliver: [sub, ts, end]
          Lateness,      \* AllowedLateness
          WorkerBuffer,  \* capacity of a worker's channel
          OutCap,        \* capacity of the output channel
          MaxEvents      \* bound on the arrivals

ASSUME WatermarkBounds ==
    /\ Feed \subseteq [sub : Subs, ts : Nat, end : BOOLEAN] /\ Lateness \in Nat /\ MaxEvents \in Nat
    /\ WorkerBuffer \in Nat \ {0} /\ OutCap \in Nat \ {0}

VARIABLES arrived,    \* number of events received from the consumer's channel
          cancelled,  \* the service context is done
          router,     \* the Router: "run", "send", "wait" or "done"
          held,       \* the event the Router is handing over
          wchan,      \* channel of each worker
          wclosed,    \* whether the workers' channels are closed
          pc,         \* each Processor: "none", "recv", "emit", "flush", "drain", "done"
          heap,       \* each Processor's buffered events
          maxSeen,    \* each Processor's MaxSeenTimestamp
          flushed,    \* history: the Processor has flushed before its channel closed
          out,        \* everything sent downstream, in order
          taken,      \* how much of out the engine has received
          outClosed

routerVars == <<router, held, wclosed, outClosed>>
procVars == <<heap, maxSeen, flushed>>
vars == <<arrived, cancelled, routerVars, wchan, pc, procVars, out, taken>>

Events == [id : 1..MaxEvents, sub : Subs, ts : Nat, end : BOOLEAN]
NoEvent == [id |-> 0]

Init ==
    /\ arrived = 0 /\ cancelled = FALSE
    /\ router = "run" /\ held = NoEvent /\ wclosed = FALSE /\ outClosed = FALSE
    /\ wchan = [s \in Subs |-> <<>>]
    /\ pc = [s \in Subs |-> "none"]
    /\ heap = [s \in Subs |-> {}]
    /\ maxSeen = [s \in Subs |-> 0]
    /\ flushed = [s \in Subs |-> FALSE]
    /\ out = <<>> /\ taken = 0

OutHasRoom == Len(out) - taken < OutCap
-----------------------------------------------------------------------------
(* Another goroutine of the service failed, or a signal came.              *)
CancelService ==
    /\ ~cancelled /\ cancelled' = TRUE
    /\ UNCHANGED <<arrived, routerVars, wchan, pc, procVars, out, taken>>

(* The engine receives from out.                                           *)
Downstream ==
    /\ taken < Len(out) /\ taken' = taken + 1
    /\ UNCHANGED <<arrived, cancelled, routerVars, wchan, pc, procVars, out>>
-----------------------------------------------------------------------------
(* Router.Run receives the consumer's next event, of any event time, and   *)
(* starts its submission's worker if the map has none.                     *)
RouterReceive(ev) ==
    /\ router = "run" /\ arrived < MaxEvents
    /\ arrived' = arrived + 1
    /\ held' = [id |-> arrived', sub |-> ev.sub, ts |-> ev.ts, end |-> ev.end]
    /\ router' = "send"
    /\ pc' = [pc EXCEPT ![ev.sub] = IF @ = "none" THEN "recv" ELSE @]
    /\ UNCHANGED <<cancelled, wclosed, outClosed, wchan, procVars, out, taken>>

(* Mutant of RouterSend: the hand-over ignores the worker's buffer size.   *)
RouterSendUnbounded ==
    /\ router = "send"
    /\ wchan' = [wchan EXCEPT ![held.sub] = Append(@, held)]
    /\ router' = "run" /\ held' = NoEvent
    /\ UNCHANGED <<arrived, cancelled, wclosed, outClosed, pc, procVars, out, taken>>

(* The hand-over: blocked while the worker's channel is full.              *)
RouterSend ==
    /\ router = "send" /\ Len(wchan[held.sub]) < WorkerBuffer
    /\ wchan' = [wchan EXCEPT ![held.sub] = Append(@, held)]
    /\ router' = "run" /\ held' = NoEvent
    /\ UNCHANGED <<arrived, cancelled, wclosed, outClosed, pc, procVars, out, taken>>

(* Mutant of RouterStop: a full worker channel makes the Router give up.   *)
RouterStopDropping ==
    /\ router \in {"run", "send"}
    /\ wclosed' = TRUE /\ router' = "wait" /\ held' = NoEvent
    /\ UNCHANGED <<arrived, cancelled, outClosed, wchan, pc, procVars, out, taken>>

(* closeWorkers: when the consumer closes its channel, or on cancellation, *)
(* also while the Router is blocked on a full worker channel (its event is *)
(* then dropped).                                                          *)
RouterStop ==
    /\ router = "run" \/ (router = "send" /\ cancelled)
    /\ wclosed' = TRUE /\ router' = "wait" /\ held' = NoEvent
    /\ UNCHANGED <<arrived, cancelled, outClosed, wchan, pc, procVars, out, taken>>

(* Mutant of RouterFinish: out is closed without waiting for the workers.  *)
RouterFinishEarly ==
    /\ router = "wait"
    /\ router' = "done" /\ outClosed' = TRUE
    /\ UNCHANGED <<arrived, cancelled, held, wclosed, wchan, pc, procVars, out, taken>>

(* wg.Wait, then the deferred close(out).                                  *)
RouterFinish ==
    /\ router = "wait" /\ \A s \in Subs : pc[s] \in {"none", "done"}
    /\ router' = "done" /\ outClosed' = TRUE
    /\ UNCHANGED <<arrived, cancelled, held, wclosed, wchan, pc, procVars, out, taken>>
-----------------------------------------------------------------------------
(* EventHeap.Less: earlier event time first, then earlier arrival.         *)
Less(e, f) == e.ts < f.ts \/ (e.ts = f.ts /\ e.id < f.id)
Root(s) == CHOOSE e \in heap[s] : \A f \in heap[s] \ {e} : Less(e, f)
WatermarkOf(s) == maxSeen[s] - Lateness

(* Mutant of NextStage: the marker is treated like any other event.        *)
NextStageIgnoringEnd(ev) == "emit"

(* Process: the marker flushes the heap, any other event releases what the *)
(* watermark has passed.                                                   *)
NextStage(ev) == IF ev.end THEN "flush" ELSE "emit"

(* Process, first half: Enqueue.                                           *)
Receive(s) ==
    /\ pc[s] = "recv" /\ wchan[s] # <<>>
    /\ LET ev == Head(wchan[s])
           item == [id |-> ev.id, sub |-> s, ts |-> ev.ts, end |-> ev.end,
                    at |-> Len(out), late |-> flushed[s] \/ ev.ts <= WatermarkOf(s)]
       IN  /\ heap' = [heap EXCEPT ![s] = @ \cup {item}]
           /\ maxSeen' = [maxSeen EXCEPT ![s] = IF ev.ts > @ THEN ev.ts ELSE @]
           /\ pc' = [pc EXCEPT ![s] = NextStage(ev)]
           /\ flushed' = [flushed EXCEPT ![s] = @ \/ ev.end]
    /\ wchan' = [wchan EXCEPT ![s] = Tail(@)]
    /\ UNCHANGED <<arrived, cancelled, routerVars, out, taken>>

(* heap.Pop and send: blocked while out is full.                           *)
PopAndSend(s) ==
    /\ OutHasRoom
    /\ out' = Append(out, Root(s))
    /\ heap' = [heap EXCEPT ![s] = @ \ {Root(s)}]
    /\ UNCHANGED <<maxSeen, flushed>>

(* Mutant of Ready: the newest events go out too, one lateness too early.  *)
ReadyEarly(s) == heap[s] # {} /\ Root(s).ts <= maxSeen[s]

(* The test of EmitReady's loop.                                           *)
Ready(s) == heap[s] # {} /\ Root(s).ts <= WatermarkOf(s)

EmitReady(s) ==
    /\ pc[s] = "emit"
    /\ \/ Ready(s) /\ PopAndSend(s) /\ UNCHANGED pc
       \/ ~Ready(s) /\ pc' = [pc EXCEPT ![s] = "recv"] /\ UNCHANGED <<procVars, out>>
    /\ UNCHANGED <<arrived, cancelled, routerVars, wchan, taken>>

(* Flush, by Process on the marker, by the idle timer, or at the end.      *)
Flush(s) ==
    /\ pc[s] \in {"flush", "drain"}
    /\ \/ heap[s] # {} /\ PopAndSend(s) /\ UNCHANGED pc
       \/ /\ heap[s] = {}
          /\ pc' = [pc EXCEPT ![s] = IF @ = "flush" THEN "recv" ELSE "done"]
          /\ UNCHANGED <<procVars, out>>
    /\ UNCHANGED <<arrived, cancelled, routerVars, wchan, taken>>

(* Mutant of IdleFlush: the idle timer is never re-armed.                  *)
IdleNever(s) == FALSE /\ UNCHANGED vars

(* The idle timer fires; an event may have become ready at the same time,  *)
(* and select picks either.                                                *)
IdleFlush(s) ==
    /\ pc[s] = "recv" /\ heap[s] # {}
    /\ pc' = [pc EXCEPT ![s] = "flush"]
    /\ flushed' = [flushed EXCEPT ![s] = TRUE]
    /\ UNCHANGED <<arrived, cancelled, routerVars, wchan, heap, maxSeen, out, taken>>

(* The worker's channel is closed and empty: the final Flush.              *)
InputEnded(s) ==
    /\ pc[s] = "recv" /\ wclosed /\ wchan[s] = <<>>
    /\ pc' = [pc EXCEPT ![s] = "drain"]
    /\ UNCHANGED <<arrived, cancelled, routerVars, wchan, procVars, out, taken>>

(* ctx.Done wins a select of Run or of send: whatever is buffered is gone. *)
ProcessorCancelled(s) ==
    /\ cancelled /\ pc[s] \in {"recv", "emit", "flush", "drain"}
    /\ pc' = [pc EXCEPT ![s] = "done"]
    /\ UNCHANGED <<arrived, cancelled, routerVars, wchan, procVars, out, taken>>
-----------------------------------------------------------------------------
RouterStep == RouterSend \/ RouterFinish
ProcessorStep(s) ==
    Receive(s) \/ EmitReady(s) \/ Flush(s) \/ InputEnded(s) \/ ProcessorCancelled(s)

Next ==
    \/ \E ev \in Feed : RouterReceive(ev)
    \/ RouterStop \/ RouterStep
    \/ CancelService \/ Downstream
    \/ \E s \in Subs : ProcessorStep(s) \/ IdleFlush(s)

(* Goroutines run when they can, the timer fires in a silence, and the     *)
(* engine's Run loop keeps draining out.  Nothing obliges the consumer to  *)
(* deliver, to stop or to fail.                                            *)
Fairness ==
    /\ WF_vars(RouterStep) /\ WF_vars(Downstream)
    /\ \A s \in Subs : WF_vars(ProcessorStep(s)) /\ WF_vars(IdleFlush(s))

Spec == Init /\ [][Next]_vars /\ Fairness
-----------------------------------------------------------------------------
OutIds == {out[i].id : i \in DOMAIN out}
ChanIds(c) == {c[i].id : i \in DOMAIN c}
HeapIds(s) == {e.id : e \in heap[s]}

(* Every variable has its type; no channel holds more than its capacity.   *)
TypeOK ==
    /\ arrived \in 0..MaxEvents
    /\ router \in {"run", "send", "wait", "done"}
    /\ held \in Events \cup {NoEvent} /\ (router = "send" <=> held # NoEvent)
    /\ \A s \in Subs : wchan[s] \in Seq(Events) /\ Len(wchan[s]) <= WorkerBuffer
    /\ pc \in [Subs -> {"none", "recv", "emit", "flush", "drain", "done"}]
    /\ taken \in 0..Len(out) /\ Len(out) - taken <= OutCap

(* A submission's events leave in event-time order, except for an event    *)
(* that the watermark or a flush had passed by before it arrived; and even *)
(* then nothing overtakes an earlier event that was already buffered.      *)
InOrderUnlessLate ==
    \A i, j \in DOMAIN out :
        (i < j /\ out[i].sub = out[j].sub /\ Less(out[j], out[i]))
            => out[j].late /\ out[j].at >= i

(* Once a Processor is back at its select after an end-of-run marker, the  *)
(* marker and everything received before it, also what the watermark has   *)
(* not passed, is downstream.                                              *)
EndFlushesBacklog ==
    \A s \in Subs : \A m \in heap[s] \cup {out[i] : i \in DOMAIN out} :
        (pc[s] = "recv" /\ m.sub = s /\ m.end) => \A e \in heap[s] : e.id > m.id

(* No event is lost or duplicated between the consumer and the engine      *)
(* while the service is not cancelled, whatever is in flight where.        *)
NothingLostOrRepeated ==
    /\ \A i, j \in DOMAIN out : out[i].id = out[j].id => i = j
    /\ ~cancelled => 1..arrived = ({held.id} \ {0}) \cup OutIds
                        \cup UNION {ChanIds(wchan[s]) \cup HeapIds(s) : s \in Subs}

(* Every event reaches the engine or the service is cancelled: without the *)
(* idle timer the newest events would wait for a later timestamp for ever. *)
EventuallyEmitted ==
    \A n \in 1..MaxEvents : arrived >= n ~> (n \in OutIds \/ cancelled)
=============================================================================
