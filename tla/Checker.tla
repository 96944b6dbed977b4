------------------------------ MODULE Checker ------------------------------
(***************************************************************************)
(* The grading path of the artifact checker, composed: the router and the  *)
(* processors of Watermark.tla and the replay engine of ReplayEngine.tla,  *)
(* joined by the orderedEvents channel (cmd/artifact-checker/main.go) and  *)
(* cancelled together.  Where Watermark assumes a reader that keeps        *)
(* receiving, the reader here is the engine's Run loop; where ReplayEngine *)
(* takes any events in any order, they come from the processors.           *)
(***************************************************************************)
EXTENDS Watermark

CONSTANTS Workers,   \* concurrent replays (see ReplayEngine)
          UpdCap     \* capacity of the updates channel

ASSUME CheckerBounds ==
    IsFiniteSet(Subs) /\ Workers \in Nat \ {0} /\ UpdCap \in Nat \ {0}

VARIABLES run, buffers, finalized, worker, lifted, sem, updates, updTaken, updClosed,
          seen       \* the engine's variables (see ReplayEngine)

engineVars == <<run, buffers, finalized, worker, lifted, sem, updates, updTaken,
                updClosed, seen>>
checkerVars == <<vars, engineVars>>

(* orderedEvents: what the processors sent and the engine has not taken.   *)
(* The engine knows an event by its place in that stream.                  *)
OrderedEvents ==
    [i \in 1..(Len(out) - taken) |->
        [id |-> taken + i, sub |-> out[taken + i].sub, end |-> out[taken + i].end]]

Engine == INSTANCE ReplayEngine WITH
    InCap <- OutCap, in <- OrderedEvents, inClosed <- outClosed, offered <- Len(out),
    taken <- updTaken

CheckerInit == Init /\ Engine!Init

(* The Run loop receives an event.                                         *)
EngineReceives ==
    Downstream /\ (Engine!RunIgnore \/ Engine!RunBuffer \/ Engine!RunDispatch)

(* The other steps of the Run loop and the steps of the workers.           *)
EngineRuns ==
    /\ UNCHANGED vars
    /\ \/ Engine!RunInputEnded \/ Engine!FlushDone \/ Engine!RunCancelled \/ Engine!RunFinish
       \/ \E s \in Subs : Engine!FlushOne(s) \/ Engine!FlushCancelled(s)

WorkerRuns(s) == UNCHANGED vars /\ Engine!WorkerStep(s)

(* The aggregator receives a verdict.                                      *)
AggregatorReceives == UNCHANGED vars /\ Engine!Downstream

(* The consumer, the router and the processors.                            *)
Upstream(Step) == Step /\ UNCHANGED engineVars

CheckerNext ==
    \/ EngineReceives \/ EngineRuns \/ AggregatorReceives
    \/ \E s \in Subs : WorkerRuns(s) \/ Upstream(ProcessorStep(s)) \/ Upstream(IdleFlush(s))
    \/ \E ev \in Feed : Upstream(RouterReceive(ev))
    \/ Upstream(RouterStop) \/ Upstream(RouterStep) \/ Upstream(CancelService)

(* Every goroutine runs when it can, the idle timer fires in a silence and *)
(* the aggregator keeps receiving (Scoreboard).  Nothing is assumed of the *)
(* consumer.                                                               *)
CheckerFairness ==
    /\ WF_checkerVars(EngineReceives) /\ WF_checkerVars(EngineRuns)
    /\ WF_checkerVars(AggregatorReceives) /\ WF_checkerVars(Upstream(RouterStep))
    /\ \A s \in Subs :
          /\ SF_checkerVars(WorkerRuns(s)) /\ WF_checkerVars(Upstream(ProcessorStep(s)))
          /\ WF_checkerVars(Upstream(IdleFlush(s)))

CheckerSpec == CheckerInit /\ [][CheckerNext]_checkerVars /\ CheckerFairness
-----------------------------------------------------------------------------
(* Every event of s that the checker has received and not lost.            *)
Known(s) ==
    {e \in {held} \cup heap[s] \cup {wchan[s][i] : i \in DOMAIN wchan[s]}
             \cup {out[i] : i \in DOMAIN out} : e # NoEvent /\ e.sub = s}

(* A verdict misses nothing: made at the marker, it covers every event of  *)
(* the submission that came in before the marker with an earlier event     *)
(* time, however the events were reordered, delayed by lateness or blocked *)
(* on the way; made at the end of the input, it covers them all.           *)
VerdictCoversArrivals ==
    \A i \in DOMAIN updates :
        LET used == {out[e.id] : e \in {updates[i].events[k] : k \in DOMAIN updates[i].events}}
            ends == {m \in used : m.end}
            due == {e \in Known(updates[i].sub) :
                       ends = {} \/ \E m \in ends : e.id < m.id /\ Less(e, m)}
        IN  cancelled \/ {e.id : e \in due} \subseteq {u.id : u \in used}

Judged(s) == \E i \in DOMAIN updates : updates[i].sub = s

(* A submission whose marker the checker has received is judged, through   *)
(* the router, the heap, the engine and a worker; one whose marker was     *)
(* lost is judged when the input closes, by flushAll.  Only a cancelled    *)
(* service may leave a submission unjudged.                                *)
RunsJudged ==
    \A s \in Subs :
        /\ (held # NoEvent /\ held.sub = s /\ held.end) ~> (Judged(s) \/ cancelled)
        /\ (router = "wait" /\ pc[s] # "none") ~> (Judged(s) \/ cancelled)
=============================================================================
