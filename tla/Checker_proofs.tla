---------------------------- MODULE Checker_proofs ----------------------------
(***************************************************************************)
(* First the reordering alone keeps its promises for any submissions,      *)
(* feed, lateness, capacities and number of events: nothing is lost or     *)
(* repeated, the marker flushes what came before it, and only a late event *)
(* leaves out of order.                                                    *)
(*                                                                         *)
(* Then the grading path as a whole: what that part shows of the           *)
(* processors and ReplayEngine_proofs of the engine carries over to their  *)
(* composition, and together they give what neither says alone, that a     *)
(* verdict misses no event that came in before its marker.                 *)
(*                                                                         *)
(* The argument: a step of the composition is a step, or none, of each     *)
(* part (ReorderingStep, EngineStep); the events the engine has seen are   *)
(* those it took from out, in order (SeenIsTaken); an event that arrived   *)
(* before the marker, with an earlier event time, left before it, since    *)
(* only what comes in after the marker has left may follow it (AtAfter);   *)
(* and a run is judged without a marker only when everything has left the  *)
(* processors and has been taken (Drained, LoopEnds).                      *)
(***************************************************************************)
EXTENDS Checker, WellFoundedInduction, FiniteSetTheorems, TLAPS

(* An event in the heap and in out.                                        *)
Items == [id : Nat \ {0}, sub : Subs, ts : Nat, end : BOOLEAN, at : Nat, late : BOOLEAN]

(* The types of the router's and of the processors' state.                 *)
RouterTypes ==
    /\ arrived \in 0..MaxEvents /\ cancelled \in BOOLEAN
    /\ router \in {"run", "send", "wait", "done"}
    /\ held \in Events \cup {NoEvent} /\ (router = "send" <=> held # NoEvent)
    /\ wchan \in [Subs -> Seq(Events)] /\ \A s \in Subs : Len(wchan[s]) <= WorkerBuffer
ProcTypes ==
    /\ pc \in [Subs -> {"none", "recv", "emit", "flush", "drain", "done"}]
    /\ heap \in [Subs -> SUBSET Items]
    /\ maxSeen \in [Subs -> Nat] /\ flushed \in [Subs -> BOOLEAN]
    /\ out \in Seq(Items) /\ taken \in 0..Len(out) /\ Len(out) - taken <= OutCap
Types == RouterTypes /\ ProcTypes

(* What the Processor of s has received, wherever it is now, and the ids   *)
(* of all events of s.                                                     *)
Received(s) == heap[s] \cup {out[i] : i \in {k \in DOMAIN out : out[k].sub = s}}
Ids(s) == ChanIds(wchan[s]) \cup {e.id : e \in Received(s)}

(* Events of a submission are received in the order of arrival, each once. *)
Fifo ==
    \A s \in Subs :
        /\ \A k \in DOMAIN wchan[s] :
             /\ wchan[s][k].sub = s
             /\ \A l \in DOMAIN wchan[s] : k < l => wchan[s][k].id < wchan[s][l].id
             /\ \A e \in Received(s) : e.id < wchan[s][k].id
        /\ \A e \in heap[s] : e.sub = s
        /\ \A e, f \in Received(s) : e.id = f.id => e = f

(* An item is in one place only.                                           *)
OnePlace ==
    /\ \A i, j \in DOMAIN out : out[i] = out[j] => i = j
    /\ \A s \in Subs : \A e \in heap[s] : \A i \in DOMAIN out : out[i] # e

(* Ids number the arrivals; the Router holds the newest event.             *)
IdsNumbered ==
    /\ \A s \in Subs : \A n \in Ids(s) : n \in 1..arrived /\ n # held.id
    /\ held # NoEvent => held.id = arrived
    /\ \A s, t \in Subs : s # t => Ids(s) \cap Ids(t) = {}

(* While the service is not cancelled every arrival is somewhere.          *)
Accounted ==
    ~cancelled => 1..arrived \subseteq ({held.id} \ {0}) \cup UNION {Ids(s) : s \in Subs}

PlaceInv == Types /\ Fifo /\ OnePlace /\ IdsNumbered /\ Accounted

(* What has left the heap was behind the watermark or flushed, until the   *)
(* channel is closed and nothing is received any more.                     *)
Passed ==
    \A s \in Subs :
        /\ pc[s] \notin {"drain", "done"} => \A i \in DOMAIN out :
             out[i].sub = s => flushed[s] \/ out[i].ts <= WatermarkOf(s)
        /\ pc[s] = "flush" => flushed[s]

(* An item in the heap that an item of its submission has overtaken came   *)
(* late, and after that one had left.                                      *)
HeapLate ==
    \A s \in Subs : \A e \in heap[s] : \A i \in DOMAIN out :
        (out[i].sub = s /\ Less(e, out[i])) => e.late /\ e.at >= i

OrderInv == PlaceInv /\ Passed /\ HeapLate /\ InOrderUnlessLate

(* EndFlushesBacklog also holds while ready events are being released.     *)
Backlog ==
    \A s \in Subs :
        /\ pc[s] = "none" => heap[s] = {}
        /\ pc[s] \in {"recv", "emit"} =>
             \A m \in Received(s), e \in heap[s] : m.end => e.id > m.id

BacklogInv == PlaceInv /\ Backlog
-----------------------------------------------------------------------------
(* A nonempty set of numbers has a least one.                              *)
LEMMA LeastNat ==
    ASSUME NEW S \in SUBSET Nat, S # {}
    PROVE  \E x \in S : \A y \in S : x <= y
<1>1. PICK x \in S : \A y \in S : ~(<<y, x>> \in OpToRel(<, Nat))
  BY WFMin, NatLessThanWellFounded
<1>2. \A y \in S : ~(y < x)
  BY <1>1 DEF OpToRel
<1> QED BY <1>2

(* The heap's root: the item with the earliest event time, and the first   *)
(* to arrive among those.                                                  *)
LEMMA RootIsLeast ==
    ASSUME NEW s \in Subs, heap[s] \in SUBSET Items, heap[s] # {},
           \A e, f \in heap[s] : e.id = f.id => e = f
    PROVE  Root(s) \in heap[s] /\ \A f \in heap[s] \ {Root(s)} : Less(Root(s), f)
<1> DEFINE T == {e.ts : e \in heap[s]}
<1>0. \A e \in heap[s] : e.ts \in Nat /\ e.id \in Nat
  BY DEF Items
<1>1. T \in SUBSET Nat /\ T # {}
  BY <1>0
<1>2. PICK t \in T : \A u \in T : t <= u
  <2> HIDE DEF T
  <2> QED BY <1>1, LeastNat
<1> DEFINE F == {e \in heap[s] : e.ts = t}
           I == {e.id : e \in F}
<1>3. I \in SUBSET Nat /\ I # {}
  BY <1>0, <1>2
<1>4. PICK n \in I : \A m \in I : n <= m
  <2> HIDE DEF I
  <2> QED BY <1>3, LeastNat
<1>5. PICK e \in F : e.id = n
  BY <1>4
<1>6. ASSUME NEW f \in heap[s], f # e PROVE Less(e, f)
  <2>1. e \in heap[s] /\ e.ts = t /\ t <= f.ts /\ e.id # f.id
    BY <1>2, <1>5, <1>6
  <2>2. CASE f.ts = t
    <3>1. e.id <= f.id
      BY <1>4, <1>5, <1>6, <2>2
    <3> QED BY <1>0, <1>6, <2>1, <2>2, <3>1 DEF Less
  <2>3. CASE f.ts # t
    BY <1>0, <1>6, <2>1, <2>3 DEF Less
  <2> QED BY <2>2, <2>3
<1>7. e \in heap[s] /\ \A f \in heap[s] \ {e} : Less(e, f)
  BY <1>5, <1>6
<1> QED BY <1>7 DEF Root

(* A Processor of s sends r, the root of its heap.                         *)
Sends(s, r) ==
    /\ pc[s] \in {"emit", "flush", "drain"} /\ r \in heap[s]
    /\ \A f \in heap[s] \ {r} : Less(r, f)
    /\ pc[s] = "emit" => r.ts <= WatermarkOf(s)
    /\ OutHasRoom /\ out' = Append(out, r) /\ heap' = [heap EXCEPT ![s] = @ \ {r}]
    /\ UNCHANGED <<arrived, cancelled, routerVars, wchan, pc, maxSeen, flushed, taken>>

(* What the other steps of a Processor may do to its stage.                *)
StageStep(s) ==
    \/ pc'[s] = pc[s] /\ flushed'[s] = flushed[s]
    \/ pc[s] = "emit" /\ pc'[s] = "recv" /\ flushed'[s] = flushed[s]
    \/ pc[s] = "flush" /\ pc'[s] = "recv" /\ heap[s] = {} /\ flushed'[s] = flushed[s]
    \/ pc'[s] = "flush" /\ flushed'[s] /\ pc[s] = "recv"
    \/ pc'[s] \in {"drain", "done"}

(* Steps in which no event moves.                                          *)
Quiet ==
    /\ UNCHANGED <<arrived, wchan, heap, maxSeen, out>> /\ held' = held
    /\ cancelled => cancelled'
    /\ \A s \in Subs : StageStep(s)

(* A step of the service is one of six kinds.                              *)
LEMMA StepKinds ==
    ASSUME Types, Fifo, [Next]_vars
    PROVE  \/ \E ev \in Feed : RouterReceive(ev)
           \/ RouterSend \/ RouterStop
           \/ \E s \in Subs : Receive(s)
           \/ \E s \in Subs : \E r \in heap[s] : Sends(s, r)
           \/ Quiet
<1> DEFINE Goal == \/ \E s \in Subs : \E r \in heap[s] : Sends(s, r)
                   \/ Quiet
<1>0. ProcTypes
  BY DEF Types
<1>1. ASSUME NEW s \in Subs, heap[s] # {}, PopAndSend(s), pc[s] \in {"emit", "flush", "drain"},
             pc[s] = "emit" => Root(s).ts <= WatermarkOf(s),
             UNCHANGED <<arrived, cancelled, routerVars, wchan, pc, taken>>
      PROVE  Goal
  <2>1. Root(s) \in heap[s] /\ \A f \in heap[s] \ {Root(s)} : Less(Root(s), f)
    BY <1>0, <1>1, RootIsLeast DEF ProcTypes, Fifo, Received
  <2>2. Sends(s, Root(s))
    BY <1>1, <2>1 DEF PopAndSend, Sends
  <2> QED BY <2>1, <2>2
<1>2. ASSUME NEW s \in Subs, UNCHANGED <<arrived, cancelled, routerVars, wchan, heap, maxSeen, out>>,
             \A t \in Subs \ {s} : pc'[t] = pc[t] /\ flushed'[t] = flushed[t], StageStep(s)
      PROVE  Goal
  BY <1>2 DEF Quiet, StageStep, routerVars
<1>3. ASSUME NEW s \in Subs, NEW p,
             UNCHANGED <<arrived, cancelled, routerVars, wchan, procVars, out>>,
             pc' = [pc EXCEPT ![s] = p],
             \/ pc[s] = "emit" /\ p = "recv"
             \/ pc[s] = "flush" /\ p = "recv" /\ heap[s] = {}
             \/ p \in {"drain", "done"}
      PROVE  Goal
  <2>1. pc'[s] = p /\ \A t \in Subs \ {s} : pc'[t] = pc[t]
    BY <1>0, <1>3 DEF ProcTypes
  <2>2. UNCHANGED <<heap, maxSeen, flushed>>
    BY <1>3 DEF procVars
  <2>3. StageStep(s)
    BY <1>3, <2>1, <2>2 DEF StageStep
  <2> QED BY <1>2, <1>3, <2>1, <2>2, <2>3
<1>4. ASSUME NEW s \in Subs, EmitReady(s) PROVE Goal
  <2>1. CASE Ready(s) /\ PopAndSend(s) /\ UNCHANGED pc
    BY <1>1, <1>4, <2>1 DEF EmitReady, Ready
  <2>2. CASE pc' = [pc EXCEPT ![s] = "recv"] /\ UNCHANGED <<procVars, out>>
    BY <1>3, <1>4, <2>2 DEF EmitReady
  <2> QED BY <1>4, <2>1, <2>2 DEF EmitReady
<1>5. ASSUME NEW s \in Subs, Flush(s) PROVE Goal
  <2>1. CASE heap[s] # {} /\ PopAndSend(s) /\ UNCHANGED pc
    BY <1>1, <1>5, <2>1 DEF Flush
  <2>2. CASE heap[s] = {} /\ UNCHANGED <<procVars, out>> /\ pc[s] = "flush" /\ pc' = [pc EXCEPT ![s] = "recv"]
    BY <1>3, <1>5, <2>2 DEF Flush
  <2>3. CASE heap[s] = {} /\ UNCHANGED <<procVars, out>> /\ pc[s] = "drain" /\ pc' = [pc EXCEPT ![s] = "done"]
    BY <1>3, <1>5, <2>3 DEF Flush
  <2> QED BY <1>5, <2>1, <2>2, <2>3 DEF Flush
<1>6. ASSUME NEW s \in Subs, IdleFlush(s) PROVE Goal
  <2>1. /\ UNCHANGED <<arrived, cancelled, routerVars, wchan, heap, maxSeen, out>>
        /\ pc' = [pc EXCEPT ![s] = "flush"] /\ flushed' = [flushed EXCEPT ![s] = TRUE] /\ pc[s] = "recv"
    BY <1>6 DEF IdleFlush
  <2>2. /\ pc'[s] = "flush" /\ flushed'[s]
        /\ \A t \in Subs \ {s} : pc'[t] = pc[t] /\ flushed'[t] = flushed[t]
    BY <1>0, <2>1 DEF ProcTypes
  <2>3. StageStep(s)
    BY <2>1, <2>2 DEF StageStep
  <2> QED BY <1>2, <2>1, <2>2, <2>3
<1>7. ASSUME NEW s \in Subs, InputEnded(s) PROVE Goal
  BY <1>3, <1>7 DEF InputEnded
<1>8. ASSUME NEW s \in Subs, ProcessorCancelled(s) PROVE Goal
  BY <1>3, <1>8 DEF ProcessorCancelled
<1>9. CASE RouterFinish \/ CancelService \/ Downstream \/ UNCHANGED vars
  <2>1. UNCHANGED <<arrived, wchan, heap, maxSeen, out, held, pc, flushed>>
    BY <1>9 DEF RouterFinish, CancelService, Downstream, vars, routerVars, procVars
  <2>2. cancelled => cancelled'
    BY <1>9 DEF RouterFinish, CancelService, Downstream, vars
  <2> QED BY <2>1, <2>2 DEF Quiet, StageStep
<1> QED
  BY <1>4, <1>5, <1>6, <1>7, <1>8, <1>9 DEF Next, RouterStep, ProcessorStep

-----------------------------------------------------------------------------
(* What a send and a receive do to a channel.                              *)
LEMMA SentOn ==
    ASSUME NEW S, NEW q \in Seq(S), NEW r \in S
    PROVE  /\ Append(q, r) \in Seq(S) /\ Len(Append(q, r)) = Len(q) + 1 /\ Len(q) \in Nat
           /\ DOMAIN q \subseteq Nat /\ DOMAIN q \subseteq DOMAIN Append(q, r)
           /\ Len(q) + 1 \in DOMAIN Append(q, r) /\ Append(q, r)[Len(q) + 1] = r
           /\ \A i \in DOMAIN q : Append(q, r)[i] = q[i] /\ i <= Len(q)
           /\ \A i \in DOMAIN Append(q, r) : i \in DOMAIN q \/ i = Len(q) + 1
OBVIOUS

(* What a receive takes from a channel, and where the rest of it is then.  *)
LEMMA ReceivedFrom ==
    ASSUME NEW S, NEW q \in Seq(S), q # <<>>
    PROVE  /\ Head(q) = q[1] /\ 1 \in DOMAIN q /\ Head(q) \in S
           /\ Tail(q) \in Seq(S) /\ Len(Tail(q)) <= Len(q)
           /\ \A i \in DOMAIN Tail(q) :
                i \in Nat \ {0} /\ i + 1 \in DOMAIN q /\ Tail(q)[i] = q[i + 1]
           /\ \A i \in DOMAIN q : i = 1 \/ (i - 1 \in DOMAIN Tail(q) /\ Tail(q)[i - 1] = q[i])
<1>1. /\ Len(q) \in Nat \ {0} /\ DOMAIN q = 1..Len(q) /\ DOMAIN Tail(q) = 1..(Len(q) - 1)
      /\ \A i \in 1..(Len(q) - 1) : Tail(q)[i] = q[i + 1]
  OBVIOUS
<1>2. ASSUME NEW i \in DOMAIN q, i # 1 PROVE i - 1 \in DOMAIN Tail(q) /\ Tail(q)[i - 1] = q[i]
  <2>1. i - 1 \in 1..(Len(q) - 1) /\ (i - 1) + 1 = i
    BY <1>1, <1>2
  <2>2. Tail(q)[i - 1] = q[(i - 1) + 1]
    BY <1>1, <2>1
  <2> QED BY <1>1, <2>1, <2>2
<1>3. Head(q) = q[1] /\ Head(q) \in S /\ Tail(q) \in Seq(S) /\ Len(Tail(q)) = Len(q) - 1
  OBVIOUS
<1> QED BY <1>1, <1>2, <1>3

(* A Processor of s receives an event of s and keeps it as an item with    *)
(* the same id: the submission's ids stay the same.                        *)
LEMMA Enqueued ==
    ASSUME Types, Fifo, NEW s \in Subs, Receive(s)
    PROVE  \E item \in Items :
             /\ wchan[s] # <<>> /\ wchan' = [wchan EXCEPT ![s] = Tail(@)]
             /\ heap' = [heap EXCEPT ![s] = @ \cup {item}]
             /\ item.id = wchan[s][1].id /\ item.sub = s /\ item.at = Len(out)
             /\ item.late <=> (flushed[s] \/ item.ts <= WatermarkOf(s))
             /\ maxSeen' = [maxSeen EXCEPT ![s] = IF item.ts > @ THEN item.ts ELSE @]
             /\ pc' = [pc EXCEPT ![s] = IF item.end THEN "flush" ELSE "emit"]
             /\ flushed' = [flushed EXCEPT ![s] = @ \/ item.end]
             /\ \A e \in Received(s) : e.id < item.id
             /\ UNCHANGED <<arrived, cancelled, routerVars, out, taken>>
<1> DEFINE ev == Head(wchan[s])
           item == [id |-> ev.id, sub |-> s, ts |-> ev.ts, end |-> ev.end,
                    at |-> Len(out), late |-> flushed[s] \/ ev.ts <= WatermarkOf(s)]
<1>1. /\ wchan[s] \in Seq(Events) /\ wchan[s] # <<>> /\ flushed[s] \in BOOLEAN
      /\ maxSeen[s] \in Nat /\ Lateness \in Nat /\ Len(out) \in Nat /\ MaxEvents \in Nat
  BY WatermarkBounds DEF Types, RouterTypes, ProcTypes, Receive
<1>2. ev \in Events /\ ev = wchan[s][1] /\ 1 \in DOMAIN wchan[s]
  BY <1>1, ReceivedFrom
<1>3. ev.id \in Nat \ {0} /\ ev.ts \in Nat /\ ev.end \in BOOLEAN
  BY <1>1, <1>2 DEF Events
<1>4. (flushed[s] \/ ev.ts <= WatermarkOf(s)) \in BOOLEAN
  OBVIOUS
<1>5. item \in Items
  <2>1. PICK b \in BOOLEAN : b = (flushed[s] \/ ev.ts <= WatermarkOf(s))
    BY <1>4
  <2> HIDE DEF ev
  <2>2. [id |-> ev.id, sub |-> s, ts |-> ev.ts, end |-> ev.end, at |-> Len(out), late |-> b] \in Items
    BY <1>1, <1>3, <2>1 DEF Items
  <2> QED BY <2>1, <2>2
<1>6. /\ heap' = [heap EXCEPT ![s] = @ \cup {item}]
      /\ maxSeen' = [maxSeen EXCEPT ![s] = IF ev.ts > @ THEN ev.ts ELSE @]
      /\ pc' = [pc EXCEPT ![s] = NextStage(ev)]
      /\ flushed' = [flushed EXCEPT ![s] = @ \/ ev.end]
      /\ wchan' = [wchan EXCEPT ![s] = Tail(@)]
      /\ UNCHANGED <<arrived, cancelled, routerVars, out, taken>>
  BY DEF Receive
<1>7. \A e \in Received(s) : e.id < wchan[s][1].id
  BY <1>2 DEF Fifo
<1>8. /\ item.id = ev.id /\ item.sub = s /\ item.ts = ev.ts /\ item.end = ev.end /\ item.at = Len(out)
      /\ item.late <=> (flushed[s] \/ item.ts <= WatermarkOf(s))
  OBVIOUS
<1> HIDE DEF ev, item
<1> QED BY <1>1, <1>2, <1>5, <1>6, <1>7, <1>8 DEF NextStage

-----------------------------------------------------------------------------
(* The service starts in the invariants.                                   *)
LEMMA WatermarkInit == Init => OrderInv /\ BacklogInv
<1> SUFFICES ASSUME Init PROVE OrderInv /\ BacklogInv
  OBVIOUS
<1>1. \A s \in Subs : heap[s] = {} /\ wchan[s] = <<>> /\ Received(s) = {} /\ Ids(s) = {}
  BY DEF Init, Received, Ids, ChanIds
<1>2. Types
  <2>1. RouterTypes
    <3>1. arrived = 0 /\ cancelled = FALSE /\ router = "run" /\ held = NoEvent
      BY DEF Init
    <3>3. 0 \in 0..MaxEvents
      BY WatermarkBounds
    <3>2. wchan \in [Subs -> Seq(Events)] /\ \A s \in Subs : Len(wchan[s]) <= WorkerBuffer
      BY WatermarkBounds DEF Init
    <3> QED BY <3>1, <3>2, <3>3 DEF RouterTypes
  <2>2. ProcTypes
    BY WatermarkBounds DEF Init, ProcTypes
  <2> QED BY <2>1, <2>2 DEF Types
<1>3. Fifo /\ OnePlace /\ Backlog
  BY <1>1 DEF Fifo, OnePlace, Backlog, Init
<1>4. IdsNumbered
  BY <1>1 DEF IdsNumbered, Init
<1>5. Accounted
  BY DEF Accounted, Init
<1>6. Passed /\ HeapLate /\ InOrderUnlessLate
  BY <1>1 DEF Passed, HeapLate, InOrderUnlessLate, Init
<1> QED BY <1>2, <1>3, <1>4, <1>5, <1>6 DEF PlaceInv, OrderInv, BacklogInv

(* Every step keeps the types.                                             *)
LEMMA TypesStep == Types /\ Fifo /\ [Next]_vars => Types'
<1> SUFFICES ASSUME Types, Fifo, [Next]_vars PROVE RouterTypes' /\ ProcTypes'
  BY DEF Types
<1>0. RouterTypes /\ ProcTypes
  BY DEF Types
<1> USE WatermarkBounds DEF routerVars, procVars
<1>1. ASSUME NEW ev \in Feed, RouterReceive(ev) PROVE RouterTypes' /\ ProcTypes'
  <2>1. ev.sub \in Subs /\ ev.ts \in Nat /\ ev.end \in BOOLEAN
    BY <1>1
  <2>2. arrived' \in 1..MaxEvents
    BY <1>0, <1>1 DEF RouterReceive, RouterTypes
  <2>3. held' \in Events /\ held'.id # 0
    BY <1>1, <2>1, <2>2 DEF RouterReceive, Events
  <2>4. held' # NoEvent
    BY <2>3 DEF NoEvent
  <2>5. RouterTypes'
    BY <1>0, <1>1, <2>2, <2>3, <2>4 DEF RouterReceive, RouterTypes
  <2>6. ProcTypes'
    BY <1>0, <1>1 DEF RouterReceive, ProcTypes
  <2> QED BY <2>5, <2>6
<1>2. CASE RouterSend
  <2>1. held \in Events /\ held.sub \in Subs
    BY <1>0, <1>2 DEF RouterSend, RouterTypes, Events
  <2>2. Append(wchan[held.sub], held) \in Seq(Events) /\ Len(Append(wchan[held.sub], held)) <= WorkerBuffer
    BY <1>0, <1>2, <2>1 DEF RouterSend, RouterTypes
  <2>3. wchan' = [wchan EXCEPT ![held.sub] = Append(wchan[held.sub], held)]
    BY <1>2 DEF RouterSend
  <2>4. wchan' \in [Subs -> Seq(Events)] /\ \A s \in Subs : Len(wchan'[s]) <= WorkerBuffer
    BY <1>0, <2>1, <2>2, <2>3 DEF RouterTypes
  <2>5. RouterTypes'
    BY <1>0, <1>2, <2>4 DEF RouterSend, RouterTypes
  <2>6. ProcTypes'
    BY <1>0, <1>2 DEF RouterSend, ProcTypes
  <2> QED BY <2>5, <2>6
<1>3. CASE RouterStop
  BY <1>0, <1>3 DEF RouterStop, RouterTypes, ProcTypes
<1>4. CASE RouterFinish
  BY <1>0, <1>4 DEF RouterFinish, RouterTypes, ProcTypes
<1>5. CASE CancelService \/ Downstream \/ UNCHANGED vars
  <2>1. RouterTypes'
    BY <1>0, <1>5 DEF CancelService, Downstream, vars, RouterTypes
  <2>2. UNCHANGED <<pc, procVars, out>> /\ (taken' = taken \/ (taken < Len(out) /\ taken' = taken + 1))
    BY <1>5 DEF CancelService, Downstream, vars
  <2>3. ProcTypes'
    BY <1>0, <2>2 DEF ProcTypes
  <2> QED BY <2>1, <2>3
<1>6. ASSUME NEW s \in Subs, Receive(s) PROVE RouterTypes' /\ ProcTypes'
  <2>1. PICK item \in Items :
             /\ wchan[s] # <<>> /\ wchan' = [wchan EXCEPT ![s] = Tail(@)]
             /\ heap' = [heap EXCEPT ![s] = @ \cup {item}]
             /\ maxSeen' = [maxSeen EXCEPT ![s] = IF item.ts > @ THEN item.ts ELSE @]
             /\ pc' = [pc EXCEPT ![s] = IF item.end THEN "flush" ELSE "emit"]
             /\ flushed' = [flushed EXCEPT ![s] = @ \/ item.end]
             /\ UNCHANGED <<arrived, cancelled, routerVars, out, taken>>
    BY <1>6, Enqueued
  <2>2. Tail(wchan[s]) \in Seq(Events) /\ Len(Tail(wchan[s])) <= WorkerBuffer
    BY <1>0, <2>1 DEF RouterTypes
  <2>3. wchan' \in [Subs -> Seq(Events)] /\ \A t \in Subs : Len(wchan'[t]) <= WorkerBuffer
    BY <1>0, <2>1, <2>2 DEF RouterTypes
  <2>4. RouterTypes'
    BY <1>0, <2>1, <2>3 DEF RouterTypes
  <2>5. item.ts \in Nat /\ item.end \in BOOLEAN
    BY DEF Items
  <2>6. heap' \in [Subs -> SUBSET Items] /\ maxSeen' \in [Subs -> Nat]
    BY <1>0, <2>1, <2>5 DEF ProcTypes
  <2>7. flushed' \in [Subs -> BOOLEAN]
    <3>1. (flushed[s] \/ item.end) \in BOOLEAN
      OBVIOUS
    <3>2. PICK b \in BOOLEAN : b = (flushed[s] \/ item.end)
      BY <3>1
    <3>3. flushed' = [flushed EXCEPT ![s] = b]
      BY <2>1, <3>2
    <3> QED BY <1>0, <3>3 DEF ProcTypes
  <2>8. pc' \in [Subs -> {"none", "recv", "emit", "flush", "drain", "done"}]
    BY <1>0, <2>1 DEF ProcTypes
  <2>9. ProcTypes'
    BY <1>0, <2>1, <2>6, <2>7, <2>8 DEF ProcTypes
  <2> QED BY <2>4, <2>9
<1>7. ASSUME NEW s \in Subs, IdleFlush(s) \/ InputEnded(s) \/ ProcessorCancelled(s)
      PROVE  RouterTypes' /\ ProcTypes'
  <2>1. RouterTypes'
    BY <1>0, <1>7 DEF IdleFlush, InputEnded, ProcessorCancelled, RouterTypes
  <2>2. ProcTypes'
    BY <1>0, <1>7 DEF IdleFlush, InputEnded, ProcessorCancelled, ProcTypes
  <2> QED BY <2>1, <2>2
<1>8. ASSUME NEW s \in Subs, NEW p \in {"recv", "done"}, pc' = [pc EXCEPT ![s] = p],
             UNCHANGED <<arrived, cancelled, routerVars, wchan, procVars, out, taken>>
      PROVE  RouterTypes' /\ ProcTypes'
  <2>1. RouterTypes'
    BY <1>0, <1>8 DEF RouterTypes
  <2>2. ProcTypes'
    BY <1>0, <1>8 DEF ProcTypes
  <2> QED BY <2>1, <2>2
<1>9. ASSUME NEW s \in Subs, EmitReady(s) \/ Flush(s) PROVE RouterTypes' /\ ProcTypes'
  <2>1. CASE PopAndSend(s) /\ UNCHANGED pc /\ heap[s] # {}
    <3>1. Root(s) \in heap[s]
      BY <1>0, <2>1, RootIsLeast DEF ProcTypes, Fifo, Received
    <3>2. /\ OutHasRoom /\ out' = Append(out, Root(s)) /\ heap' = [heap EXCEPT ![s] = @ \ {Root(s)}]
          /\ UNCHANGED <<arrived, cancelled, routerVars, wchan, pc, maxSeen, flushed, taken>>
      BY <1>9, <2>1 DEF EmitReady, Flush, PopAndSend
    <3>3. PICK r \in Items : r = Root(s)
      BY <1>0, <3>1 DEF ProcTypes
    <3>4. out' \in Seq(Items) /\ taken' \in 0..Len(out') /\ Len(out') - taken' <= OutCap
      BY <1>0, <3>2, <3>3 DEF ProcTypes, OutHasRoom
    <3>5. heap' \in [Subs -> SUBSET Items]
      BY <1>0, <3>2 DEF ProcTypes
    <3> QED BY <1>0, <3>2, <3>4, <3>5 DEF ProcTypes, RouterTypes
  <2>2. CASE \E p \in {"recv", "done"} : /\ pc' = [pc EXCEPT ![s] = p]
                                         /\ UNCHANGED <<procVars, out>>
    BY <1>8, <1>9, <2>2 DEF EmitReady, Flush
  <2> QED BY <1>9, <2>1, <2>2 DEF EmitReady, Flush, Ready
<1> QED
  BY <1>1, <1>2, <1>3, <1>4, <1>5, <1>6, <1>7, <1>9 DEF Next, RouterStep, ProcessorStep

-----------------------------------------------------------------------------
(* What each kind of step does to the events of a submission.              *)
LEMMA Unmoved ==
    ASSUME UNCHANGED <<wchan, heap, out>>, NEW s \in Subs
    PROVE  Received(s)' = Received(s) /\ Ids(s)' = Ids(s)
BY DEF Received, Ids, ChanIds

(* A send of the Router moves the held event into the channel of its       *)
(* submission, and nothing else.                                           *)
LEMMA HandedOver ==
    ASSUME Types, RouterSend
    PROVE  /\ held \in Events /\ held.sub \in Subs /\ held' = NoEvent
           /\ UNCHANGED <<arrived, cancelled, heap, out>>
           /\ wchan'[held.sub] = Append(wchan[held.sub], held)
           /\ wchan[held.sub] \in Seq(Events)
           /\ \A t \in Subs \ {held.sub} : wchan'[t] = wchan[t]
           /\ \A t \in Subs : Received(t)' = Received(t)
           /\ \A t \in Subs : Ids(t)' = IF t = held.sub THEN Ids(t) \cup {held.id} ELSE Ids(t)
<1>1. held \in Events /\ held.sub \in Subs
  BY DEF Types, RouterTypes, RouterSend, Events
<1>2. /\ held' = NoEvent /\ UNCHANGED <<arrived, cancelled, heap, out>>
      /\ wchan' = [wchan EXCEPT ![held.sub] = Append(wchan[held.sub], held)]
  BY DEF RouterSend, procVars
<1>3. /\ wchan'[held.sub] = Append(wchan[held.sub], held) /\ wchan[held.sub] \in Seq(Events)
      /\ \A t \in Subs \ {held.sub} : wchan'[t] = wchan[t]
  BY <1>1, <1>2 DEF Types, RouterTypes
<1>4. ChanIds(wchan'[held.sub]) = ChanIds(wchan[held.sub]) \cup {held.id}
  <2>1. PICK q \in Seq(Events) : q = wchan[held.sub] /\ wchan'[held.sub] = Append(q, held)
    BY <1>3
  <2>2. ChanIds(Append(q, held)) = ChanIds(q) \cup {held.id}
    BY <1>1, SentOn DEF ChanIds
  <2> QED BY <2>1, <2>2
<1>5. \A t \in Subs : Received(t)' = Received(t)
  BY <1>2 DEF Received
<1>6. \A t \in Subs : Ids(t)' = IF t = held.sub THEN Ids(t) \cup {held.id} ELSE Ids(t)
  <2>1. \A t \in Subs : Ids(t)' = ChanIds(wchan'[t]) \cup {e.id : e \in Received(t)}
    BY <1>5 DEF Ids, ChanIds
  <2> QED BY <1>3, <1>4, <2>1 DEF Ids
<1> QED BY <1>1, <1>2, <1>3, <1>5, <1>6

(* A receive of a Processor turns the first event of its channel into an   *)
(* item of its heap.                                                       *)
LEMMA TakenIn ==
    ASSUME Types, Fifo, NEW s \in Subs, NEW item \in Items, wchan[s] # <<>>,
           wchan' = [wchan EXCEPT ![s] = Tail(@)],
           heap' = [heap EXCEPT ![s] = @ \cup {item}], item.id = wchan[s][1].id, out' = out
    PROVE  /\ \A t \in Subs \ {s} : wchan'[t] = wchan[t] /\ heap'[t] = heap[t]
           /\ wchan'[s] = Tail(wchan[s]) /\ heap'[s] = heap[s] \cup {item}
           /\ \A t \in Subs \ {s} : Received(t)' = Received(t)
           /\ Received(s)' = Received(s) \cup {item}
           /\ \A t \in Subs : Ids(t)' = Ids(t)
<1>1. /\ \A t \in Subs \ {s} : wchan'[t] = wchan[t] /\ heap'[t] = heap[t]
      /\ wchan'[s] = Tail(wchan[s]) /\ heap'[s] = heap[s] \cup {item}
  BY DEF Types, RouterTypes, ProcTypes
<1>2. \A t \in Subs \ {s} : Received(t)' = Received(t)
  BY <1>1 DEF Received
<1>3. Received(s)' = Received(s) \cup {item}
  BY <1>1 DEF Received
<1>4. PICK q \in Seq(Events) : q = wchan[s] /\ q # <<>>
  BY DEF Types, RouterTypes
<1>5. ChanIds(q) = {q[1].id} \cup ChanIds(Tail(q))
  <2>1. ASSUME NEW i \in DOMAIN q PROVE q[i].id \in {q[1].id} \cup ChanIds(Tail(q))
    <3>1. CASE i = 1
      BY <3>1
    <3>2. CASE i # 1
      <4>1. i - 1 \in DOMAIN Tail(q) /\ Tail(q)[i - 1] = q[i]
        BY <1>4, <3>2, ReceivedFrom
      <4> QED BY <4>1 DEF ChanIds
    <3> QED BY <3>1, <3>2
  <2>2. ASSUME NEW i \in DOMAIN Tail(q) PROVE Tail(q)[i].id \in ChanIds(q)
    BY <1>4, <2>2, ReceivedFrom DEF ChanIds
  <2>3. q[1].id \in ChanIds(q)
    BY <1>4, ReceivedFrom DEF ChanIds
  <2> QED BY <2>1, <2>2, <2>3 DEF ChanIds
<1>6. \A t \in Subs : Ids(t)' = ChanIds(wchan'[t]) \cup {e.id : e \in Received(t)'}
  BY DEF Ids, ChanIds
<1>7. Ids(s)' = Ids(s)
  <2>1. {e.id : e \in Received(s) \cup {item}} = {e.id : e \in Received(s)} \cup {q[1].id}
    BY <1>4
  <2>2. Ids(s)' = ChanIds(Tail(q)) \cup {e.id : e \in Received(s) \cup {item}}
    BY <1>1, <1>3, <1>4, <1>6
  <2>3. Ids(s) = ChanIds(q) \cup {e.id : e \in Received(s)}
    BY <1>4 DEF Ids
  <2> QED BY <1>5, <2>1, <2>2, <2>3
<1>8. \A t \in Subs \ {s} : Ids(t)' = Ids(t)
  BY <1>1, <1>2, <1>6 DEF Ids
<1> QED BY <1>1, <1>2, <1>3, <1>7, <1>8

(* A send of a Processor moves an item from its heap to the end of the     *)
(* output.                                                                 *)
LEMMA SentOut ==
    ASSUME Types, Fifo, NEW s \in Subs, NEW r \in heap[s], Sends(s, r)
    PROVE  /\ r \in Items /\ r.sub = s /\ out \in Seq(Items) /\ out' = Append(out, r)
           /\ UNCHANGED <<arrived, cancelled, held, wchan, pc, maxSeen, flushed>>
           /\ heap'[s] = heap[s] \ {r} /\ \A t \in Subs \ {s} : heap'[t] = heap[t]
           /\ \A t \in Subs : Received(t)' = Received(t) /\ Ids(t)' = Ids(t)
<1>1. /\ r \in Items /\ r.sub = s /\ out \in Seq(Items) /\ out' = Append(out, r)
      /\ UNCHANGED <<arrived, cancelled, held, wchan, pc, maxSeen, flushed>>
  BY DEF Types, ProcTypes, Fifo, Sends, routerVars
<1>2. heap'[s] = heap[s] \ {r} /\ \A t \in Subs \ {s} : heap'[t] = heap[t]
  BY DEF Types, ProcTypes, Sends
<1>3. /\ DOMAIN out \subseteq DOMAIN out' /\ Len(out) + 1 \in DOMAIN out' /\ out'[Len(out) + 1] = r
      /\ \A i \in DOMAIN out : out'[i] = out[i]
      /\ \A i \in DOMAIN out' : i \in DOMAIN out \/ out'[i] = r
  BY <1>1, SentOn
<1>4. ASSUME NEW t \in Subs PROVE Received(t)' = Received(t)
  <2> DEFINE Gone == {out[i] : i \in {k \in DOMAIN out : out[k].sub = t}}
             GoneNow == {out'[i] : i \in {k \in DOMAIN out' : out'[k].sub = t}}
  <2>1. Received(t) = heap[t] \cup Gone /\ Received(t)' = heap'[t] \cup GoneNow
    BY DEF Received
  <2>2. Gone \subseteq GoneNow /\ GoneNow \subseteq Gone \cup {r}
    BY <1>3
  <2>3. t = s => r \in GoneNow
    BY <1>1, <1>3
  <2>4. t # s => GoneNow \subseteq Gone
    BY <1>1, <1>3
  <2> HIDE DEF Gone, GoneNow
  <2> QED BY <1>2, <2>1, <2>2, <2>3, <2>4
<1>5. \A t \in Subs : Ids(t)' = Ids(t)
  BY <1>1, <1>4 DEF Ids, ChanIds
<1> QED BY <1>1, <1>2, <1>4, <1>5

-----------------------------------------------------------------------------
(* A submission's ids are numbers; the ids of what is received are.        *)
LEMMA IdsAre ==
    ASSUME Types, NEW s \in Subs
    PROVE  /\ Received(s) \subseteq Items /\ \A e \in Received(s) : e.id \in Nat \ {0}
           /\ \A k \in DOMAIN wchan[s] : wchan[s][k] \in Events /\ wchan[s][k].id \in Nat \ {0}
           /\ \A e \in Received(s) : e.id \in Ids(s)
           /\ \A k \in DOMAIN wchan[s] : wchan[s][k].id \in Ids(s)
<1>1. out \in Seq(Items) /\ heap[s] \in SUBSET Items /\ wchan[s] \in Seq(Events)
  BY DEF Types, RouterTypes, ProcTypes
<1>2. Received(s) \subseteq Items
  BY <1>1 DEF Received
<1>3. \A k \in DOMAIN wchan[s] : wchan[s][k] \in Events
  BY <1>1
<1> QED BY <1>2, <1>3, WatermarkBounds DEF Items, Events, Ids, ChanIds

(* The Router's step into a channel keeps it in the order of arrival.      *)
LEMMA HandOverInOrder ==
    ASSUME PlaceInv, RouterSend
    PROVE  Fifo' /\ OnePlace' /\ IdsNumbered' /\ Accounted'
<1> USE DEF PlaceInv
<1>1. /\ held \in Events /\ held.sub \in Subs /\ held' = NoEvent
      /\ UNCHANGED <<arrived, cancelled, heap, out>>
      /\ wchan'[held.sub] = Append(wchan[held.sub], held)
      /\ wchan[held.sub] \in Seq(Events)
      /\ \A t \in Subs \ {held.sub} : wchan'[t] = wchan[t]
      /\ \A t \in Subs : Received(t)' = Received(t)
      /\ \A t \in Subs : Ids(t)' = IF t = held.sub THEN Ids(t) \cup {held.id} ELSE Ids(t)
  BY HandedOver
<1>2. held.id = arrived /\ held # NoEvent /\ held.id \in Nat \ {0}
  BY <1>1, WatermarkBounds DEF IdsNumbered, Types, RouterTypes, RouterSend, Events
<1>3. \A s \in Subs : \A n \in Ids(s) : n < held.id /\ n \in Nat
  BY <1>2 DEF IdsNumbered
<1>4. ASSUME NEW s \in Subs, NEW k \in DOMAIN wchan'[s]
      PROVE  /\ wchan'[s][k].sub = s
             /\ \A l \in DOMAIN wchan'[s] : k < l => wchan'[s][k].id < wchan'[s][l].id
             /\ \A e \in Received(s)' : e.id < wchan'[s][k].id
  <2>0. /\ \A m \in DOMAIN wchan[s] : wchan[s][m].id < held.id
        /\ \A e \in Received(s) : e.id < held.id
    BY <1>3, IdsAre
  <2>1. CASE s # held.sub
    BY <1>1, <2>1 DEF Fifo
  <2>2. CASE s = held.sub
    <3>1. PICK q \in Seq(Events) : q = wchan[s] /\ wchan'[s] = Append(q, held)
      BY <1>1, <2>2
    <3>2. /\ \A i \in DOMAIN q : Append(q, held)[i] = q[i] /\ i <= Len(q)
          /\ \A i \in DOMAIN Append(q, held) : i \in DOMAIN q \/ i = Len(q) + 1
          /\ Append(q, held)[Len(q) + 1] = held /\ Len(q) \in Nat /\ DOMAIN q \subseteq Nat
      BY <1>1, SentOn
    <3>3. CASE k \in DOMAIN q
      <4>1. wchan'[s][k] = wchan[s][k] /\ k \in DOMAIN wchan[s]
        BY <3>1, <3>2, <3>3
      <4>2. ASSUME NEW l \in DOMAIN wchan'[s], k < l PROVE wchan'[s][k].id < wchan'[s][l].id
        <5>1. CASE l \in DOMAIN q
          <6>1. wchan'[s][l] = wchan[s][l] /\ l \in DOMAIN wchan[s]
            BY <3>1, <3>2, <5>1
          <6> QED BY <4>1, <4>2, <6>1 DEF Fifo
        <5>2. CASE l = Len(q) + 1
          BY <2>0, <3>1, <3>2, <4>1, <5>2
        <5> QED BY <3>1, <3>2, <5>1, <5>2
      <4> QED BY <1>1, <4>1, <4>2 DEF Fifo
    <3>4. CASE k = Len(q) + 1
      <4>1. wchan'[s][k] = held /\ \A l \in DOMAIN wchan'[s] : ~(k < l)
        BY <3>1, <3>2, <3>4
      <4> QED BY <1>1, <2>0, <2>2, <4>1
    <3> QED BY <3>1, <3>2, <3>3, <3>4
  <2> QED BY <2>1, <2>2
<1>5. Fifo'
  <2>1. \A s \in Subs : \A e \in heap'[s] : e.sub = s
    BY <1>1 DEF Fifo
  <2>2. \A s \in Subs : \A e, f \in Received(s)' : e.id = f.id => e = f
    BY <1>1 DEF Fifo
  <2> QED BY <1>4, <2>1, <2>2 DEF Fifo
<1>6. OnePlace'
  BY <1>1 DEF OnePlace
<1>7. IdsNumbered'
  <2>1. \A s, t \in Subs : s # t => Ids(s)' \cap Ids(t)' = {}
    BY <1>1, <1>3 DEF IdsNumbered
  <2>2. held'.id = 0 /\ held' = NoEvent
    BY <1>1 DEF NoEvent
  <2>3. \A s \in Subs : \A n \in Ids(s)' : n \in 1..arrived' /\ n # 0
    BY <1>1, <1>2 DEF IdsNumbered
  <2> QED BY <2>1, <2>2, <2>3 DEF IdsNumbered
<1>8. Accounted'
  <2> SUFFICES ASSUME ~cancelled', NEW n \in 1..arrived'
               PROVE  \E s \in Subs : n \in Ids(s)'
    BY DEF Accounted
  <2>1. n \in ({held.id} \ {0}) \cup UNION {Ids(s) : s \in Subs}
    BY <1>1 DEF Accounted
  <2> QED BY <1>1, <2>1
<1> QED BY <1>5, <1>6, <1>7, <1>8

(* So does a Processor's receive.                                          *)
LEMMA TakenInOrder ==
    ASSUME PlaceInv, NEW s \in Subs, Receive(s)
    PROVE  Fifo' /\ OnePlace' /\ IdsNumbered' /\ Accounted'
<1> USE DEF PlaceInv
<1>1. PICK item \in Items :
        /\ wchan[s] # <<>> /\ wchan' = [wchan EXCEPT ![s] = Tail(@)]
        /\ heap' = [heap EXCEPT ![s] = @ \cup {item}]
        /\ item.id = wchan[s][1].id /\ item.sub = s
        /\ \A e \in Received(s) : e.id < item.id
        /\ UNCHANGED <<arrived, cancelled, held, out>>
  BY Enqueued DEF routerVars
<1>2. /\ \A t \in Subs \ {s} : wchan'[t] = wchan[t] /\ heap'[t] = heap[t]
      /\ wchan'[s] = Tail(wchan[s]) /\ heap'[s] = heap[s] \cup {item}
      /\ \A t \in Subs \ {s} : Received(t)' = Received(t)
      /\ Received(s)' = Received(s) \cup {item}
      /\ \A t \in Subs : Ids(t)' = Ids(t)
  BY <1>1, TakenIn
<1>3. PICK q \in Seq(Events) : q = wchan[s] /\ q # <<>>
  BY <1>1 DEF Types, RouterTypes
<1>4. /\ 1 \in DOMAIN q
      /\ \A i \in DOMAIN Tail(q) : i \in Nat \ {0} /\ i + 1 \in DOMAIN q /\ Tail(q)[i] = q[i + 1]
  BY <1>3, ReceivedFrom
<1>5. \A e \in Received(s) : e.id \in Nat /\ item.id \in Nat /\ e.id # item.id
  BY <1>1, IdsAre DEF Items
<1>6. ASSUME NEW k \in DOMAIN wchan'[s]
      PROVE  /\ wchan'[s][k].sub = s
             /\ \A l \in DOMAIN wchan'[s] : k < l => wchan'[s][k].id < wchan'[s][l].id
             /\ \A e \in Received(s)' : e.id < wchan'[s][k].id
  <2>1. k \in DOMAIN Tail(q) /\ wchan'[s][k] = Tail(q)[k]
    BY <1>2, <1>3
  <2>2. k \in Nat \ {0} /\ k + 1 \in DOMAIN wchan[s] /\ wchan'[s][k] = wchan[s][k + 1] /\ 1 < k + 1
    BY <1>3, <1>4, <2>1
  <2>3. ASSUME NEW l \in DOMAIN wchan'[s], k < l PROVE wchan'[s][k].id < wchan'[s][l].id
    <3>1. l \in DOMAIN Tail(q) /\ wchan'[s][l] = Tail(q)[l]
      BY <1>2, <1>3
    <3>2. l \in Nat /\ l + 1 \in DOMAIN wchan[s] /\ wchan'[s][l] = wchan[s][l + 1] /\ k + 1 < l + 1
      BY <1>3, <1>4, <2>2, <2>3, <3>1
    <3> QED BY <2>2, <3>2 DEF Fifo
  <2>4. item.id < wchan[s][k + 1].id
    BY <1>1, <1>3, <1>4, <2>2 DEF Fifo
  <2> QED BY <1>2, <2>2, <2>3, <2>4 DEF Fifo
<1>7. Fifo'
  <2>1. \A t \in Subs : \A e \in heap'[t] : e.sub = t
    BY <1>1, <1>2 DEF Fifo
  <2>2. \A t \in Subs : \A e, f \in Received(t)' : e.id = f.id => e = f
    BY <1>2, <1>5 DEF Fifo
  <2>3. \A t \in Subs \ {s} : \A k \in DOMAIN wchan'[t] :
          /\ wchan'[t][k].sub = t
          /\ \A l \in DOMAIN wchan'[t] : k < l => wchan'[t][k].id < wchan'[t][l].id
          /\ \A e \in Received(t)' : e.id < wchan'[t][k].id
    BY <1>2 DEF Fifo
  <2> QED BY <1>6, <2>1, <2>2, <2>3 DEF Fifo
<1>8. OnePlace'
  <2>1. ASSUME NEW t \in Subs, NEW e \in heap'[t], NEW i \in DOMAIN out PROVE out[i] # e
    <3>1. CASE e \in heap[t]
      BY <3>1 DEF OnePlace
    <3>2. CASE t = s /\ e = item
      <4>1. out[i] = item => item \in Received(s)
        BY <1>1 DEF Received
      <4> QED BY <1>5, <3>2, <4>1
    <3> QED BY <1>2, <3>1, <3>2
  <2> QED BY <1>1, <2>1 DEF OnePlace
<1>9. IdsNumbered'
  BY <1>1, <1>2 DEF IdsNumbered
<1>10. Accounted'
  BY <1>1, <1>2 DEF Accounted
<1> QED BY <1>7, <1>8, <1>9, <1>10

(* And a Processor's send.                                                 *)
LEMMA SentOutOnce ==
    ASSUME PlaceInv, NEW s \in Subs, NEW r \in heap[s], Sends(s, r)
    PROVE  Fifo' /\ OnePlace' /\ IdsNumbered' /\ Accounted'
<1> USE DEF PlaceInv
<1>1. /\ r \in Items /\ r.sub = s /\ out \in Seq(Items) /\ out' = Append(out, r)
      /\ UNCHANGED <<arrived, cancelled, held, wchan>>
      /\ heap'[s] = heap[s] \ {r} /\ \A t \in Subs \ {s} : heap'[t] = heap[t]
      /\ \A t \in Subs : Received(t)' = Received(t) /\ Ids(t)' = Ids(t)
  BY SentOut
<1>2. /\ \A i \in DOMAIN out : out'[i] = out[i] /\ i <= Len(out)
      /\ \A i \in DOMAIN out' : i \in DOMAIN out \/ (i = Len(out) + 1 /\ out'[i] = r)
  BY <1>1, SentOn
<1>3. \A t \in Subs : heap'[t] \subseteq heap[t] \ {r}
  BY <1>1 DEF Fifo
<1>4. Fifo'
  BY <1>1, <1>3 DEF Fifo
<1>5. OnePlace'
  <2>1. \A i \in DOMAIN out : out[i] # r
    BY DEF OnePlace
  <2>2. \A i, j \in DOMAIN out' : out'[i] = out'[j] => i = j
    BY <1>2, <2>1 DEF OnePlace
  <2>3. \A t \in Subs : \A e \in heap'[t] : \A i \in DOMAIN out' : out'[i] # e
    BY <1>2, <1>3 DEF OnePlace
  <2> QED BY <2>2, <2>3 DEF OnePlace
<1>6. IdsNumbered'
  BY <1>1 DEF IdsNumbered
<1>7. Accounted'
  BY <1>1 DEF Accounted
<1> QED BY <1>4, <1>5, <1>6, <1>7

(* Every step keeps each event in its place.                               *)
LEMMA PlaceStep == PlaceInv /\ [Next]_vars => PlaceInv'
<1> SUFFICES ASSUME PlaceInv, [Next]_vars PROVE PlaceInv'
  OBVIOUS
<1>0. Types'
  BY TypesStep DEF PlaceInv
<1> SUFFICES Fifo' /\ OnePlace' /\ IdsNumbered' /\ Accounted'
  BY <1>0 DEF PlaceInv
<1>1. ASSUME UNCHANGED <<wchan, heap, out>> PROVE Fifo' /\ OnePlace'
  BY <1>1, Unmoved DEF PlaceInv, Fifo, OnePlace
<1>2. ASSUME NEW ev \in Feed, RouterReceive(ev) PROVE Fifo' /\ OnePlace' /\ IdsNumbered' /\ Accounted'
  <2>1. UNCHANGED <<wchan, heap, out, cancelled>> /\ arrived' = arrived + 1 /\ held'.id = arrived' /\ arrived \in Nat
    BY <1>2, WatermarkBounds DEF RouterReceive, procVars, PlaceInv, Types, RouterTypes
  <2>2. held = NoEvent
    BY <1>2 DEF RouterReceive, PlaceInv, Types, RouterTypes
  <2>3. IdsNumbered'
    BY <2>1, Unmoved DEF PlaceInv, IdsNumbered
  <2>4. Accounted'
    BY <2>1, <2>2, Unmoved DEF PlaceInv, Accounted, NoEvent
  <2> QED BY <1>1, <2>1, <2>3, <2>4
<1>3. CASE RouterSend
  BY <1>3, HandOverInOrder
<1>4. CASE RouterStop
  <2>1. UNCHANGED <<wchan, heap, out, cancelled, arrived>> /\ held' = NoEvent
    BY <1>4 DEF RouterStop, procVars
  <2>2. cancelled \/ held = NoEvent
    BY <1>4 DEF RouterStop, PlaceInv, Types, RouterTypes
  <2>3. IdsNumbered'
    BY <2>1, WatermarkBounds, Unmoved DEF PlaceInv, IdsNumbered, NoEvent, Types, RouterTypes
  <2>4. Accounted'
    BY <2>1, <2>2, Unmoved DEF PlaceInv, Accounted
  <2> QED BY <1>1, <2>1, <2>3, <2>4
<1>5. ASSUME NEW s \in Subs, Receive(s) PROVE Fifo' /\ OnePlace' /\ IdsNumbered' /\ Accounted'
  BY <1>5, TakenInOrder
<1>6. ASSUME NEW s \in Subs, NEW r \in heap[s], Sends(s, r)
      PROVE  Fifo' /\ OnePlace' /\ IdsNumbered' /\ Accounted'
  BY <1>6, SentOutOnce
<1>7. CASE Quiet
  <2>1. UNCHANGED <<wchan, heap, out, arrived>> /\ held' = held /\ (cancelled => cancelled')
    BY <1>7 DEF Quiet
  <2>2. IdsNumbered' /\ Accounted'
    BY <2>1, Unmoved DEF PlaceInv, IdsNumbered, Accounted
  <2> QED BY <1>1, <2>1, <2>2
<1> QED BY <1>2, <1>3, <1>4, <1>5, <1>6, <1>7, StepKinds DEF PlaceInv

-----------------------------------------------------------------------------
(* What leaves a heap was passed, and a receive keeps that so.             *)
LEMMA PassedStep == OrderInv /\ [Next]_vars => Passed'
<1> SUFFICES ASSUME OrderInv, [Next]_vars PROVE Passed'
  OBVIOUS
<1> USE DEF OrderInv, PlaceInv
<1>0. ProcTypes /\ Lateness \in Nat
  BY WatermarkBounds DEF Types
<1>1. ASSUME UNCHANGED <<maxSeen, out>>,
             \A s \in Subs : /\ pc'[s] \notin {"drain", "done"} =>
                                  pc[s] \notin {"drain", "done"} /\ (flushed[s] => flushed'[s])
                             /\ pc'[s] = "flush" => flushed'[s]
      PROVE  Passed'
  BY <1>1 DEF Passed, WatermarkOf
<1>2. ASSUME NEW ev \in Feed, RouterReceive(ev) PROVE Passed'
  <2>1. UNCHANGED <<maxSeen, out, flushed>> /\ pc' = [pc EXCEPT ![ev.sub] = IF @ = "none" THEN "recv" ELSE @]
    BY <1>2 DEF RouterReceive, procVars
  <2>2. \A s \in Subs : pc'[s] = pc[s] \/ (pc[s] = "none" /\ pc'[s] = "recv")
    BY <1>0, <2>1 DEF ProcTypes
  <2> QED BY <1>1, <2>1, <2>2 DEF Passed
<1>3. CASE RouterSend \/ RouterStop
  BY <1>1, <1>3 DEF RouterSend, RouterStop, procVars, Passed
<1>4. ASSUME NEW s \in Subs, Receive(s) PROVE Passed'
  <2>1. PICK item \in Items :
          /\ maxSeen' = [maxSeen EXCEPT ![s] = IF item.ts > @ THEN item.ts ELSE @]
          /\ pc' = [pc EXCEPT ![s] = IF item.end THEN "flush" ELSE "emit"]
          /\ flushed' = [flushed EXCEPT ![s] = @ \/ item.end]
          /\ out' = out
    BY <1>4, Enqueued
  <2>2. item.ts \in Nat /\ maxSeen[s] \in Nat
    BY <1>0 DEF Items, ProcTypes
  <2>3. /\ maxSeen'[s] \in Nat /\ maxSeen[s] <= maxSeen'[s]
        /\ \A t \in Subs \ {s} : maxSeen'[t] = maxSeen[t] /\ pc'[t] = pc[t] /\ flushed'[t] = flushed[t]
        /\ pc'[s] = IF item.end THEN "flush" ELSE "emit"
        /\ flushed'[s] = (flushed[s] \/ item.end)
    BY <1>0, <2>1, <2>2 DEF ProcTypes
  <2>4. pc[s] = "recv"
    BY <1>4 DEF Receive
  <2>5. ASSUME NEW i \in DOMAIN out, out[i].sub = s PROVE flushed'[s] \/ out[i].ts <= maxSeen'[s] - Lateness
    <3>1. flushed[s] \/ out[i].ts <= maxSeen[s] - Lateness
      BY <2>4, <2>5 DEF Passed, WatermarkOf
    <3>2. CASE flushed[s]
      BY <2>3, <3>2
    <3>3. CASE out[i].ts <= maxSeen[s] - Lateness
      <4>1. out[i] \in Items
        BY <1>0 DEF ProcTypes
      <4>2. out[i].ts \in Nat
        BY <4>1 DEF Items
      <4>3. maxSeen[s] <= maxSeen'[s] /\ maxSeen'[s] \in Nat
        BY <2>3
      <4>4. out[i].ts <= maxSeen'[s] - Lateness
        BY <1>0, <2>2, <3>3, <4>2, <4>3
      <4> QED BY <4>4
    <3> QED BY <3>1, <3>2, <3>3
  <2>6. pc'[s] = "flush" => flushed'[s]
    BY <2>3
  <2> QED BY <2>1, <2>3, <2>5, <2>6 DEF Passed, WatermarkOf
<1>5. ASSUME NEW s \in Subs, NEW r \in heap[s], Sends(s, r) PROVE Passed'
  <2>1. /\ r.sub = s /\ out \in Seq(Items) /\ out' = Append(out, r)
        /\ UNCHANGED <<pc, maxSeen, flushed>>
    BY <1>5, SentOut
  <2>2. /\ \A i \in DOMAIN out : out'[i] = out[i]
        /\ \A i \in DOMAIN out' : i \in DOMAIN out \/ out'[i] = r
    BY <1>5, <2>1, SentOn, SentOut
  <2>3. pc[s] \notin {"drain", "done"} => flushed[s] \/ r.ts <= WatermarkOf(s)
    BY <1>5 DEF Sends, Passed
  <2>4. \A t \in Subs : WatermarkOf(t)' = WatermarkOf(t)
    BY <2>1 DEF WatermarkOf
  <2>5. ASSUME NEW t \in Subs, pc[t] \notin {"drain", "done"}, NEW i \in DOMAIN out', out'[i].sub = t
        PROVE  flushed[t] \/ out'[i].ts <= WatermarkOf(t)
    <3>1. CASE i \in DOMAIN out
      BY <2>2, <2>5, <3>1 DEF Passed
    <3>2. CASE out'[i] = r
      BY <2>1, <2>3, <2>5, <3>2
    <3> QED BY <2>2, <3>1, <3>2
  <2>6. \A t \in Subs : pc[t] = "flush" => flushed[t]
    BY DEF Passed
  <2> QED BY <2>1, <2>4, <2>5, <2>6 DEF Passed
<1>6. CASE Quiet
  <2>1. \A s \in Subs : /\ pc'[s] \notin {"drain", "done"} =>
                             pc[s] \notin {"drain", "done"} /\ (flushed[s] => flushed'[s])
                        /\ pc'[s] = "flush" => flushed'[s]
    <3> SUFFICES ASSUME NEW s \in Subs
                 PROVE  /\ pc'[s] \notin {"drain", "done"} =>
                             pc[s] \notin {"drain", "done"} /\ (flushed[s] => flushed'[s])
                        /\ pc'[s] = "flush" => flushed'[s]
      OBVIOUS
    <3>1. StageStep(s) /\ (pc[s] = "flush" => flushed[s])
      BY <1>6 DEF Quiet, Passed
    <3>2. pc'[s] \notin {"drain", "done"} => (flushed[s] => flushed'[s])
      BY <3>1, Zenon DEF StageStep
    <3>3. pc'[s] \notin {"drain", "done"} => pc[s] \notin {"drain", "done"}
      BY <3>1 DEF StageStep
    <3>4. pc'[s] = "flush" => flushed'[s]
      BY <3>1 DEF StageStep
    <3> QED BY <3>2, <3>3, <3>4
  <2> QED BY <1>1, <1>6, <2>1 DEF Quiet
<1> QED BY <1>2, <1>3, <1>4, <1>5, <1>6, StepKinds

(* What overtakes an item was sent before that one came, and it came late. *)
LEMMA OrderStep == OrderInv /\ [Next]_vars => OrderInv'
<1> SUFFICES ASSUME OrderInv, [Next]_vars PROVE HeapLate' /\ InOrderUnlessLate'
  BY PassedStep, PlaceStep DEF OrderInv
<1> USE DEF OrderInv, PlaceInv
<1>0. ProcTypes /\ Lateness \in Nat
  BY WatermarkBounds DEF Types
<1>1. ASSUME UNCHANGED <<heap, out>> PROVE HeapLate' /\ InOrderUnlessLate'
  BY <1>1 DEF HeapLate, InOrderUnlessLate
<1>2. ASSUME NEW s \in Subs, Receive(s) PROVE HeapLate' /\ InOrderUnlessLate'
  <2>1. PICK item \in Items :
          /\ heap' = [heap EXCEPT ![s] = @ \cup {item}]
          /\ item.at = Len(out)
          /\ item.late <=> (flushed[s] \/ item.ts <= WatermarkOf(s))
          /\ out' = out
    BY <1>2, Enqueued
  <2>2. /\ heap'[s] = heap[s] \cup {item} /\ \A t \in Subs \ {s} : heap'[t] = heap[t]
        /\ item.ts \in Nat /\ maxSeen[s] \in Nat
    BY <1>0, <2>1 DEF ProcTypes, Items
  <2>3. ASSUME NEW i \in DOMAIN out, out[i].sub = s, Less(item, out[i]) PROVE item.late /\ item.at >= i
    <3>0. out[i] \in Items
      BY <1>0 DEF ProcTypes
    <3>1. item.ts <= out[i].ts /\ out[i].ts \in Nat
      BY <2>2, <2>3, <3>0 DEF Less, Items
    <3>2. flushed[s] \/ out[i].ts <= WatermarkOf(s)
      BY <1>2, <2>3 DEF Receive, Passed
    <3>3. i <= Len(out)
      BY <1>0 DEF ProcTypes
    <3>4. Len(out) \in Nat /\ i \in Nat
      BY <1>0 DEF ProcTypes
    <3> QED BY <1>0, <2>1, <2>2, <3>1, <3>2, <3>3, <3>4 DEF WatermarkOf
  <2>4. HeapLate'
    BY <2>1, <2>2, <2>3 DEF HeapLate
  <2>5. InOrderUnlessLate'
    BY <2>1 DEF InOrderUnlessLate
  <2> QED BY <2>4, <2>5
<1>3. ASSUME NEW s \in Subs, NEW r \in heap[s], Sends(s, r) PROVE HeapLate' /\ InOrderUnlessLate'
  <2>1. /\ r \in Items /\ r.sub = s /\ out \in Seq(Items) /\ out' = Append(out, r)
        /\ heap'[s] = heap[s] \ {r} /\ \A t \in Subs \ {s} : heap'[t] = heap[t]
    BY <1>3, SentOut
  <2>2. /\ \A i \in DOMAIN out : out'[i] = out[i] /\ i <= Len(out) /\ i \in Nat
        /\ \A i \in DOMAIN out' : i \in DOMAIN out \/ (i = Len(out) + 1 /\ out'[i] = r)
        /\ Len(out) \in Nat
    BY <2>1, SentOn
  <2>3. ASSUME NEW f \in heap[s], f # r PROVE ~Less(f, r)
    <3>1. Less(r, f) /\ f \in Items
      BY <1>0, <1>3, <2>3 DEF Sends, ProcTypes
    <3> QED BY <2>1, <3>1 DEF Less, Items
  <2>4. ASSUME NEW t \in Subs, NEW e \in heap'[t], NEW i \in DOMAIN out',
               out'[i].sub = t, Less(e, out'[i])
        PROVE  e.late /\ e.at >= i
    <3>1. CASE i \in DOMAIN out
      BY <2>1, <2>2, <2>4, <3>1 DEF HeapLate
    <3>2. CASE i = Len(out) + 1 /\ out'[i] = r
      BY <2>1, <2>3, <2>4, <3>2
    <3> QED BY <2>2, <3>1, <3>2
  <2>5. ASSUME NEW i \in DOMAIN out', NEW j \in DOMAIN out', i < j,
               out'[i].sub = out'[j].sub, Less(out'[j], out'[i])
        PROVE  out'[j].late /\ out'[j].at >= i
    <3>1. i \in DOMAIN out
      BY <2>2, <2>5
    <3>2. CASE j \in DOMAIN out
      BY <2>2, <2>5, <3>1, <3>2 DEF InOrderUnlessLate
    <3>3. CASE out'[j] = r
      BY <1>3, <2>1, <2>2, <2>5, <3>1, <3>3 DEF HeapLate
    <3> QED BY <2>2, <3>2, <3>3
  <2>6. HeapLate'
    BY <2>4 DEF HeapLate
  <2>7. InOrderUnlessLate'
    BY <2>5 DEF InOrderUnlessLate, Less
  <2> QED BY <2>6, <2>7
<1>4. ASSUME NEW ev \in Feed, RouterReceive(ev) PROVE UNCHANGED <<heap, out>>
  BY <1>4 DEF RouterReceive, procVars
<1>5. ASSUME RouterSend \/ RouterStop \/ Quiet PROVE UNCHANGED <<heap, out>>
  BY <1>5 DEF RouterSend, RouterStop, Quiet, procVars
<1> QED BY <1>1, <1>2, <1>3, <1>4, <1>5, StepKinds

(* A Processor that goes back to its select after a marker is empty.       *)
LEMMA BacklogStep == BacklogInv /\ [Next]_vars => BacklogInv'
<1> SUFFICES ASSUME BacklogInv, [Next]_vars PROVE Backlog'
  BY PlaceStep DEF BacklogInv
<1> USE DEF BacklogInv, PlaceInv
<1>0. ProcTypes
  BY DEF Types
<1>1. ASSUME NEW ev \in Feed, RouterReceive(ev) PROVE Backlog'
  <2>1. /\ UNCHANGED <<wchan, heap, out>>
        /\ pc' = [pc EXCEPT ![ev.sub] = IF @ = "none" THEN "recv" ELSE @]
    BY <1>1 DEF RouterReceive, procVars
  <2>2. \A s \in Subs : pc'[s] = pc[s] \/ (pc[s] = "none" /\ pc'[s] = "recv")
    BY <1>0, <2>1 DEF ProcTypes
  <2>3. \A s \in Subs : heap'[s] = heap[s] /\ Received(s)' = Received(s)
    BY <2>1, Unmoved
  <2> QED BY <2>2, <2>3 DEF Backlog
<1>2. CASE RouterSend \/ RouterStop
  <2>1. UNCHANGED <<pc, heap, out>>
    BY <1>2 DEF RouterSend, RouterStop, procVars
  <2> QED BY <2>1 DEF Backlog, Received
<1>3. ASSUME NEW s \in Subs, Receive(s) PROVE Backlog'
  <2>1. PICK item \in Items :
          /\ wchan[s] # <<>> /\ wchan' = [wchan EXCEPT ![s] = Tail(@)]
          /\ heap' = [heap EXCEPT ![s] = @ \cup {item}]
          /\ item.id = wchan[s][1].id
          /\ pc' = [pc EXCEPT ![s] = IF item.end THEN "flush" ELSE "emit"]
          /\ \A e \in Received(s) : e.id < item.id
          /\ out' = out
    BY <1>3, Enqueued
  <2>2. /\ \A t \in Subs \ {s} : heap'[t] = heap[t] /\ Received(t)' = Received(t)
        /\ Received(s)' = Received(s) \cup {item} /\ heap'[s] = heap[s] \cup {item}
    BY <2>1, TakenIn
  <2>3. /\ \A t \in Subs \ {s} : pc'[t] = pc[t]
        /\ pc'[s] = IF item.end THEN "flush" ELSE "emit"
        /\ pc[s] = "recv"
    BY <1>0, <1>3, <2>1 DEF ProcTypes, Receive
  <2>4. ASSUME ~item.end, NEW m \in Received(s)', NEW e \in heap'[s], m.end PROVE e.id > m.id
    <3>1. m \in Received(s)
      BY <2>2, <2>4
    <3>2. m.id \in Nat /\ item.id \in Nat
      BY <3>1, IdsAre DEF Items
    <3>3. CASE e = item
      BY <2>1, <3>1, <3>2, <3>3
    <3>4. CASE e \in heap[s]
      BY <2>3, <2>4, <3>1, <3>4 DEF Backlog
    <3> QED BY <2>2, <3>3, <3>4
  <2> QED BY <2>2, <2>3, <2>4 DEF Backlog
<1>4. ASSUME NEW s \in Subs, NEW r \in heap[s], Sends(s, r) PROVE Backlog'
  <2>1. /\ pc' = pc /\ heap'[s] = heap[s] \ {r} /\ \A t \in Subs \ {s} : heap'[t] = heap[t]
        /\ \A t \in Subs : Received(t)' = Received(t)
    BY <1>4, SentOut
  <2> QED BY <2>1 DEF Backlog
<1>5. CASE Quiet
  <2>1. UNCHANGED <<wchan, heap, out>> /\ \A s \in Subs : StageStep(s)
    BY <1>5 DEF Quiet
  <2>2. \A s \in Subs : Received(s)' = Received(s)
    BY <2>1, Unmoved
  <2> QED BY <2>1, <2>2 DEF Backlog, StageStep
<1> QED BY <1>1, <1>2, <1>3, <1>4, <1>5, StepKinds

-----------------------------------------------------------------------------
(* Every reachable state has the invariants.                               *)
LEMMA WatermarkInvariant == Spec => [](OrderInv /\ BacklogInv)
<1>1. Init => OrderInv /\ BacklogInv
  BY WatermarkInit
<1>2. OrderInv /\ BacklogInv /\ [Next]_vars => (OrderInv /\ BacklogInv)'
  BY OrderStep, BacklogStep
<1> QED BY <1>1, <1>2, PTL DEF Spec

(* Every variable has its type and no channel, neither a worker's nor the  *)
(* engine's, ever holds more than its capacity.                            *)
THEOREM WatermarkTypes == Spec => []TypeOK
<1>1. OrderInv => TypeOK
  BY DEF OrderInv, PlaceInv, Types, RouterTypes, ProcTypes, TypeOK
<1> QED BY <1>1, WatermarkInvariant, PTL

(* What has been sent is received, and has an id of its own.               *)
LEMMA SentOnce ==
    ASSUME PlaceInv
    PROVE  /\ \A i \in DOMAIN out : /\ out[i] \in Items /\ out[i].sub \in Subs
                                    /\ out[i] \in Received(out[i].sub)
           /\ \A i, j \in DOMAIN out : out[i].id = out[j].id => i = j
<1> USE DEF PlaceInv
<1>1. ASSUME NEW i \in DOMAIN out
      PROVE  out[i] \in Items /\ out[i].sub \in Subs /\ out[i] \in Received(out[i].sub)
  <2>1. out[i] \in Items
    BY DEF Types, ProcTypes
  <2> QED BY <2>1 DEF Items, Received
<1>2. ASSUME NEW i \in DOMAIN out, NEW j \in DOMAIN out, out[i].id = out[j].id PROVE i = j
  <2>1. out[i].id \in Ids(out[i].sub) /\ out[i].id \in Ids(out[j].sub)
    BY <1>1, <1>2, IdsAre
  <2>2. out[i].sub = out[j].sub
    BY <1>1, <2>1 DEF IdsNumbered
  <2>3. out[i] = out[j]
    BY <1>1, <1>2, <2>2 DEF Fifo
  <2> QED BY <2>3 DEF OnePlace
<1> QED BY <1>1, <1>2

(* Between the consumer and the engine no event is lost or duplicated      *)
(* while the service runs: each is with the Router, in its worker's        *)
(* channel, in its Processor's heap or downstream, and there once.         *)
THEOREM EachEventOnce == Spec => []NothingLostOrRepeated
<1>1. ASSUME PlaceInv PROVE NothingLostOrRepeated
  <2> USE <1>1 DEF PlaceInv
  <2>1. /\ \A i \in DOMAIN out : out[i].sub \in Subs /\ out[i] \in Received(out[i].sub)
        /\ \A i, j \in DOMAIN out : out[i].id = out[j].id => i = j
    BY <1>1, SentOnce
  <2>2. ASSUME ~cancelled
        PROVE  1..arrived = ({held.id} \ {0}) \cup OutIds
                                \cup UNION {ChanIds(wchan[s]) \cup HeapIds(s) : s \in Subs}
    <3>1. ASSUME NEW n \in 1..arrived, n \notin {held.id} \ {0}
          PROVE  n \in OutIds \cup UNION {ChanIds(wchan[s]) \cup HeapIds(s) : s \in Subs}
      <4>1. PICK s \in Subs : n \in Ids(s)
        BY <2>2, <3>1 DEF Accounted
      <4>2. CASE n \in ChanIds(wchan[s])
        BY <4>2
      <4>3. CASE \E e \in Received(s) : n = e.id
        BY <4>3 DEF Received, OutIds, HeapIds
      <4> QED BY <4>1, <4>2, <4>3 DEF Ids
    <3>2. held.id # 0 => held.id \in 1..arrived
      <4>1. CASE held = NoEvent
        BY <4>1 DEF NoEvent
      <4>2. CASE held # NoEvent
        <5>1. held.id = arrived /\ arrived \in Nat
          BY <4>2, WatermarkBounds DEF IdsNumbered, Types, RouterTypes
        <5> QED BY <5>1
      <4> QED BY <4>1, <4>2
    <3>3. OutIds \subseteq 1..arrived
      BY <2>1, IdsAre DEF OutIds, IdsNumbered
    <3>4. \A s \in Subs : ChanIds(wchan[s]) \subseteq 1..arrived
      BY DEF Ids, IdsNumbered
    <3>5. \A s \in Subs : HeapIds(s) \subseteq 1..arrived
      BY IdsAre DEF HeapIds, Received, IdsNumbered
    <3> QED BY <3>1, <3>2, <3>3, <3>4, <3>5
  <2> QED BY <2>1, <2>2 DEF NothingLostOrRepeated
<1>2. OrderInv => NothingLostOrRepeated
  BY <1>1 DEF OrderInv
<1> QED BY <1>2, WatermarkInvariant, PTL

(* A submission's events leave in event-time order except for an event     *)
(* that the watermark or a flush had passed before it was received, and    *)
(* only what had already left by then precedes such an event.              *)
THEOREM OnlyLateOutOfOrder == Spec => []InOrderUnlessLate
<1>1. OrderInv => InOrderUnlessLate
  BY DEF OrderInv
<1> QED BY <1>1, WatermarkInvariant, PTL

(* A Processor is back at its select after an end-of-run marker only when  *)
(* the marker and all it received before it are downstream.                *)
THEOREM MarkerFlushes == Spec => []EndFlushesBacklog
<1>1. ASSUME BacklogInv PROVE EndFlushesBacklog
  <2> SUFFICES ASSUME NEW s \in Subs, NEW m \in heap[s] \cup {out[i] : i \in DOMAIN out},
                      pc[s] = "recv", m.sub = s, m.end, NEW e \in heap[s]
               PROVE  e.id > m.id
    BY DEF EndFlushesBacklog
  <2>1. m \in Received(s)
    BY DEF Received
  <2> QED BY <1>1, <2>1 DEF BacklogInv, Backlog
<1>2. OrderInv /\ BacklogInv => EndFlushesBacklog
  BY <1>1
<1> QED BY <1>2, WatermarkInvariant, PTL

-----------------------------------------------------------------------------
(* The engine's proofs, about the engine as the checker wires it.         *)
EngineProofs == INSTANCE ReplayEngine_proofs WITH
    InCap <- OutCap, in <- OrderedEvents, inClosed <- outClosed, offered <- Len(out),
    taken <- updTaken

(* What an item finds in out when it is received arrived before it.        *)
AtAfter ==
    \A s \in Subs : \A e \in Received(s) :
        /\ e.at <= Len(out)
        /\ \A i \in DOMAIN out : (out[i].sub = s /\ i <= e.at) => out[i].id < e.id

(* The Router starts a Processor before it sends to it, closes the workers *)
(* when it stops, and closes out when every Processor is done.  Unless the *)
(* service is cancelled, a Processor that is done has nothing left.        *)
Drained ==
    /\ wclosed <=> router \in {"wait", "done"}
    /\ outClosed <=> router = "done"
    /\ router = "done" => \A s \in Subs : pc[s] \in {"none", "done"}
    /\ \A s \in Subs : pc[s] = "none" =>
         wchan[s] = <<>> /\ heap[s] = {} /\ (held # NoEvent => held.sub # s)
    /\ cancelled \/ \A s \in Subs :
         /\ pc[s] = "drain" => wclosed /\ wchan[s] = <<>>
         /\ pc[s] = "done" => wclosed /\ wchan[s] = <<>> /\ heap[s] = {}

(* The engine has seen exactly what it took from out, in that order.       *)
SeenIsTaken ==
    \A s \in Subs :
        /\ \A k \in DOMAIN seen[s] :
             /\ seen[s][k].id \in 1..taken
             /\ out[seen[s][k].id].sub = s /\ out[seen[s][k].id].end = seen[s][k].end
        /\ \A k, l \in DOMAIN seen[s] : k < l => seen[s][k].id < seen[s][l].id
        /\ \A i \in 1..taken : out[i].sub = s => \E k \in DOMAIN seen[s] : seen[s][k].id = i

(* Run leaves its loop when out is closed and taken, or on cancellation.   *)
LoopEnds == run # "loop" => cancelled \/ (outClosed /\ taken = Len(out))

-----------------------------------------------------------------------------
(* The composition's steps are steps of the reordering, or leave it alone. *)
LEMMA ReorderingStep == [CheckerNext]_checkerVars => [Next]_vars
<1> SUFFICES ASSUME CheckerNext PROVE [Next]_vars
  BY DEF checkerVars
<1>1. CASE EngineReceives
  BY <1>1 DEF EngineReceives, Next
<1>2. CASE EngineRuns \/ AggregatorReceives \/ \E s \in Subs : WorkerRuns(s)
  BY <1>2 DEF EngineRuns, AggregatorReceives, WorkerRuns
<1>3. ASSUME NEW s \in Subs, ProcessorStep(s) \/ IdleFlush(s) PROVE Next
  BY <1>3 DEF Next
<1>4. ASSUME NEW ev \in Feed, RouterReceive(ev) PROVE Next
  BY <1>4 DEF Next
<1>5. ASSUME RouterStop \/ RouterStep \/ CancelService PROVE Next
  BY <1>5 DEF Next
<1> QED BY <1>1, <1>2, <1>3, <1>4, <1>5 DEF CheckerNext, Upstream

(* What the reordering's own proofs show holds in the composition.         *)
LEMMA ReorderingInvariant == CheckerSpec => [](OrderInv /\ BacklogInv)
<1>1. CheckerInit => OrderInv /\ BacklogInv
  BY WatermarkInit DEF CheckerInit
<1>2. OrderInv /\ BacklogInv /\ [CheckerNext]_checkerVars => OrderInv' /\ BacklogInv'
  BY ReorderingStep, OrderStep, BacklogStep
<1> QED BY <1>1, <1>2, PTL DEF CheckerSpec

-----------------------------------------------------------------------------
(* Closing the workers, then out, leaves nothing behind.                   *)
LEMMA DrainedStep == Types /\ Drained /\ [Next]_vars => Drained'
<1> SUFFICES ASSUME Types, Drained, [Next]_vars PROVE Drained'
  OBVIOUS
<1>0. /\ RouterTypes /\ ProcTypes
      /\ pc \in [Subs -> {"none", "recv", "emit", "flush", "drain", "done"}]
      /\ wchan \in [Subs -> Seq(Events)] /\ heap \in [Subs -> SUBSET Items]
  BY DEF Types, RouterTypes, ProcTypes
<1>1. ASSUME NEW ev \in Feed, RouterReceive(ev) PROVE Drained'
  <2>1. ev.sub \in Subs
    BY WatermarkBounds
  <2>2. /\ router = "run" /\ router' = "send" /\ held'.sub = ev.sub
        /\ pc' = [pc EXCEPT ![ev.sub] = IF @ = "none" THEN "recv" ELSE @]
        /\ UNCHANGED <<cancelled, wclosed, outClosed, wchan, heap>>
    BY <1>1 DEF RouterReceive, procVars
  <2> HIDE DEF RouterReceive
  <2> QED BY <1>0, <2>1, <2>2 DEF Drained
<1>2. CASE RouterSend
  <2>1. /\ router = "send" /\ router' = "run" /\ held' = NoEvent /\ held # NoEvent
        /\ wchan' = [wchan EXCEPT ![held.sub] = Append(@, held)]
        /\ UNCHANGED <<cancelled, wclosed, outClosed, pc, heap>>
    BY <1>0, <1>2 DEF RouterSend, procVars, RouterTypes
  <2>2. \A s \in Subs : s # held.sub => wchan'[s] = wchan[s]
    BY <1>0, <2>1
  <2>3. ~wclosed /\ ~outClosed
    BY <2>1 DEF Drained
  <2> QED BY <2>1, <2>2, <2>3 DEF Drained
<1>3. CASE RouterStop
  <2>1. /\ router \in {"run", "send"} /\ router' = "wait" /\ held' = NoEvent /\ wclosed' = TRUE
        /\ UNCHANGED <<cancelled, outClosed, wchan, pc, heap>>
    BY <1>3 DEF RouterStop, procVars
  <2> QED BY <2>1 DEF Drained
<1>4. CASE RouterFinish
  <2>1. /\ router = "wait" /\ router' = "done" /\ outClosed' = TRUE
        /\ \A s \in Subs : pc[s] \in {"none", "done"}
        /\ UNCHANGED <<cancelled, held, wclosed, wchan, pc, heap>>
    BY <1>4 DEF RouterFinish, procVars
  <2> QED BY <2>1 DEF Drained
<1>5. CASE CancelService \/ Downstream \/ UNCHANGED vars
  <2>1. /\ cancelled => cancelled'
        /\ UNCHANGED <<router, held, wclosed, outClosed, wchan, pc, heap>>
    BY <1>5 DEF CancelService, Downstream, vars, routerVars, procVars
  <2> QED BY <2>1 DEF Drained
<1>6. ASSUME NEW s \in Subs, ProcessorStep(s) \/ IdleFlush(s),
             pc[s] \in {"recv", "emit", "flush", "drain"},
             UNCHANGED <<cancelled, routerVars>>,
             \A t \in Subs \ {s} : pc'[t] = pc[t] /\ wchan'[t] = wchan[t] /\ heap'[t] = heap[t],
             pc'[s] # "none",
             pc'[s] = "drain" => (wclosed /\ wchan'[s] = <<>>) \/ cancelled,
             pc'[s] = "done" => (wclosed /\ wchan'[s] = <<>> /\ heap'[s] = {}) \/ cancelled
      PROVE  Drained'
  <2>1. UNCHANGED <<cancelled, router, held, wclosed, outClosed>> /\ router # "done"
    BY <1>6 DEF routerVars, Drained
  <2>2. \A t \in Subs : pc'[t] = "none" => t # s
    BY <1>6
  <2> QED BY <1>6, <2>1, <2>2 DEF Drained
<1>7. ASSUME NEW s \in Subs, Receive(s) PROVE Drained'
  <2>1. /\ pc[s] = "recv" /\ UNCHANGED <<cancelled, routerVars>>
        /\ \A t \in Subs \ {s} : pc'[t] = pc[t] /\ wchan'[t] = wchan[t] /\ heap'[t] = heap[t]
        /\ pc'[s] \in {"emit", "flush"}
    BY <1>0, <1>7 DEF Receive, NextStage
  <2> QED BY <1>6, <1>7, <2>1 DEF ProcessorStep
<1>8. ASSUME NEW s \in Subs, EmitReady(s) PROVE Drained'
  <2>1. /\ pc[s] = "emit" /\ UNCHANGED <<cancelled, routerVars, wchan>>
        /\ \A t \in Subs \ {s} : pc'[t] = pc[t] /\ heap'[t] = heap[t]
        /\ pc'[s] \in {"emit", "recv"}
    BY <1>0, <1>8 DEF EmitReady, PopAndSend, procVars
  <2> QED BY <1>6, <1>8, <2>1 DEF ProcessorStep
<1>9. ASSUME NEW s \in Subs, Flush(s) PROVE Drained'
  <2>1. /\ pc[s] \in {"flush", "drain"} /\ UNCHANGED <<cancelled, routerVars, wchan>>
        /\ \A t \in Subs \ {s} : pc'[t] = pc[t] /\ heap'[t] = heap[t]
    BY <1>0, <1>9 DEF Flush, PopAndSend, procVars
  <2>2. \/ pc'[s] = pc[s]
        \/ pc[s] = "flush" /\ pc'[s] = "recv"
        \/ pc[s] = "drain" /\ pc'[s] = "done" /\ heap'[s] = {}
    BY <1>0, <1>9 DEF Flush, PopAndSend, procVars
  <2>3. pc[s] = "drain" => (wclosed /\ wchan'[s] = <<>>) \/ cancelled
    BY <2>1 DEF Drained
  <2> QED BY <1>6, <1>9, <2>1, <2>2, <2>3 DEF ProcessorStep
<1>10. ASSUME NEW s \in Subs, IdleFlush(s) PROVE Drained'
  <2>1. /\ pc[s] = "recv" /\ UNCHANGED <<cancelled, routerVars, wchan, heap>>
        /\ \A t \in Subs \ {s} : pc'[t] = pc[t]
    BY <1>0, <1>10 DEF IdleFlush
  <2>2. pc'[s] = "flush"
    BY <1>0, <1>10 DEF IdleFlush
  <2> QED BY <1>6, <1>10, <2>1, <2>2
<1>11. ASSUME NEW s \in Subs, InputEnded(s) \/ ProcessorCancelled(s) PROVE Drained'
  <2>1. /\ pc[s] \in {"recv", "emit", "flush", "drain"}
        /\ UNCHANGED <<cancelled, routerVars, wchan, heap>>
        /\ \A t \in Subs \ {s} : pc'[t] = pc[t]
        /\ \/ pc'[s] = "drain" /\ wclosed /\ wchan[s] = <<>>
           \/ pc'[s] = "done" /\ cancelled
    BY <1>0, <1>11 DEF InputEnded, ProcessorCancelled, procVars
  <2> QED BY <1>6, <1>11, <2>1 DEF ProcessorStep
<1> QED
  BY <1>1, <1>2, <1>3, <1>4, <1>5, <1>7, <1>8, <1>9, <1>10, <1>11
     DEF Next, RouterStep, ProcessorStep

(* A Processor receives in the order of arrival and notes how much of out  *)
(* is there; what leaves later stands behind that.                         *)
LEMMA AtAfterStep == PlaceInv /\ AtAfter /\ [Next]_vars => AtAfter'
<1> SUFFICES ASSUME PlaceInv, AtAfter, [Next]_vars PROVE AtAfter'
  OBVIOUS
<1> USE DEF PlaceInv
<1>0. out \in Seq(Items) /\ Len(out) \in Nat /\ DOMAIN out = 1..Len(out)
  BY DEF Types, ProcTypes
<1>1. ASSUME out' = out, \A t \in Subs : Received(t)' = Received(t) PROVE AtAfter'
  BY <1>1 DEF AtAfter
<1>2. ASSUME NEW s \in Subs, Receive(s) PROVE AtAfter'
  <2>1. PICK item \in Items :
          /\ wchan[s] # <<>> /\ wchan' = [wchan EXCEPT ![s] = Tail(@)]
          /\ heap' = [heap EXCEPT ![s] = @ \cup {item}]
          /\ item.id = wchan[s][1].id /\ item.at = Len(out)
          /\ \A e \in Received(s) : e.id < item.id
          /\ out' = out
    BY <1>2, Enqueued
  <2>2. /\ \A t \in Subs \ {s} : Received(t)' = Received(t)
        /\ Received(s)' = Received(s) \cup {item}
    BY <2>1, TakenIn
  <2>3. \A i \in DOMAIN out : out[i].sub = s => out[i].id < item.id
    BY <2>1 DEF Received
  <2> QED BY <1>0, <2>1, <2>2, <2>3 DEF AtAfter
<1>3. ASSUME NEW s \in Subs, NEW r \in heap[s], Sends(s, r) PROVE AtAfter'
  <2>1. /\ r \in Items /\ out' = Append(out, r)
        /\ \A t \in Subs : Received(t)' = Received(t)
    BY <1>3, SentOut
  <2>2. /\ Len(out') = Len(out) + 1 /\ \A i \in DOMAIN out : out'[i] = out[i]
        /\ \A i \in DOMAIN out' : i \in DOMAIN out \/ i = Len(out) + 1
    BY <1>0, <2>1, SentOn
  <2>3. ASSUME NEW t \in Subs, NEW e \in Received(t)
        PROVE  /\ e.at <= Len(out')
               /\ \A i \in DOMAIN out' : (out'[i].sub = t /\ i <= e.at) => out'[i].id < e.id
    <3>1. e.at <= Len(out) /\ e.at \in Nat
      BY IdsAre DEF AtAfter, Items
    <3>2. \A i \in DOMAIN out' : i <= e.at => i \in DOMAIN out
      BY <1>0, <2>2, <3>1
    <3> QED BY <1>0, <2>2, <3>1, <3>2 DEF AtAfter
  <2> QED BY <2>1, <2>3 DEF AtAfter
<1>4. ASSUME NEW ev \in Feed, RouterReceive(ev) PROVE UNCHANGED <<heap, out>>
  BY <1>4 DEF RouterReceive, procVars
<1>5. ASSUME RouterSend \/ RouterStop \/ Quiet PROVE UNCHANGED <<heap, out>>
  BY <1>5 DEF RouterSend, RouterStop, Quiet, procVars
<1>6. ASSUME UNCHANGED <<heap, out>> PROVE out' = out /\ \A t \in Subs : Received(t)' = Received(t)
  BY <1>6 DEF Received
<1> QED BY <1>1, <1>2, <1>3, <1>4, <1>5, <1>6, StepKinds

(* The bound on arrivals bounds what can be sent: ids are not repeated.    *)
OutFits == Len(out) <= MaxEvents

(* No more events leave than may arrive.                                   *)
LEMMA OutBounded == PlaceInv => OutFits
<1> SUFFICES ASSUME PlaceInv PROVE Len(out) <= MaxEvents
  BY DEF OutFits
<1> DEFINE n == Len(out)
           idOf == [i \in 1..n |-> out[i].id]
<1>1. /\ n \in Nat /\ DOMAIN out = 1..n /\ MaxEvents \in Nat /\ arrived \in 0..MaxEvents
  BY WatermarkBounds DEF PlaceInv, Types, RouterTypes, ProcTypes
<1>2. \A i \in 1..n : out[i].id \in 1..MaxEvents
  <2>1. \A i \in 1..n : out[i].id \in Ids(out[i].sub) /\ out[i].sub \in Subs
    BY <1>1, SentOnce, IdsAre DEF PlaceInv
  <2>2. \A i \in 1..n : out[i].id \in 1..arrived
    BY <2>1 DEF PlaceInv, IdsNumbered
  <2> QED BY <1>1, <2>2
<1>3. idOf \in [1..n -> 1..MaxEvents]
  BY <1>2
<1>4. \A i, j \in 1..n : i # j => idOf[i] # idOf[j]
  BY <1>1, SentOnce
<1>5. IsFiniteSet(1..n) /\ IsFiniteSet(1..MaxEvents)
      /\ Cardinality(1..n) = n /\ Cardinality(1..MaxEvents) = MaxEvents
  <2>1. \A k \in Nat : IsFiniteSet(1..k) /\ Cardinality(1..k) = k
    <3> SUFFICES ASSUME NEW k \in Nat PROVE IsFiniteSet(1..k) /\ Cardinality(1..k) = k
      OBVIOUS
    <3>1. IsFiniteSet(1..k) /\ Cardinality(1..k) = IF 1 > k THEN 0 ELSE k - 1 + 1
      BY FS_Interval
    <3> QED BY <3>1
  <2> HIDE DEF n
  <2> QED BY <1>1, <2>1
<1> HIDE DEF n, idOf
<1>6. ~(MaxEvents < n)
  BY <1>3, <1>4, <1>5, FS_PigeonHole
<1> QED BY <1>1, <1>6 DEF n

-----------------------------------------------------------------------------
(* The engine's own assumptions are met.                                   *)
LEMMA EngineBounded == CheckerBounds => EngineProofs!EngineBounds
BY WatermarkBounds, CheckerBounds DEF EngineProofs!IsFiniteSet, IsFiniteSet

(* The engine's input: what is in out and not taken.                       *)
LEMMA ChannelIs ==
    ASSUME NEW q \in Seq(Items), NEW n \in Nat, n <= Len(q)
    PROVE  LET Ch(o) == [i \in 1..(Len(o) - n) |->
                            [id |-> n + i, sub |-> o[n + i].sub, end |-> o[n + i].end]]
           IN  /\ Len(Ch(q)) = Len(q) - n
               /\ n = Len(q) => Ch(q) = <<>>
               /\ Ch(q) # <<>> => /\ n + 1 \in DOMAIN q
                                  /\ Head(Ch(q)) = [id |-> n + 1, sub |-> q[n + 1].sub,
                                                    end |-> q[n + 1].end]
               /\ Ch(q) = <<>> => n = Len(q)
               /\ \A r \in Items :
                    Ch(Append(q, r)) =
                        Append(Ch(q), [id |-> Len(q) + 1, sub |-> r.sub, end |-> r.end])
<1> DEFINE Ev(o, i) == [id |-> n + i, sub |-> o[n + i].sub, end |-> o[n + i].end]
           Ch(o) == [i \in 1..(Len(o) - n) |-> Ev(o, i)]
           m == Len(q) - n
<1>1. n \in Nat /\ Len(q) \in Nat /\ m \in Nat /\ n <= Len(q) /\ DOMAIN q = 1..Len(q)
  OBVIOUS
<1>2. Ch(q) \in Seq({Ev(q, i) : i \in 1..m}) /\ Len(Ch(q)) = m
  <2>1. Ch(q) \in [1..m -> {Ev(q, i) : i \in 1..m}]
    OBVIOUS
  <2> HIDE DEF Ev, m
  <2> QED BY <1>1, <2>1
<1>3. ASSUME n = Len(q) PROVE Ch(q) = <<>>
  <2>1. m = 0
    BY <1>1, <1>3
  <2> HIDE DEF m
  <2> QED BY <1>2, <2>1
<1>4. ASSUME Ch(q) # <<>> PROVE n + 1 \in DOMAIN q /\ Head(Ch(q)) = Ev(q, 1)
  <2>1. n # Len(q)
    BY <1>3, <1>4
  <2>2. n < Len(q)
    <3> HIDE DEF m
    <3>1. PICK l \in Nat : l = Len(q)
      BY <1>1
    <3>2. n <= l /\ n # l
      BY <1>1, <2>1, <3>1
    <3>3. n < l
      BY <3>2
    <3> QED BY <3>1, <3>3
  <2>4. 1 \in 1..m /\ n + 1 \in DOMAIN q
    BY <1>1, <2>2
  <2>3. Head(Ch(q)) = Ch(q)[1]
    <3> HIDE DEF Ch
    <3> QED BY <1>2, <1>4
  <2> QED BY <2>3, <2>4
<1>5. ASSUME Ch(q) = <<>> PROVE n = Len(q)
  <2> HIDE DEF Ch
  <2>1. Len(Ch(q)) = 0
    BY <1>5
  <2>2. Len(q) - n = 0
    BY <1>2, <2>1
  <2>3. PICK l \in Nat : l = Len(q)
    BY <1>1
  <2>4. l - n = 0
    BY <2>2, <2>3
  <2>5. l = n
    BY <2>4
  <2> QED BY <2>3, <2>5
<1>6. ASSUME NEW r \in Items
      PROVE  Ch(Append(q, r)) = Append(Ch(q), [id |-> Len(q) + 1, sub |-> r.sub, end |-> r.end])
  <2> DEFINE e == [id |-> Len(q) + 1, sub |-> r.sub, end |-> r.end]
  <2>1. /\ Len(Append(q, r)) - n = m + 1
        /\ \A i \in 1..m : Append(q, r)[n + i] = q[n + i]
        /\ Append(q, r)[n + (m + 1)] = r
    BY <1>1
  <2>2. /\ Ch(Append(q, r)) = [i \in 1..(m + 1) |-> Ev(Append(q, r), i)]
        /\ \A i \in 1..m : Ev(Append(q, r), i) = Ev(q, i)
        /\ Ev(Append(q, r), m + 1) = e
    BY <1>1, <2>1
  <2>3. \A i \in 1..(m + 1) : i \in 1..m \/ i = m + 1
    BY <1>1
  <2> HIDE DEF Ev, m, e
  <2>4. PICK S : S = {Ev(q, i) : i \in 1..m} \cup {e}
    OBVIOUS
  <2>5. Ch(q) \in Seq(S) /\ e \in S
    BY <1>1, <2>4 DEF m
  <2>6. /\ Append(Ch(q), e) \in Seq(S) /\ Len(Append(Ch(q), e)) = m + 1
        /\ \A i \in 1..m : Append(Ch(q), e)[i] = Ch(q)[i]
        /\ Append(Ch(q), e)[m + 1] = e
    BY <1>1, <1>2, <2>5
  <2>7. Append(Ch(q), e) = [i \in 1..(m + 1) |-> Append(Ch(q), e)[i]]
    BY <2>6
  <2>8. \A i \in 1..(m + 1) : Append(Ch(q), e)[i] = Ev(Append(q, r), i)
    BY <2>2, <2>3, <2>6
  <2> QED BY <2>2, <2>7, <2>8 DEF e
<1> QED BY <1>2, <1>3, <1>4, <1>5, <1>6

(* The channel orderedEvents is what was sent and not yet taken, in order, *)
(* and a send appends to it.                                               *)
LEMMA OrderedEventsAre ==
    ASSUME out \in Seq(Items), taken \in 0..Len(out)
    PROVE  /\ Len(OrderedEvents) = Len(out) - taken
           /\ taken = Len(out) <=> OrderedEvents = <<>>
           /\ OrderedEvents # <<>> =>
                /\ taken + 1 \in DOMAIN out
                /\ Head(OrderedEvents) = [id |-> taken + 1, sub |-> out[taken + 1].sub,
                                          end |-> out[taken + 1].end]
           /\ \A r \in Items : out' = Append(out, r) /\ taken' = taken =>
                OrderedEvents' = Append(OrderedEvents, [id |-> Len(out) + 1, sub |-> r.sub,
                                                        end |-> r.end])
<1> DEFINE Ch(o) == [i \in 1..(Len(o) - taken) |->
                        [id |-> taken + i, sub |-> o[taken + i].sub, end |-> o[taken + i].end]]
<1>1. taken \in Nat /\ taken <= Len(out)
  OBVIOUS
<1>2. /\ Len(Ch(out)) = Len(out) - taken
      /\ taken = Len(out) => Ch(out) = <<>>
      /\ Ch(out) # <<>> => /\ taken + 1 \in DOMAIN out
                           /\ Head(Ch(out)) = [id |-> taken + 1, sub |-> out[taken + 1].sub,
                                               end |-> out[taken + 1].end]
      /\ Ch(out) = <<>> => taken = Len(out)
      /\ \A r \in Items : Ch(Append(out, r)) =
                              Append(Ch(out), [id |-> Len(out) + 1, sub |-> r.sub, end |-> r.end])
  BY <1>1, ChannelIs
<1>3. OrderedEvents = Ch(out)
  BY DEF OrderedEvents
<1>4. ASSUME NEW r \in Items, out' = Append(out, r), taken' = taken
      PROVE  OrderedEvents' = Ch(Append(out, r))
  BY <1>4 DEF OrderedEvents
<1> HIDE DEF Ch
<1> QED BY <1>2, <1>3, <1>4

(* The engine starts as its own specification says.                        *)
LEMMA EngineInit == CheckerInit => EngineProofs!Init
<1> SUFFICES ASSUME CheckerInit PROVE EngineProofs!Init
  OBVIOUS
<1>1. out = <<>> /\ taken = 0 /\ outClosed = FALSE /\ cancelled = FALSE /\ Engine!Init
  BY DEF CheckerInit, Init
<1>2. OrderedEvents = <<>>
  BY <1>1, OrderedEventsAre
<1> QED BY <1>1, <1>2 DEF Engine!Init, EngineProofs!Init

(* The steps the composition gives the engine.                             *)
LEMMA OwnSteps ==
    /\ Engine!RunIgnore \/ Engine!RunBuffer \/ Engine!RunDispatch => EngineProofs!RunStep
    /\ (\/ Engine!RunInputEnded \/ Engine!FlushDone \/ Engine!RunCancelled \/ Engine!RunFinish
        \/ \E s \in Subs : Engine!FlushOne(s) \/ Engine!FlushCancelled(s))
            => EngineProofs!RunStep
    /\ \A s \in Subs : Engine!WorkerStep(s) => EngineProofs!WorkerStep(s)
    /\ Engine!Downstream => EngineProofs!Environment
<1>1. Engine!RunIgnore \/ Engine!RunBuffer \/ Engine!RunDispatch => EngineProofs!RunStep
  BY DEF Engine!RunIgnore, Engine!RunBuffer, Engine!RunDispatch, Engine!Accepts,
         Engine!CanDispatch, Engine!TakeEvents, EngineProofs!RunIgnore,
         EngineProofs!RunBuffer, EngineProofs!RunDispatch, EngineProofs!Accepts,
         EngineProofs!CanDispatch, EngineProofs!TakeEvents, EngineProofs!RunStep
<1>2. (\/ Engine!RunInputEnded \/ Engine!FlushDone \/ Engine!RunCancelled \/ Engine!RunFinish
       \/ \E s \in Subs : Engine!FlushOne(s) \/ Engine!FlushCancelled(s))
          => EngineProofs!RunStep
  BY DEF Engine!RunInputEnded, Engine!FlushDone, Engine!RunCancelled, Engine!RunFinish,
         Engine!WorkersDone, Engine!FlushOne, Engine!FlushCancelled, Engine!TakeEvents,
         Engine!UpdatesHaveRoom, EngineProofs!RunInputEnded, EngineProofs!FlushDone,
         EngineProofs!RunCancelled, EngineProofs!RunFinish, EngineProofs!WorkersDone,
         EngineProofs!FlushOne, EngineProofs!FlushCancelled, EngineProofs!TakeEvents,
         EngineProofs!UpdatesHaveRoom, EngineProofs!RunStep
<1>3. \A s \in Subs : Engine!WorkerStep(s) => EngineProofs!WorkerStep(s)
  BY DEF Engine!WorkerStep, Engine!Acquire, Engine!SendVerdict, Engine!WorkerCancelled,
         Engine!Release, Engine!UpdatesHaveRoom, EngineProofs!WorkerStep,
         EngineProofs!Acquire, EngineProofs!SendVerdict, EngineProofs!WorkerCancelled,
         EngineProofs!Release, EngineProofs!UpdatesHaveRoom
<1>4. Engine!Downstream => EngineProofs!Environment
  BY DEF Engine!Downstream, EngineProofs!Downstream, EngineProofs!Environment
<1> QED BY <1>1, <1>2, <1>3, <1>4

(* The composition's steps are steps of the engine with its environment,   *)
(* or leave it alone: what a Processor sends is offered to the engine, and *)
(* the Router closes its input when nothing can be sent any more.          *)
LEMMA EngineStep ==
    PlaceInv /\ Drained /\ [CheckerNext]_checkerVars =>
        [EngineProofs!Next]_(EngineProofs!vars)
<1> SUFFICES ASSUME PlaceInv, Drained, [CheckerNext]_checkerVars
             PROVE  EngineProofs!Next \/ UNCHANGED EngineProofs!vars
  OBVIOUS
<1>0. Types /\ ProcTypes /\ out \in Seq(Items) /\ taken \in 0..Len(out) /\ Len(out) - taken <= OutCap
  BY DEF PlaceInv, Types, ProcTypes
<1>1. PlaceInv' /\ Len(out') <= MaxEvents
  <2>1. PlaceInv'
    BY ReorderingStep, PlaceStep
  <2>2. PlaceInv' => OutFits'
    BY OutBounded, PTL
  <2> QED BY <2>1, <2>2 DEF OutFits
<1>2. CASE EngineReceives
  BY <1>2, OwnSteps DEF EngineReceives, EngineProofs!Next
<1>3. CASE EngineRuns
  BY <1>3, OwnSteps DEF EngineRuns, EngineProofs!Next
<1>4. ASSUME NEW s \in Subs, WorkerRuns(s) PROVE EngineProofs!Next
  BY <1>4, OwnSteps DEF WorkerRuns, EngineProofs!Next
<1>5. CASE AggregatorReceives
  BY <1>5, OwnSteps DEF AggregatorReceives, EngineProofs!Next
<1>6. ASSUME UNCHANGED <<cancelled, outClosed, out, taken, engineVars>>
      PROVE  UNCHANGED EngineProofs!vars
  BY <1>6 DEF engineVars, EngineProofs!vars, OrderedEvents
<1>7. ASSUME NEW s \in Subs, PopAndSend(s), heap[s] # {}, pc[s] \in {"emit", "flush", "drain"},
             UNCHANGED <<cancelled, routerVars, taken, engineVars>>
      PROVE  EngineProofs!Next
  <2>1. Root(s) \in Items /\ Root(s).sub \in Subs /\ Root(s).end \in BOOLEAN
    <3>1. Root(s) \in heap[s]
      BY <1>0, <1>7, RootIsLeast DEF PlaceInv, ProcTypes, Fifo, Received
    <3>2. Root(s) \in Items
      BY <1>0, <3>1 DEF ProcTypes
    <3> QED BY <3>2 DEF Items
  <2>2. PICK r \in Items : r = Root(s)
    BY <2>1
  <2>3. out' = Append(out, r) /\ Len(out) - taken < OutCap /\ taken' = taken
    BY <1>7, <2>2 DEF PopAndSend, OutHasRoom
  <2>4. Len(out') = Len(out) + 1 /\ Len(out) \in Nat /\ MaxEvents \in Nat
    BY <1>0, <2>3, WatermarkBounds
  <2>5. /\ OrderedEvents' = Append(OrderedEvents, [id |-> Len(out'), sub |-> r.sub, end |-> r.end])
        /\ Len(OrderedEvents) < OutCap
    BY <1>0, <2>3, <2>4, OrderedEventsAre
  <2>6. Len(out) < MaxEvents
    BY <1>1, <2>4
  <2>7. ~outClosed /\ outClosed' = outClosed
    BY <1>7 DEF Drained, routerVars
  <2>8. EngineProofs!Offer(r.sub, r.end)
    BY <1>7, <2>4, <2>5, <2>6, <2>7 DEF EngineProofs!Offer, engineVars
  <2> QED BY <2>1, <2>2, <2>8 DEF EngineProofs!Next, EngineProofs!Environment
<1>8. ASSUME NEW s \in Subs, Upstream(ProcessorStep(s))
      PROVE  EngineProofs!Next \/ UNCHANGED EngineProofs!vars
  <2>1. CASE EmitReady(s)
    BY <1>6, <1>7, <1>8, <2>1 DEF Upstream, EmitReady, Ready, routerVars
  <2>2. CASE Flush(s)
    BY <1>6, <1>7, <1>8, <2>2 DEF Upstream, Flush, routerVars
  <2>3. CASE Receive(s) \/ InputEnded(s) \/ ProcessorCancelled(s)
    BY <1>6, <1>8, <2>3 DEF Upstream, Receive, InputEnded, ProcessorCancelled, routerVars
  <2> QED BY <1>8, <2>1, <2>2, <2>3 DEF Upstream, ProcessorStep
<1>9. ASSUME \/ \E s \in Subs : Upstream(IdleFlush(s))
             \/ \E ev \in Feed : Upstream(RouterReceive(ev))
             \/ Upstream(RouterStop) \/ Upstream(RouterSend)
      PROVE  UNCHANGED EngineProofs!vars
  BY <1>6, <1>9 DEF Upstream, IdleFlush, RouterReceive, RouterStop, RouterSend, routerVars
<1>10. CASE Upstream(RouterFinish)
  <2>1. ~outClosed /\ outClosed' /\ UNCHANGED <<cancelled, out, taken, engineVars>>
    BY <1>10 DEF Upstream, RouterFinish, Drained
  <2>2. outClosed' = TRUE
    BY <1>10 DEF Upstream, RouterFinish
  <2>3. EngineProofs!CloseIn
    BY <2>1, <2>2 DEF EngineProofs!CloseIn, engineVars, OrderedEvents
  <2> QED BY <2>3 DEF EngineProofs!Next, EngineProofs!Environment
<1>11. CASE Upstream(CancelService)
  <2>1. EngineProofs!CancelService
    BY <1>11 DEF Upstream, CancelService, EngineProofs!CancelService, engineVars, routerVars,
                 OrderedEvents
  <2> QED BY <2>1 DEF EngineProofs!Next, EngineProofs!Environment
<1>12. CASE UNCHANGED checkerVars
  BY <1>6, <1>12 DEF checkerVars, vars, routerVars
<1> QED
  BY <1>2, <1>3, <1>4, <1>5, <1>8, <1>9, <1>10, <1>11, <1>12
     DEF CheckerNext, Upstream, RouterStep

-----------------------------------------------------------------------------
(* The steps of the consumer, the Router and the Processors, for the       *)
(* engine: out grows by at most one event, and not once it is closed.      *)
LEMMA UpstreamStep ==
    ASSUME PlaceInv, Drained,
           \/ \E s \in Subs : Upstream(ProcessorStep(s)) \/ Upstream(IdleFlush(s))
           \/ \E ev \in Feed : Upstream(RouterReceive(ev))
           \/ Upstream(RouterStop) \/ Upstream(RouterStep) \/ Upstream(CancelService)
    PROVE  /\ UNCHANGED <<engineVars, taken>>
           /\ cancelled => cancelled'
           /\ outClosed => outClosed'
           /\ out' = out \/ (~outClosed /\ \E r \in Items : out' = Append(out, r))
<1> DEFINE Goal == /\ taken' = taken
                   /\ cancelled => cancelled'
                   /\ outClosed => outClosed'
                   /\ out' = out \/ (~outClosed /\ \E r \in Items : out' = Append(out, r))
<1>1. UNCHANGED engineVars
  BY DEF Upstream
<1>2. ASSUME NEW s \in Subs, PopAndSend(s), heap[s] # {}, pc[s] \in {"emit", "flush", "drain"},
             UNCHANGED <<cancelled, routerVars, taken>>
      PROVE  Goal
  <2>1. Root(s) \in heap[s] /\ heap[s] \in SUBSET Items
    BY <1>2, RootIsLeast DEF PlaceInv, Types, ProcTypes, Fifo, Received
  <2>2. Root(s) \in Items /\ out' = Append(out, Root(s))
    BY <1>2, <2>1 DEF PopAndSend
  <2>3. ~outClosed /\ UNCHANGED <<cancelled, outClosed, taken>>
    BY <1>2 DEF Drained, routerVars
  <2> QED BY <2>2, <2>3
<1>3. ASSUME NEW s \in Subs, EmitReady(s) PROVE Goal
  BY <1>2, <1>3 DEF EmitReady, Ready, routerVars
<1>4. ASSUME NEW s \in Subs, Flush(s) PROVE Goal
  BY <1>2, <1>4 DEF Flush, routerVars
<1>5. ASSUME NEW s \in Subs,
             Receive(s) \/ InputEnded(s) \/ ProcessorCancelled(s) \/ IdleFlush(s)
      PROVE  Goal
  BY <1>5 DEF Receive, InputEnded, ProcessorCancelled, IdleFlush, routerVars
<1>6. ASSUME \/ \E ev \in Feed : RouterReceive(ev)
             \/ RouterStop \/ RouterStep \/ CancelService
      PROVE  Goal
  BY <1>6 DEF RouterReceive, RouterStop, RouterStep, RouterSend, RouterFinish,
              CancelService, routerVars
<1> HIDE DEF Goal
<1>7. Goal
  BY <1>3, <1>4, <1>5, <1>6 DEF Upstream, ProcessorStep
<1> QED BY <1>1, <1>7 DEF Goal

(* What the engine's own steps leave alone.                                *)
LEMMA EngineLeaves ==
    ASSUME EngineRuns \/ AggregatorReceives \/ \E s \in Subs : WorkerRuns(s)
    PROVE  UNCHANGED <<seen, taken, out, cancelled, outClosed>>
<1>1. UNCHANGED <<taken, out, cancelled, outClosed>>
  BY DEF EngineRuns, AggregatorReceives, WorkerRuns, vars, routerVars
<1>2. seen' = seen
  BY DEF EngineRuns, AggregatorReceives, WorkerRuns, Engine!RunInputEnded, Engine!FlushDone,
         Engine!RunCancelled, Engine!RunFinish, Engine!FlushOne, Engine!FlushCancelled,
         Engine!Downstream, Engine!WorkerStep, Engine!Acquire, Engine!SendVerdict,
         Engine!WorkerCancelled
<1> QED BY <1>1, <1>2

(* The engine sees each event as it takes it, and no other.                *)
LEMMA SeenStep ==
    PlaceInv /\ Drained /\ EngineProofs!TypeOK /\ SeenIsTaken /\ [CheckerNext]_checkerVars
        => SeenIsTaken'
<1> SUFFICES ASSUME PlaceInv, Drained, EngineProofs!TypeOK, SeenIsTaken,
                    [CheckerNext]_checkerVars
             PROVE  SeenIsTaken'
  OBVIOUS
<1>0. /\ out \in Seq(Items) /\ taken \in 0..Len(out) /\ Len(out) \in Nat /\ taken \in Nat
      /\ DOMAIN out = 1..Len(out)
      /\ seen \in [Subs -> Seq(EngineProofs!Events)]
  BY DEF PlaceInv, Types, ProcTypes, EngineProofs!TypeOK
<1>1. ASSUME seen' = seen, taken' = taken, \A i \in DOMAIN out : out'[i] = out[i]
      PROVE  SeenIsTaken'
  <2>1. 1..taken \subseteq DOMAIN out
    BY <1>0
  <2> QED BY <1>1, <2>1 DEF SeenIsTaken
<1>2. CASE EngineReceives
  <2> DEFINE h == Head(OrderedEvents)
             n == taken + 1
  <2>1. /\ taken' = n /\ out' = out /\ OrderedEvents # <<>>
        /\ seen' = [seen EXCEPT ![h.sub] = Append(@, h)]
    BY <1>2 DEF EngineReceives, Downstream, Engine!RunIgnore, Engine!RunBuffer,
                Engine!RunDispatch
  <2>2. /\ n \in DOMAIN out /\ h = [id |-> n, sub |-> out[n].sub, end |-> out[n].end]
        /\ out[n].sub \in Subs
    BY <1>0, <2>1, OrderedEventsAre, SentOnce
  <2>3. h.id = n /\ h.sub = out[n].sub /\ h.end = out[n].end /\ n \in Nat /\ taken < n
    BY <1>0, <2>2
  <2> HIDE DEF h, n
  <2>4. h \in EngineProofs!Events
    <3>1. n \in 1..MaxEvents
      BY <1>0, <2>2, OutBounded, WatermarkBounds DEF OutFits
    <3>2. out[n].end \in BOOLEAN
      BY <2>2, SentOnce DEF Items
    <3> QED BY <2>2, <3>1, <3>2 DEF EngineProofs!Events
  <2>5. /\ seen'[h.sub] = Append(seen[h.sub], h)
        /\ \A t \in Subs \ {h.sub} : seen'[t] = seen[t]
    BY <1>0, <2>1, <2>2, <2>3
  <2>6. ASSUME NEW s \in Subs
        PROVE  /\ \A k \in DOMAIN seen'[s] :
                    /\ seen'[s][k].id \in 1..n
                    /\ out[seen'[s][k].id].sub = s
                    /\ out[seen'[s][k].id].end = seen'[s][k].end
               /\ \A k, l \in DOMAIN seen'[s] : k < l => seen'[s][k].id < seen'[s][l].id
               /\ \A i \in 1..n : out[i].sub = s => \E k \in DOMAIN seen'[s] : seen'[s][k].id = i
    <3>1. \A i \in 1..n : i \in 1..taken \/ i = n
      BY <1>0 DEF n
    <3>2. 1..taken \subseteq 1..n /\ n \in 1..n
      BY <1>0 DEF n
    <3>3. /\ \A k \in DOMAIN seen[s] :
               /\ seen[s][k].id \in 1..taken
               /\ out[seen[s][k].id].sub = s /\ out[seen[s][k].id].end = seen[s][k].end
          /\ \A k, l \in DOMAIN seen[s] : k < l => seen[s][k].id < seen[s][l].id
          /\ \A i \in 1..taken : out[i].sub = s => \E k \in DOMAIN seen[s] : seen[s][k].id = i
      BY DEF SeenIsTaken
    <3>4. CASE s # h.sub
      BY <2>3, <2>5, <3>1, <3>2, <3>3, <3>4
    <3>5. CASE s = h.sub
      <4>1. PICK q \in Seq(EngineProofs!Events) : q = seen[s] /\ seen'[s] = Append(q, h)
        BY <1>0, <2>2, <2>3, <2>5, <3>5
      <4>2. /\ Len(q) \in Nat /\ DOMAIN q = 1..Len(q)
            /\ DOMAIN Append(q, h) = 1..(Len(q) + 1)
            /\ \A k \in DOMAIN q : Append(q, h)[k] = q[k]
            /\ Append(q, h)[Len(q) + 1] = h
        BY <2>4
      <4>3. \A k \in DOMAIN Append(q, h) : k \in DOMAIN q \/ k = Len(q) + 1
        BY <4>2
      <4>4. \A k \in DOMAIN q : q[k].id \in Nat /\ q[k].id < n
        BY <1>0, <2>3, <3>3, <4>1
      <4>5. \A k \in DOMAIN Append(q, h) :
              /\ Append(q, h)[k].id \in 1..n
              /\ out[Append(q, h)[k].id].sub = s
              /\ out[Append(q, h)[k].id].end = Append(q, h)[k].end
        BY <2>3, <3>2, <3>3, <3>5, <4>1, <4>2, <4>3
      <4>6. \A k, l \in DOMAIN Append(q, h) :
              k < l => Append(q, h)[k].id < Append(q, h)[l].id
        BY <2>3, <3>3, <4>1, <4>2, <4>3, <4>4
      <4>7. \A i \in 1..n : out[i].sub = s =>
              \E k \in DOMAIN Append(q, h) : Append(q, h)[k].id = i
        <5>1. DOMAIN q \subseteq DOMAIN Append(q, h) /\ Len(q) + 1 \in DOMAIN Append(q, h)
          BY <4>2
        <5> QED BY <2>3, <3>1, <3>3, <4>1, <4>2, <5>1
      <4> QED BY <4>1, <4>5, <4>6, <4>7
    <3> QED BY <3>4, <3>5
  <2> QED BY <2>1, <2>6 DEF SeenIsTaken
<1>3. CASE EngineRuns \/ AggregatorReceives \/ \E s \in Subs : WorkerRuns(s)
  BY <1>1, <1>3, EngineLeaves
<1>4. CASE UNCHANGED checkerVars
  BY <1>1, <1>4 DEF checkerVars, vars, engineVars
<1>5. ASSUME UNCHANGED <<engineVars, taken>>,
             out' = out \/ \E r \in Items : out' = Append(out, r)
      PROVE  SeenIsTaken'
  <2>1. \A i \in DOMAIN out : out'[i] = out[i]
    BY <1>0, <1>5, SentOn
  <2> QED BY <1>1, <1>5, <2>1 DEF engineVars
<1> QED
  BY <1>2, <1>3, <1>4, <1>5, UpstreamStep DEF CheckerNext

(* Run stops receiving at the end of its input or on cancellation.         *)
LEMMA LoopStep ==
    PlaceInv /\ Drained /\ LoopEnds /\ [CheckerNext]_checkerVars => LoopEnds'
<1> SUFFICES ASSUME PlaceInv, Drained, LoopEnds, [CheckerNext]_checkerVars PROVE LoopEnds'
  OBVIOUS
<1>0. out \in Seq(Items) /\ taken \in 0..Len(out)
  BY DEF PlaceInv, Types, ProcTypes
<1>1. ASSUME run' = run \/ run # "loop", UNCHANGED <<taken, out, cancelled, outClosed>>
      PROVE  LoopEnds'
  BY <1>1 DEF LoopEnds
<1>2. CASE EngineReceives
  BY <1>2 DEF EngineReceives, Engine!RunIgnore, Engine!RunBuffer, Engine!RunDispatch, LoopEnds
<1>3. CASE AggregatorReceives \/ \E s \in Subs : WorkerRuns(s)
  <2>1. run' = run
    BY <1>3 DEF AggregatorReceives, WorkerRuns, Engine!Downstream, Engine!WorkerStep,
                Engine!Acquire, Engine!SendVerdict, Engine!WorkerCancelled
  <2> QED BY <1>1, <1>3, <2>1, EngineLeaves
<1>4. CASE EngineRuns
  <2>1. UNCHANGED <<taken, out, cancelled, outClosed>>
    BY <1>4, EngineLeaves
  <2>2. CASE Engine!RunInputEnded
    <3>1. outClosed /\ taken = Len(out)
      BY <1>0, <2>2, OrderedEventsAre DEF Engine!RunInputEnded
    <3> QED BY <2>1, <3>1 DEF LoopEnds
  <2>3. CASE Engine!RunCancelled
    BY <2>1, <2>3 DEF Engine!RunCancelled, LoopEnds
  <2>4. CASE \/ Engine!FlushDone \/ Engine!RunFinish
             \/ \E s \in Subs : Engine!FlushOne(s) \/ Engine!FlushCancelled(s)
    <3>1. run # "loop"
      BY <2>4 DEF Engine!FlushDone, Engine!RunFinish, Engine!FlushOne, Engine!FlushCancelled
    <3> QED BY <1>1, <2>1, <3>1
  <2> QED BY <1>4, <2>2, <2>3, <2>4 DEF EngineRuns
<1>5. CASE UNCHANGED checkerVars
  BY <1>1, <1>5 DEF checkerVars, vars, engineVars, routerVars
<1>6. ASSUME UNCHANGED <<engineVars, taken>>, cancelled => cancelled',
             outClosed => outClosed' /\ out' = out
      PROVE  LoopEnds'
  BY <1>6 DEF LoopEnds, engineVars
<1> QED
  BY <1>2, <1>3, <1>4, <1>5, <1>6, UpstreamStep DEF CheckerNext

-----------------------------------------------------------------------------
(* An event that came in before a marker, with an earlier event time, left *)
(* the Processor before the marker did.                                    *)
LEMMA DueLeftFirst ==
    ASSUME OrderInv, AtAfter, NEW n \in DOMAIN out, NEW e \in Known(out[n].sub),
           e.id < out[n].id, Less(e, out[n])
    PROVE  \E j \in DOMAIN out : j < n /\ out[j] = e
<1> DEFINE m == out[n]
           s == out[n].sub
<1>0. PlaceInv /\ Types /\ Fifo /\ IdsNumbered
  BY DEF OrderInv, PlaceInv
<1>1. m \in Received(s) /\ s \in Subs /\ m \in Items /\ m.sub = s
  BY <1>0, SentOnce
<1>2. m.id \in Ids(s) /\ m.id \in Nat /\ m.id \in 1..arrived /\ arrived \in Nat
  BY <1>0, <1>1, IdsAre, WatermarkBounds DEF IdsNumbered, Types, RouterTypes
<1>3. DOMAIN out = 1..Len(out) /\ Len(out) \in Nat
  BY <1>0 DEF Types, ProcTypes
<1>4. e # NoEvent /\ e.sub = s
  BY DEF Known
<1>5. ASSUME e \in Received(s), \A i \in DOMAIN out : i < n => out[i] # e PROVE e.at >= n
  <2>1. CASE e \in heap[s]
    BY <1>1, <2>1 DEF OrderInv, HeapLate
  <2>2. CASE \E j \in DOMAIN out : out[j] = e
    <3>1. PICK j \in DOMAIN out : out[j] = e
      BY <2>2
    <3>2. j # n
      BY <1>2, <3>1
    <3>3. n < j
      BY <1>3, <1>5, <3>1, <3>2
    <3>4. out[j].at >= n
      BY <1>4, <3>1, <3>3 DEF OrderInv, InOrderUnlessLate
    <3> QED BY <3>1, <3>4
  <2> QED BY <1>5, <2>1, <2>2 DEF Received
<1>6. ASSUME e \in Received(s) PROVE \E j \in DOMAIN out : j < n /\ out[j] = e
  <2> SUFFICES ASSUME \A i \in DOMAIN out : i < n => out[i] # e PROVE FALSE
    OBVIOUS
  <2>1. e.at >= n /\ e.at \in Nat /\ e.id \in Nat
    BY <1>0, <1>1, <1>5, <1>6, IdsAre DEF Items
  <2>2. out[n].id < e.id
    BY <1>1, <1>3, <1>6, <2>1 DEF AtAfter
  <2> QED BY <1>2, <2>1, <2>2
<1>7. CASE e = held
  <2>1. e.id = arrived
    BY <1>0, <1>4, <1>7 DEF IdsNumbered
  <2> QED BY <1>2, <2>1
<1>8. CASE \E k \in DOMAIN wchan[s] : e = wchan[s][k]
  <2>1. PICK k \in DOMAIN wchan[s] : e = wchan[s][k]
    BY <1>8
  <2>2. m.id < e.id /\ e.id \in Nat
    BY <1>0, <1>1, <2>1, IdsAre DEF Fifo
  <2> QED BY <1>2, <2>2
<1>9. e \in {held} \cup heap[s] \cup {wchan[s][i] : i \in DOMAIN wchan[s]}
             \cup {out[i] : i \in DOMAIN out}
  BY DEF Known
<1>10. e \in Received(s) \/ e = held \/ \E k \in DOMAIN wchan[s] : e = wchan[s][k]
  BY <1>4, <1>9 DEF Received
<1> QED BY <1>6, <1>7, <1>8, <1>10

(* Once out is closed and the service is not cancelled, everything that    *)
(* was received is in out.                                                 *)
LEMMA ClosedHasAll ==
    ASSUME Types, Drained, outClosed, ~cancelled, NEW s \in Subs, NEW e \in Known(s)
    PROVE  \E j \in DOMAIN out : out[j] = e /\ out[j].sub = s
<1>1. router = "done" /\ held = NoEvent
  BY DEF Drained, Types, RouterTypes
<1>2. wchan[s] = <<>> /\ heap[s] = {}
  BY <1>1 DEF Drained
<1>3. DOMAIN wchan[s] = {}
  BY <1>2
<1>4. e \in {out[i] : i \in DOMAIN out} /\ e.sub = s
  BY <1>1, <1>2, <1>3 DEF Known
<1> QED BY <1>4

(* The inductive invariant of the grading path.                            *)
GradingInv ==
    OrderInv /\ Drained /\ AtAfter /\ EngineProofs!CustodyInv /\ SeenIsTaken /\ LoopEnds

(* The checker starts in the invariant.                                    *)
LEMMA GradingInit == CheckerInit => GradingInv
<1> SUFFICES ASSUME CheckerInit PROVE GradingInv
  OBVIOUS
<1>1. Init /\ EngineProofs!Init /\ OrderInv
  BY EngineInit, WatermarkInit DEF CheckerInit
<1>2. Drained
  BY <1>1 DEF Init, Drained
<1>3. AtAfter
  BY <1>1 DEF Init, AtAfter, Received
<1>4. EngineProofs!CustodyInv
  <2>1. EngineProofs!OwnershipInv
    BY <1>1, EngineBounded, CheckerBounds, EngineProofs!OwnershipInit
  <2>2. Len(<<>>) = 0
    OBVIOUS
  <2>3. EngineProofs!Custody
    BY <1>1, <2>2 DEF EngineProofs!Init, EngineProofs!Custody, EngineProofs!AllUnmarked
  <2>4. EngineProofs!UnmarkedOnlyAfterLoop
    BY <1>1 DEF EngineProofs!Init, EngineProofs!UnmarkedOnlyAfterLoop
  <2> QED BY <2>1, <2>3, <2>4 DEF EngineProofs!CustodyInv
<1>5. SeenIsTaken
  BY <1>1 DEF Init, EngineProofs!Init, SeenIsTaken
<1>6. LoopEnds
  BY <1>1 DEF EngineProofs!Init, LoopEnds
<1> QED BY <1>1, <1>2, <1>3, <1>4, <1>5, <1>6 DEF GradingInv

(* Every step of the checker keeps the invariant.                          *)
LEMMA GradingStep == GradingInv /\ [CheckerNext]_checkerVars => GradingInv'
<1> SUFFICES ASSUME GradingInv, [CheckerNext]_checkerVars PROVE GradingInv'
  OBVIOUS
<1>1. /\ OrderInv /\ PlaceInv /\ Types /\ Drained /\ AtAfter
      /\ EngineProofs!CustodyInv /\ EngineProofs!TypeOK /\ SeenIsTaken /\ LoopEnds
  BY DEF GradingInv, OrderInv, PlaceInv, EngineProofs!CustodyInv, EngineProofs!OwnershipInv
<1>2. OrderInv' /\ Drained' /\ AtAfter'
  BY <1>1, ReorderingStep, OrderStep, DrainedStep, AtAfterStep
<1>3. EngineProofs!CustodyInv'
  BY <1>1, EngineStep, EngineBounded, CheckerBounds, EngineProofs!CustodyStep
<1>4. SeenIsTaken' /\ LoopEnds'
  BY <1>1, SeenStep, LoopStep
<1> QED BY <1>2, <1>3, <1>4 DEF GradingInv

(* The invariant holds of the checker.                                     *)
LEMMA GradingInvariant == CheckerSpec => []GradingInv
BY GradingInit, GradingStep, PTL DEF CheckerSpec

-----------------------------------------------------------------------------
(* A verdict was made from all that was due.                               *)
LEMMA VerdictCovers == GradingInv => VerdictCoversArrivals
<1> SUFFICES ASSUME GradingInv, NEW i \in DOMAIN updates, ~cancelled,
                    NEW e \in Known(updates[i].sub),
                    LET used == {out[u.id] : u \in {updates[i].events[k] :
                                                       k \in DOMAIN updates[i].events}}
                        ends == {m \in used : m.end}
                    IN  ends = {} \/ \E m \in ends : e.id < m.id /\ Less(e, m)
             PROVE  \E k \in DOMAIN updates[i].events : out[updates[i].events[k].id].id = e.id
  BY DEF VerdictCoversArrivals
<1> DEFINE s == updates[i].sub
           ev == updates[i].events
<1>1. /\ OrderInv /\ PlaceInv /\ Types /\ Drained /\ AtAfter /\ SeenIsTaken /\ LoopEnds
      /\ EngineProofs!TypeOK /\ EngineProofs!UnmarkedOnlyAfterLoop
  BY DEF GradingInv, OrderInv, PlaceInv, EngineProofs!CustodyInv, EngineProofs!OwnershipInv
<1>2. s \in Subs /\ ev \in Seq(EngineProofs!Events) /\ seen[s] \in Seq(EngineProofs!Events)
  <2>1. updates[i] \in EngineProofs!Updates /\ seen \in [Subs -> Seq(EngineProofs!Events)]
    BY <1>1 DEF EngineProofs!TypeOK
  <2>2. s \in Subs /\ ev \in Seq(EngineProofs!Events)
    BY <2>1 DEF EngineProofs!Updates
  <2> QED BY <2>1, <2>2
<1>3. \/ EngineProofs!UpToMarker(ev, seen[s])
      \/ EngineProofs!AllUnmarked(ev, seen[s]) /\ run # "loop"
  BY <1>1 DEF EngineProofs!UnmarkedOnlyAfterLoop
<1>4. /\ \A k \in DOMAIN seen[s] :
           /\ seen[s][k].id \in 1..taken
           /\ out[seen[s][k].id].sub = s /\ out[seen[s][k].id].end = seen[s][k].end
      /\ \A k, l \in DOMAIN seen[s] : k < l => seen[s][k].id < seen[s][l].id
      /\ \A j \in 1..taken : out[j].sub = s => \E k \in DOMAIN seen[s] : seen[s][k].id = j
  BY <1>1, <1>2 DEF SeenIsTaken
<1>5. \/ \A k \in DOMAIN ev : ~out[ev[k].id].end
      \/ \E k \in DOMAIN ev : /\ out[ev[k].id].end
                              /\ e.id < out[ev[k].id].id /\ Less(e, out[ev[k].id])
  OBVIOUS
<1>6. /\ DOMAIN ev = 1..Len(ev) /\ Len(ev) \in Nat
      /\ DOMAIN seen[s] = 1..Len(seen[s]) /\ Len(seen[s]) \in Nat
      /\ DOMAIN out = 1..Len(out) /\ Len(out) \in Nat /\ taken \in 0..Len(out)
  BY <1>1, <1>2 DEF Types, ProcTypes
<1> HIDE DEF s, ev
<1>7. CASE EngineProofs!UpToMarker(ev, seen[s])
  <2>0. PICK n \in Nat : n = Len(ev)
    BY <1>6
  <2> DEFINE p == ev[n].id
  <2>1. /\ n \in 1..Len(seen[s]) /\ DOMAIN ev = 1..n
        /\ \A k \in 1..n : ev[k] = seen[s][k] /\ (ev[k].end <=> k = n)
    BY <1>6, <1>7, <2>0 DEF EngineProofs!UpToMarker
  <2>2. /\ n \in DOMAIN ev /\ n \in DOMAIN seen[s] /\ p \in 1..taken
        /\ out[p].sub = s /\ out[p].end /\ p = seen[s][n].id
    <3>1. n \in 1..n /\ n \in DOMAIN ev /\ n \in DOMAIN seen[s]
      BY <1>6, <2>1
    <3>2. ev[n] = seen[s][n] /\ ev[n].end
      BY <2>1, <3>1
    <3>3. /\ seen[s][n].id \in 1..taken
          /\ out[seen[s][n].id].sub = s /\ out[seen[s][n].id].end = seen[s][n].end
      BY <1>4, <3>1
    <3> QED BY <3>1, <3>2, <3>3
  <2>3. ASSUME NEW k \in DOMAIN ev, out[ev[k].id].end PROVE k = n
    <3>1. k \in 1..n /\ k \in DOMAIN seen[s]
      BY <1>6, <2>1
    <3>2. ev[k] = seen[s][k] /\ (ev[k].end <=> k = n)
      BY <2>1, <3>1
    <3>3. out[seen[s][k].id].end = seen[s][k].end
      BY <1>4, <3>1
    <3> QED BY <2>3, <3>2, <3>3
  <2>4. e.id < out[p].id /\ Less(e, out[p])
    BY <1>5, <2>2, <2>3
  <2>5. p \in DOMAIN out
    BY <1>6, <2>2
  <2>6. PICK j \in DOMAIN out : j < p /\ out[j] = e
    BY <1>1, <2>2, <2>4, <2>5, DueLeftFirst DEF s
  <2>7. j \in 1..taken /\ out[j].sub = s
    <3>1. e.sub = s
      BY DEF Known, s
    <3> QED BY <1>6, <2>2, <2>6, <3>1
  <2>8. PICK k \in DOMAIN seen[s] : seen[s][k].id = j
    BY <1>4, <2>7
  <2>9. k \in 1..n
    <3>1. ASSUME n < k PROVE FALSE
      <4>1. seen[s][n].id < seen[s][k].id
        BY <1>4, <2>2, <2>8, <3>1
      <4>2. p < j /\ j < p /\ p \in Nat /\ j \in Nat
        BY <1>6, <2>2, <2>6, <2>8, <4>1
      <4> QED BY <4>2
    <3>2. k \in Nat \ {0}
      BY <1>6
    <3> QED BY <3>1, <3>2
  <2>10. k \in DOMAIN ev /\ out[ev[k].id] = e
    BY <1>6, <2>1, <2>6, <2>8, <2>9
  <2> QED BY <2>10 DEF ev
<1>8. CASE EngineProofs!AllUnmarked(ev, seen[s]) /\ run # "loop"
  <2>1. outClosed /\ taken = Len(out)
    BY <1>1, <1>8 DEF LoopEnds
  <2>2. PICK j \in DOMAIN out : out[j] = e /\ out[j].sub = s
    BY <1>1, <1>2, <2>1, ClosedHasAll DEF s
  <2>3. PICK k \in DOMAIN seen[s] : seen[s][k].id = j
    BY <1>4, <1>6, <2>1, <2>2
  <2>4. k \in DOMAIN ev /\ ev[k] = seen[s][k]
    BY <1>6, <1>8 DEF EngineProofs!AllUnmarked
  <2> QED BY <2>2, <2>3, <2>4 DEF ev
<1> QED BY <1>3, <1>7, <1>8

(* No verdict misses an event: one made at the end-of-run marker covers    *)
(* every event of its submission that the checker received before the      *)
(* marker with an earlier event time, however the Router, the heap, the    *)
(* lateness, full channels and the engine's workers interleave; one made   *)
(* at the end of the input covers every event that was received.           *)
THEOREM VerdictsCoverArrivals == CheckerSpec => []VerdictCoversArrivals
BY VerdictCovers, GradingInvariant, PTL

(* The checker refines both parts: joined, the router with the processors  *)
(* and the engine go through no step but those of Watermark and of         *)
(* ReplayEngine, orderedEvents being the output of the one and the input   *)
(* of the other, so that all the safety proved of either holds here.       *)
THEOREM CheckerRefinesParts ==
    CheckerSpec => /\ Init /\ [][Next]_vars
                   /\ EngineProofs!Init /\ [][EngineProofs!Next]_(EngineProofs!vars)
<1>1. GradingInv /\ [CheckerNext]_checkerVars => [EngineProofs!Next]_(EngineProofs!vars)
  BY EngineStep DEF GradingInv, OrderInv
<1>2. CheckerInit => Init
  BY DEF CheckerInit
<1> QED BY <1>1, <1>2, ReorderingStep, EngineInit, GradingInvariant, PTL DEF CheckerSpec

=============================================================================
