------------------------- MODULE TelemetryPipeline -------------------------
(***************************************************************************)
(* The way of a correctness run's records from the bot to the replay       *)
(* engine: the audit log and its periodic flush (bot-fleet                 *)
(* thread_worker.cpp, audit_log.hpp, grpc_telemetry.cpp), the gRPC stream  *)
(* and the ingester's handlers (telemetry-ingester server.go,              *)
(* producer.go), the submission's partition, and the checker up to the     *)
(* end-of-run marker.                                                      *)
(*                                                                         *)
(* A record is [seq, kind].  The bot's coroutines and the flush share one  *)
(* thread and interleave only where a request waits for its answer.        *)
(* Reordering inside the checker is left to Watermark.tla: the engine      *)
(* sorts by seq and the marker flushes all that came before it.            *)
(***************************************************************************)
EXTENDS Integers, SequencesExt

CONSTANTS MaxSeq,      \* bound on the seqs reserved before the marker's
          MaxTrades,   \* bound on the trades of one answer
          MaxStreams,  \* bound on the gRPC streams the worker opens
          MaxDrops     \* bound on the records the producer fails to publish

ASSUME PipelineBounds ==
    MaxSeq \in Nat /\ MaxTrades \in Nat /\ MaxStreams \in Nat \ {0} /\ MaxDrops \in Nat

VARIABLES nextSeq,    \* next_seq_
          inflight,   \* seq of the request waiting for its answer, 0 if none
          orders,     \* audit_log_.orders_
          trades,     \* audit_log_.trades_
          stopped,    \* the event loop is stopped and the thread has ended
          stream,     \* grpc_stream_: index of the open stream, 0 for null
          broken,     \* streams whose transport failed
          wire,       \* batches written to each stream and not yet received
          handling,   \* what each stream's handler has still to publish
          drops,      \* records the producer failed to publish
          partition,  \* records published and not yet consumed
          received,   \* records the engine buffered for the verdict
          judged,     \* the engine has finalized the submission
          recorded    \* history: every record the bot made

botVars == <<nextSeq, inflight, orders, trades, recorded>>
netVars == <<broken, wire, handling, drops, partition>>
checkerVars == <<received, judged>>
vars == <<botVars, stopped, stream, netVars, checkerVars>>

Streams == 1..MaxStreams
SeqsOf(records) == {r.seq : r \in records}

(* The stream is opened when the thread starts; if that throws, it is null.*)
Init ==
    /\ nextSeq = 1 /\ inflight = 0 /\ orders = <<>> /\ trades = <<>> /\ recorded = {}
    /\ stopped = FALSE /\ stream \in {0, 1}
    /\ broken = {} /\ drops = 0 /\ partition = <<>>
    /\ wire = [k \in Streams |-> <<>>] /\ handling = [k \in Streams |-> <<>>]
    /\ received = {} /\ judged = FALSE
-----------------------------------------------------------------------------
(* Mutant of Reserve: the seq is taken when the answer is recorded.        *)
ReserveLater == nextSeq

(* An attempt reserves its seq before the request is written.              *)
Reserve == nextSeq + 1

(* send_orders: the next attempt reserves its seq and waits.               *)
SendRequest ==
    /\ ~stopped /\ inflight = 0 /\ nextSeq <= MaxSeq
    /\ inflight' = nextSeq
    /\ nextSeq' = Reserve
    /\ UNCHANGED <<orders, trades, recorded, stopped, stream, netVars, checkerVars>>

(* The answer, or the lack of one, is known: one intent under the reserved *)
(* seq, and one record for each of the n trades of a 200 answer.           *)
Answered(n) ==
    /\ ~stopped /\ inflight # 0
    /\ LET intent == [seq |-> inflight, kind |-> "ORDER"]
           fills == [k \in 1..n |-> [seq |-> nextSeq + k - 1, kind |-> "FILL"]]
       IN  /\ orders' = Append(orders, intent)
           /\ trades' = trades \o fills
           /\ recorded' = recorded \cup {intent} \cup ToSet(fills)
    /\ nextSeq' = nextSeq + n
    /\ inflight' = 0
    /\ UNCHANGED <<stopped, stream, netVars, checkerVars>>

(* send_batch: the orders first, then the trades.                          *)
Batch == orders \o trades

(* flush_loop: the window goes out as one batch.                           *)
FlushSent ==
    /\ ~stopped /\ Batch # <<>> /\ stream # 0 /\ stream \notin broken
    /\ wire' = [wire EXCEPT ![stream] = Append(@, Batch)]
    /\ orders' = <<>> /\ trades' = <<>>
    /\ UNCHANGED <<nextSeq, inflight, recorded, stopped, stream, broken, handling, drops,
                   partition, checkerVars>>

(* The write fails: the stream is reopened, or null if that throws, and    *)
(* the window is cleared all the same.                                     *)
FlushFailed ==
    /\ ~stopped /\ Batch # <<>> /\ stream \in broken
    /\ stream' \in {0} \cup ({stream + 1} \cap Streams)
    /\ orders' = <<>> /\ trades' = <<>>
    /\ UNCHANGED <<nextSeq, inflight, recorded, stopped, netVars, checkerVars>>

(* A null stream is never reopened: each window is cleared unsent.         *)
FlushUnsent ==
    /\ ~stopped /\ Batch # <<>> /\ stream = 0
    /\ orders' = <<>> /\ trades' = <<>>
    /\ UNCHANGED <<nextSeq, inflight, recorded, stopped, stream, netVars, checkerVars>>

(* Mutant of FinalBatch: the last window is not sent.                      *)
NoFinalBatch(batch) == wire

(* The final flush, whose result is ignored.                               *)
FinalBatch(batch) ==
    IF stream = 0 \/ stream \in broken THEN wire
    ELSE [wire EXCEPT ![stream] = Append(@, batch)]

(* stop, and the end of the thread: a request still waiting is abandoned   *)
(* with its seq, the marker takes the next one, and what is logged goes    *)
(* out, orders (the marker among them) first.                              *)
Stop ==
    /\ ~stopped /\ stopped' = TRUE
    /\ LET marker == [seq |-> nextSeq, kind |-> "END"]
       IN  /\ recorded' = recorded \cup {marker}
           /\ wire' = FinalBatch(Append(orders, marker) \o trades)
    /\ nextSeq' = nextSeq + 1
    /\ orders' = <<>> /\ trades' = <<>>
    /\ UNCHANGED <<inflight, stream, broken, handling, drops, partition, checkerVars>>
-----------------------------------------------------------------------------
(* A stream's transport fails: the last batches on the wire are lost.      *)
BreakStream(k) ==
    /\ k \notin broken /\ k <= stream
    /\ broken' = broken \cup {k}
    /\ \E n \in 0..Len(wire[k]) : wire' = [wire EXCEPT ![k] = SubSeq(@, 1, n)]
    /\ UNCHANGED <<botVars, stopped, stream, handling, drops, partition, checkerVars>>

(* StreamTelemetry: the handler of a stream receives a batch ...           *)
Recv(k) ==
    /\ handling[k] = <<>> /\ wire[k] # <<>>
    /\ handling' = [handling EXCEPT ![k] = Head(wire[k])]
    /\ wire' = [wire EXCEPT ![k] = Tail(@)]
    /\ UNCHANGED <<botVars, stopped, stream, broken, drops, partition, checkerVars>>

(* ... and publishes its records one by one, keyed by submission.          *)
Publish(k) ==
    /\ handling[k] # <<>>
    /\ partition' = Append(partition, Head(handling[k]))
    /\ handling' = [handling EXCEPT ![k] = Tail(@)]
    /\ UNCHANGED <<botVars, stopped, stream, broken, wire, drops, checkerVars>>

(* The asynchronous produce fails: the callback logs it, nothing retries.  *)
ProduceFailed(k) ==
    /\ handling[k] # <<>> /\ drops < MaxDrops
    /\ drops' = drops + 1
    /\ handling' = [handling EXCEPT ![k] = Tail(@)]
    /\ UNCHANGED <<botVars, stopped, stream, broken, wire, partition, checkerVars>>

(* The checker takes the next record; the marker finalizes the submission, *)
(* later records are stragglers.                                           *)
Consume ==
    /\ partition # <<>>
    /\ LET r == Head(partition)
       IN  /\ received' = IF judged THEN received ELSE received \cup {r}
           /\ judged' = (judged \/ r.kind = "END")
    /\ partition' = Tail(partition)
    /\ UNCHANGED <<botVars, stopped, stream, broken, wire, handling, drops>>
-----------------------------------------------------------------------------
Ingest(k) == Recv(k) \/ Publish(k)

Next ==
    \/ SendRequest
    \/ \E n \in 0..MaxTrades : Answered(n)
    \/ FlushSent \/ FlushFailed \/ FlushUnsent \/ Stop
    \/ \E k \in Streams : BreakStream(k) \/ Ingest(k) \/ ProduceFailed(k)
    \/ Consume

(* The ingester's handlers and the checker run when they can.  Nothing is  *)
(* assumed of the contestant, of the transport or of the end of the run.   *)
Fairness == WF_vars(Consume) /\ \A k \in Streams : WF_vars(Ingest(k))

Spec == Init /\ [][Next]_vars /\ Fairness
-----------------------------------------------------------------------------
(* The holes Replay counts: the highest seq less the seqs it has seen.     *)
Gap ==
    LET seqs == SeqsOf(received)
    IN  (CHOOSE m \in seqs : \A s \in seqs : s <= m) - Cardinality(seqs)

(* Whatever is lost on the way, or abandoned at the stop, leaves a hole in *)
(* the seqs: a verdict without a gap was made from every record of the run *)
(* and no request was left unanswered.                                     *)
NoSilentLoss ==
    (judged /\ Gap = 0) => received = recorded /\ inflight = 0

(* A run that ends with its stream open is judged, unless the transport    *)
(* or the producer fails: the marker, recorded after the event loop has    *)
(* stopped, "can never be lost to a suspended coroutine".                  *)
CompletedRunJudged ==
    (stopped /\ stream # 0) ~> (judged \/ broken # {} \/ drops > 0)

(* With no failure at all, the engine has the complete stream when it      *)
(* handles the marker: "the last event a submission will ever produce"     *)
(* (processor.go, Process).                                                *)
CompleteAtMarker ==
    (judged /\ broken = {} /\ drops = 0) => received = recorded
=============================================================================
