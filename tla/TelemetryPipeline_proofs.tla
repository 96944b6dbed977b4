---------------------- MODULE TelemetryPipeline_proofs ----------------------
(***************************************************************************)
(* A verdict without a gap was made from every record of the run, for any  *)
(* number of attempts, trades, windows, streams, failures and records      *)
(* lost.                                                                   *)
(*                                                                         *)
(* The engine sees nothing but the seqs of what it has received.  The      *)
(* argument is that these can only be complete if the records are:         *)
(* whatever travels was recorded by the bot (Carried), no two records have *)
(* the same seq (OneSeqEach), the records and the request in flight use    *)
(* every seq that was reserved (NoSeqUnused), and the marker has the last  *)
(* of them (MarkerIsLast) and is among what was received when the engine   *)
(* judges (JudgedAtMarker).                                                *)
(***************************************************************************)
EXTENDS TelemetryPipeline, FiniteSetTheorems, SequenceTheorems, TLAPS

Records == [seq : Nat \ {0}, kind : {"ORDER", "FILL", "END"}]

(* Every record on its way was made by the bot.                            *)
Logged(q) == q \in Seq(recorded)
Carried ==
    /\ Logged(orders) /\ Logged(trades) /\ Logged(partition)
    /\ wire \in [Streams -> Seq(Seq(recorded))]
    /\ handling \in [Streams -> Seq(recorded)]
    /\ received \subseteq recorded

SeqTypes ==
    /\ nextSeq \in Nat \ {0} /\ inflight \in Nat /\ inflight < nextSeq
    /\ stopped \in BOOLEAN /\ judged \in BOOLEAN
    /\ recorded \subseteq Records
    /\ \A r \in recorded : r.seq < nextSeq

OneSeqEach ==
    /\ \A q, r \in recorded : q.seq = r.seq => q = r
    /\ \A r \in recorded : r.seq # inflight

NoSeqUnused ==
    \A n \in Nat \ {0} : n < nextSeq => n = inflight \/ \E r \in recorded : r.seq = n

MarkerIsLast ==
    \A r \in recorded : r.kind = "END" => stopped /\ r.seq = nextSeq - 1

JudgedAtMarker == judged => \E r \in received : r.kind = "END"

SeqInv == SeqTypes /\ OneSeqEach /\ NoSeqUnused /\ MarkerIsLast
PipelineInv == SeqInv /\ Carried /\ JudgedAtMarker
-----------------------------------------------------------------------------
(* A bot that has recorded nothing satisfies the invariant.                *)
LEMMA PipelineInit == Init => PipelineInv
<1> SUFFICES ASSUME Init PROVE PipelineInv
  OBVIOUS
<1>1. SeqInv
  <2>1. SeqTypes
    <3>1. nextSeq = 1 /\ inflight = 0 /\ recorded = {}
      BY DEF Init
    <3>2. stopped \in BOOLEAN /\ judged \in BOOLEAN
      BY DEF Init
    <3> QED BY <3>1, <3>2 DEF SeqTypes
  <2>2. OneSeqEach /\ MarkerIsLast
    BY DEF Init, OneSeqEach, MarkerIsLast
  <2>3. NoSeqUnused
    BY DEF Init, NoSeqUnused
  <2> QED BY <2>1, <2>2, <2>3 DEF SeqInv
<1>2. Carried
  BY DEF Init, Carried, Logged
<1>3. JudgedAtMarker
  BY DEF Init, JudgedAtMarker
<1> QED BY <1>1, <1>2, <1>3 DEF PipelineInv

(* What was recorded stays recorded.                                       *)
LEMMA Grown ==
    ASSUME NEW R, NEW Q, R \subseteq Q
    PROVE  Seq(R) \subseteq Seq(Q) /\ Seq(Seq(R)) \subseteq Seq(Seq(Q))
<1>1. Seq(R) \subseteq Seq(Q)
  BY SeqMonotonic
<1> QED BY <1>1, SeqMonotonic

(* An attempt takes the next seq for itself.                               *)
LEMMA RequestSent ==
    ASSUME PipelineInv, SendRequest
    PROVE  PipelineInv'
<1>1. /\ inflight = 0 /\ inflight' = nextSeq /\ nextSeq' = nextSeq + 1
      /\ UNCHANGED <<orders, trades, recorded, stopped, wire, handling, partition, received, judged>>
      /\ ~stopped
  BY DEF SendRequest, Reserve, netVars, checkerVars
<1>2. SeqTypes /\ OneSeqEach /\ NoSeqUnused /\ MarkerIsLast /\ Carried /\ JudgedAtMarker
  BY DEF PipelineInv, SeqInv
<1>3. nextSeq \in Nat \ {0} /\ \A r \in recorded : r.seq < nextSeq /\ r.seq \in Nat
  BY <1>2 DEF SeqTypes, Records
<1>4. SeqTypes'
  BY <1>1, <1>2, <1>3 DEF SeqTypes
<1>5. OneSeqEach'
  BY <1>1, <1>2, <1>3 DEF OneSeqEach
<1>6. NoSeqUnused'
  <2> SUFFICES ASSUME NEW n \in Nat \ {0}, n < nextSeq + 1
               PROVE  n = nextSeq \/ \E r \in recorded : r.seq = n
    BY <1>1 DEF NoSeqUnused
  <2>1. CASE n < nextSeq
    BY <1>1, <1>2, <2>1 DEF NoSeqUnused
  <2>2. CASE ~(n < nextSeq)
    BY <1>3, <2>2
  <2> QED BY <2>1, <2>2
<1>7. MarkerIsLast' /\ Carried' /\ JudgedAtMarker'
  BY <1>1, <1>2 DEF MarkerIsLast, Carried, Logged, JudgedAtMarker
<1> QED BY <1>4, <1>5, <1>6, <1>7 DEF PipelineInv, SeqInv

(* The answer is recorded under the reserved seq, its trades under fresh   *)
(* ones.                                                                   *)
LEMMA AnswerRecorded ==
    ASSUME PipelineInv, NEW n \in 0..MaxTrades, Answered(n)
    PROVE  PipelineInv'
<1> DEFINE intent == [seq |-> inflight, kind |-> "ORDER"]
           fills == [k \in 1..n |-> [seq |-> nextSeq + k - 1, kind |-> "FILL"]]
<1>0. n \in Nat
  BY PipelineBounds
<1>1. /\ ~stopped /\ inflight # 0 /\ inflight' = 0 /\ nextSeq' = nextSeq + n
      /\ orders' = Append(orders, intent) /\ trades' = trades \o fills
      /\ recorded' = recorded \cup {intent} \cup ToSet(fills)
      /\ UNCHANGED <<stopped, wire, handling, partition, received, judged>>
  BY DEF Answered, netVars, checkerVars
<1>2. SeqTypes /\ OneSeqEach /\ NoSeqUnused /\ MarkerIsLast /\ Carried /\ JudgedAtMarker
  BY DEF PipelineInv, SeqInv
<1>3. /\ nextSeq \in Nat \ {0} /\ inflight \in Nat \ {0} /\ inflight < nextSeq
      /\ \A r \in recorded : r \in Records /\ r.seq < nextSeq /\ r.seq \in Nat
  BY <1>1, <1>2 DEF SeqTypes, Records
<1>4. ToSet(fills) = {[seq |-> nextSeq + k - 1, kind |-> "FILL"] : k \in 1..n}
  BY DEF ToSet
<1>5. \A r \in recorded' : \/ r \in recorded
                           \/ r = intent
                           \/ \E k \in 1..n : r = [seq |-> nextSeq + k - 1, kind |-> "FILL"]
  BY <1>1, <1>4
<1>6. /\ recorded \subseteq recorded' /\ intent \in recorded'
      /\ \A k \in 1..n : [seq |-> nextSeq + k - 1, kind |-> "FILL"] \in recorded'
  BY <1>1, <1>4
<1> HIDE DEF fills
<1>7. \A r \in recorded' : \/ r \in recorded /\ r.seq # inflight /\ r.seq < nextSeq
                           \/ r.seq = inflight /\ r = intent
                           \/ /\ r.seq \in Nat /\ r.seq >= nextSeq /\ r.seq < nextSeq + n
                              /\ r = [seq |-> r.seq, kind |-> "FILL"]
  <2> SUFFICES ASSUME NEW r \in recorded'
               PROVE  \/ r \in recorded /\ r.seq # inflight /\ r.seq < nextSeq
                      \/ r.seq = inflight /\ r = intent
                      \/ /\ r.seq \in Nat /\ r.seq >= nextSeq /\ r.seq < nextSeq + n
                         /\ r = [seq |-> r.seq, kind |-> "FILL"]
    OBVIOUS
  <2>1. CASE r \in recorded
    BY <1>2, <1>3, <2>1 DEF OneSeqEach
  <2>2. CASE r = intent
    BY <2>2
  <2>3. ASSUME NEW k \in 1..n, r = [seq |-> nextSeq + k - 1, kind |-> "FILL"]
        PROVE  /\ r.seq \in Nat /\ r.seq >= nextSeq /\ r.seq < nextSeq + n
               /\ r = [seq |-> r.seq, kind |-> "FILL"]
    BY <1>0, <1>3, <2>3
  <2> QED BY <1>5, <2>1, <2>2, <2>3
<1>8. SeqTypes'
  <2>1. \A r \in recorded' : r \in Records /\ r.seq < nextSeq + n
    <3> SUFFICES ASSUME NEW r \in recorded' PROVE r \in Records /\ r.seq < nextSeq + n
      OBVIOUS
    <3>1. CASE r \in recorded
      BY <1>0, <1>3, <3>1
    <3>2. CASE r = intent
      BY <1>0, <1>3, <3>2 DEF Records
    <3>3. CASE r.seq \in Nat /\ r.seq >= nextSeq /\ r.seq < nextSeq + n /\ r = [seq |-> r.seq, kind |-> "FILL"]
      BY <1>0, <1>3, <3>3 DEF Records
    <3> QED BY <1>7, <3>1, <3>2, <3>3
  <2> QED BY <1>0, <1>1, <1>2, <1>3, <2>1 DEF SeqTypes
<1>9. OneSeqEach'
  <2>1. \A q, r \in recorded' : q.seq = r.seq => q = r
    BY <1>2, <1>3, <1>7 DEF OneSeqEach
  <2>2. \A r \in recorded' : r.seq # 0
    <3>1. \A r \in recorded' : r \in Records
      BY <1>1, <1>8 DEF SeqTypes
    <3> QED BY <3>1 DEF Records
  <2> QED BY <1>1, <2>1, <2>2 DEF OneSeqEach
<1>10. NoSeqUnused'
  <2> SUFFICES ASSUME NEW m \in Nat \ {0}, m < nextSeq + n
               PROVE  \E r \in recorded' : r.seq = m
    BY <1>1 DEF NoSeqUnused
  <2>1. CASE m = inflight
    BY <1>6, <2>1
  <2>2. CASE m # inflight /\ m < nextSeq
    BY <1>2, <1>6, <2>2 DEF NoSeqUnused
  <2>3. CASE ~(m < nextSeq)
    <3>1. m - nextSeq + 1 \in 1..n /\ nextSeq + (m - nextSeq + 1) - 1 = m
      BY <1>0, <1>3, <2>3
    <3>2. [seq |-> nextSeq + (m - nextSeq + 1) - 1, kind |-> "FILL"] \in recorded'
      BY <1>6, <3>1
    <3> QED BY <3>1, <3>2
  <2> QED BY <2>1, <2>2, <2>3
<1>11. MarkerIsLast'
  <2>1. \A r \in recorded' : r.kind = "END" => r \in recorded
    BY <1>5
  <2> QED BY <1>1, <1>2, <2>1 DEF MarkerIsLast
<1>12. Carried'
  <2>1. /\ Seq(recorded) \subseteq Seq(recorded')
        /\ Seq(Seq(recorded)) \subseteq Seq(Seq(recorded'))
    BY <1>6, Grown
  <2>2. Append(orders, intent) \in Seq(recorded')
    <3>1. orders \in Seq(recorded')
      BY <1>2, <2>1 DEF Carried, Logged
    <3> QED BY <1>6, <3>1
  <2>3. trades \o fills \in Seq(recorded')
    <3>1. fills \in Seq(recorded')
      BY <1>0, <1>6, IsASeq DEF fills
    <3>2. trades \in Seq(recorded')
      BY <1>2, <2>1 DEF Carried, Logged
    <3> QED BY <3>1, <3>2
  <2>4. /\ partition \in Seq(recorded') /\ received \subseteq recorded'
        /\ handling \in [Streams -> Seq(recorded')] /\ wire \in [Streams -> Seq(Seq(recorded'))]
    BY <1>2, <1>6, <2>1 DEF Carried, Logged
  <2> QED BY <1>1, <2>2, <2>3, <2>4 DEF Carried, Logged
<1>13. JudgedAtMarker'
  BY <1>1, <1>2 DEF JudgedAtMarker
<1> QED BY <1>8, <1>9, <1>10, <1>11, <1>12, <1>13 DEF PipelineInv, SeqInv

(* The marker takes the next seq, whatever request is abandoned.           *)
LEMMA MarkerRecorded ==
    ASSUME PipelineInv, Stop
    PROVE  PipelineInv'
<1> DEFINE marker == [seq |-> nextSeq, kind |-> "END"]
           batch == Append(orders, marker) \o trades
<1>1. /\ ~stopped /\ stopped' = TRUE /\ nextSeq' = nextSeq + 1
      /\ recorded' = recorded \cup {marker} /\ wire' = FinalBatch(batch)
      /\ orders' = <<>> /\ trades' = <<>>
      /\ UNCHANGED <<inflight, handling, partition, received, judged>>
  BY DEF Stop, checkerVars
<1>2. SeqTypes /\ OneSeqEach /\ NoSeqUnused /\ MarkerIsLast /\ Carried /\ JudgedAtMarker
  BY DEF PipelineInv, SeqInv
<1>3. /\ nextSeq \in Nat \ {0} /\ inflight \in Nat /\ inflight < nextSeq
      /\ \A r \in recorded : r \in Records /\ r.seq < nextSeq /\ r.seq \in Nat
  BY <1>2 DEF SeqTypes, Records
<1>4. SeqTypes'
  <2>1. marker \in Records
    BY <1>3 DEF Records
  <2> QED BY <1>1, <1>2, <1>3, <2>1 DEF SeqTypes
<1>5. OneSeqEach'
  BY <1>1, <1>2, <1>3 DEF OneSeqEach
<1>6. NoSeqUnused'
  <2> SUFFICES ASSUME NEW m \in Nat \ {0}, m < nextSeq + 1
               PROVE  m = inflight \/ \E r \in recorded' : r.seq = m
    BY <1>1 DEF NoSeqUnused
  <2>1. CASE m < nextSeq
    BY <1>1, <1>2, <2>1 DEF NoSeqUnused
  <2>2. CASE ~(m < nextSeq)
    <3>1. marker.seq = m /\ marker \in recorded'
      BY <1>1, <1>3, <2>2
    <3> QED BY <3>1
  <2> QED BY <2>1, <2>2
<1>7. MarkerIsLast'
  <2>1. \A r \in recorded : r.kind # "END"
    BY <1>1, <1>2 DEF MarkerIsLast
  <2> QED BY <1>1, <1>3, <2>1 DEF MarkerIsLast
<1>8. Carried'
  <2>0. recorded \subseteq recorded' /\ marker \in recorded'
    BY <1>1
  <2>1. /\ Seq(recorded) \subseteq Seq(recorded')
        /\ Seq(Seq(recorded)) \subseteq Seq(Seq(recorded'))
    BY <2>0, Grown
  <2>2. batch \in Seq(recorded')
    <3>1. orders \in Seq(recorded') /\ trades \in Seq(recorded')
      BY <1>2, <2>1 DEF Carried, Logged
    <3>2. Append(orders, marker) \in Seq(recorded')
      BY <2>0, <3>1
    <3> QED BY <3>1, <3>2
  <2>3. wire \in [Streams -> Seq(Seq(recorded'))]
    BY <1>2, <2>1 DEF Carried
  <2> HIDE DEF batch
  <2>4. wire' \in [Streams -> Seq(Seq(recorded'))]
    <3>1. CASE wire' = wire
      BY <2>3, <3>1
    <3>2. CASE wire' = [wire EXCEPT ![stream] = Append(wire[stream], batch)]
      <4>1. stream \in Streams => Append(wire[stream], batch) \in Seq(Seq(recorded'))
        BY <2>2, <2>3
      <4> QED BY <2>3, <3>2, <4>1
    <3> QED BY <1>1, <3>1, <3>2 DEF FinalBatch
  <2>5. /\ partition \in Seq(recorded') /\ received \subseteq recorded'
        /\ handling \in [Streams -> Seq(recorded')]
    BY <1>2, <2>0, <2>1 DEF Carried, Logged
  <2>6. <<>> \in Seq(recorded')
    OBVIOUS
  <2> QED BY <1>1, <2>4, <2>5, <2>6 DEF Carried, Logged
<1>9. JudgedAtMarker'
  BY <1>1, <1>2 DEF JudgedAtMarker
<1> QED BY <1>4, <1>5, <1>6, <1>7, <1>8, <1>9 DEF PipelineInv, SeqInv

(* What the bot has recorded does not depend on how it travels.            *)
LEMMA SeqsUntouched ==
    ASSUME SeqInv, UNCHANGED <<nextSeq, inflight, recorded, stopped>>, judged' \in BOOLEAN
    PROVE  SeqInv'
BY DEF SeqInv, SeqTypes, OneSeqEach, NoSeqUnused, MarkerIsLast

(* A flush hands the window over or loses it.                              *)
LEMMA Flushed ==
    ASSUME PipelineInv, FlushSent \/ FlushFailed \/ FlushUnsent
    PROVE  PipelineInv'
<1>1. /\ UNCHANGED <<nextSeq, inflight, recorded, stopped, handling, partition, received, judged>>
      /\ orders' = <<>> /\ trades' = <<>>
      /\ wire' = wire \/ wire' = [wire EXCEPT ![stream] = Append(wire[stream], Batch)]
  BY DEF FlushSent, FlushFailed, FlushUnsent, netVars, checkerVars
<1>2. SeqInv /\ Carried /\ JudgedAtMarker /\ judged \in BOOLEAN
  BY DEF PipelineInv, SeqInv, SeqTypes
<1>3. wire' \in [Streams -> Seq(Seq(recorded))]
  <2>1. Batch \in Seq(recorded)
    BY <1>2 DEF Carried, Logged, Batch
  <2>2. stream \in Streams => Append(wire[stream], Batch) \in Seq(Seq(recorded))
    BY <1>2, <2>1 DEF Carried
  <2> QED BY <1>1, <1>2, <2>2 DEF Carried
<1>4. Carried'
  BY <1>1, <1>2, <1>3 DEF Carried, Logged
<1>5. SeqInv' /\ JudgedAtMarker'
  BY <1>1, <1>2, SeqsUntouched DEF JudgedAtMarker
<1> QED BY <1>4, <1>5 DEF PipelineInv

(* A broken transport and the ingester only lose records.                  *)
LEMMA Ingested ==
    ASSUME PipelineInv, NEW k \in Streams, BreakStream(k) \/ Ingest(k) \/ ProduceFailed(k)
    PROVE  PipelineInv'
<1>1. /\ UNCHANGED <<nextSeq, inflight, recorded, stopped, orders, trades, received, judged>>
  BY DEF BreakStream, Ingest, Recv, Publish, ProduceFailed, botVars, checkerVars
<1>2. SeqInv /\ Carried /\ JudgedAtMarker /\ judged \in BOOLEAN
  BY DEF PipelineInv, SeqInv, SeqTypes
<1>3. /\ wire \in [Streams -> Seq(Seq(recorded))] /\ handling \in [Streams -> Seq(recorded)]
      /\ wire[k] \in Seq(Seq(recorded)) /\ handling[k] \in Seq(recorded)
      /\ partition \in Seq(recorded)
  BY <1>2 DEF Carried, Logged
<1>4. /\ wire' \in [Streams -> Seq(Seq(recorded))] /\ handling' \in [Streams -> Seq(recorded)]
      /\ partition' \in Seq(recorded)
  <2>1. CASE BreakStream(k)
    <3>1. PICK n \in 0..Len(wire[k]) : wire' = [wire EXCEPT ![k] = SubSeq(wire[k], 1, n)]
      BY <2>1 DEF BreakStream
    <3>2. SubSeq(wire[k], 1, n) \in Seq(Seq(recorded))
      BY <1>3, <3>1
    <3> QED BY <1>3, <2>1, <3>1, <3>2 DEF BreakStream
  <2>2. CASE Recv(k)
    <3>1. Head(wire[k]) \in Seq(recorded) /\ Tail(wire[k]) \in Seq(Seq(recorded))
      BY <1>3, <2>2, HeadTailProperties DEF Recv
    <3> QED BY <1>3, <2>2, <3>1 DEF Recv
  <2>3. CASE Publish(k) \/ ProduceFailed(k)
    <3>1. Head(handling[k]) \in recorded /\ Tail(handling[k]) \in Seq(recorded)
      BY <1>3, <2>3, HeadTailProperties DEF Publish, ProduceFailed
    <3>2. Append(partition, Head(handling[k])) \in Seq(recorded)
      BY <1>3, <3>1
    <3> QED BY <1>3, <2>3, <3>1, <3>2 DEF Publish, ProduceFailed
  <2> QED BY <2>1, <2>2, <2>3 DEF Ingest
<1>5. Carried'
  BY <1>1, <1>2, <1>4 DEF Carried, Logged
<1>6. SeqInv' /\ JudgedAtMarker'
  BY <1>1, <1>2, SeqsUntouched DEF JudgedAtMarker
<1> QED BY <1>5, <1>6 DEF PipelineInv

(* The engine judges when it takes the marker.                             *)
LEMMA Consumed ==
    ASSUME PipelineInv, Consume
    PROVE  PipelineInv'
<1>1. /\ UNCHANGED <<nextSeq, inflight, recorded, stopped, orders, trades, wire, handling>>
      /\ received' = IF judged THEN received ELSE received \cup {Head(partition)}
      /\ judged' = (judged \/ Head(partition).kind = "END")
      /\ partition # <<>> /\ partition' = Tail(partition)
  BY DEF Consume, botVars
<1>2. SeqInv /\ Carried /\ JudgedAtMarker /\ judged \in BOOLEAN
  BY DEF PipelineInv, SeqInv, SeqTypes
<1>3. Head(partition) \in recorded /\ Tail(partition) \in Seq(recorded)
  BY <1>1, <1>2, HeadTailProperties DEF Carried, Logged
<1>4. Carried'
  BY <1>1, <1>2, <1>3 DEF Carried, Logged
<1>5. SeqInv'
  BY <1>1, <1>2, SeqsUntouched
<1>6. JudgedAtMarker'
  <2>1. CASE judged
    BY <1>1, <1>2, <2>1 DEF JudgedAtMarker
  <2>2. CASE ~judged
    BY <1>1, <2>2 DEF JudgedAtMarker
  <2> QED BY <2>1, <2>2
<1> QED BY <1>4, <1>5, <1>6 DEF PipelineInv

(* Every step keeps the invariant.                                         *)
LEMMA PipelineStep == PipelineInv /\ [Next]_vars => PipelineInv'
<1> SUFFICES ASSUME PipelineInv, [Next]_vars PROVE PipelineInv'
  OBVIOUS
<1>1. CASE Next
  BY <1>1, RequestSent, AnswerRecorded, MarkerRecorded, Flushed, Ingested, Consumed DEF Next
<1>2. CASE UNCHANGED vars
  BY <1>2 DEF vars, botVars, netVars, checkerVars, PipelineInv, SeqInv, SeqTypes, OneSeqEach,
              NoSeqUnused, MarkerIsLast, Carried, Logged, JudgedAtMarker
<1> QED BY <1>1, <1>2

-----------------------------------------------------------------------------
(* A set of seqs up to n that misses none is all of them.                  *)
LEMMA NoHole ==
    ASSUME NEW n \in Nat, NEW seqs \in SUBSET (1..n), n \in seqs,
           (CHOOSE m \in seqs : \A s \in seqs : s <= m) - Cardinality(seqs) = 0
    PROVE  seqs = 1..n
<1>1. IsFiniteSet(1..n) /\ Cardinality(1..n) = n
  BY FS_Interval
<1>2. IsFiniteSet(seqs) /\ Cardinality(seqs) \in Nat
  BY <1>1, FS_Subset, FS_CardinalityType
<1>3. (CHOOSE m \in seqs : \A s \in seqs : s <= m) = n
  <2>1. \A m \in seqs : (\A s \in seqs : s <= m) <=> m = n
    OBVIOUS
  <2> QED BY <2>1
<1>4. n - Cardinality(seqs) = 0
  BY <1>3
<1>5. Cardinality(seqs) = Cardinality(1..n)
  BY <1>1, <1>2, <1>4
<1> QED BY <1>1, <1>5, FS_Subset

(* A verdict without a gap was made from every record the bot made, and no *)
(* request was left unanswered: what a flush, the transport, the ingester  *)
(* or the producer loses, and what the stop abandons, leaves a hole.       *)
THEOREM LossShows == Spec => []NoSilentLoss
<1>1. PipelineInv => NoSilentLoss
  <2> SUFFICES ASSUME PipelineInv, judged, Gap = 0
               PROVE  received = recorded /\ inflight = 0
    BY DEF NoSilentLoss
  <2>1. SeqTypes /\ OneSeqEach /\ NoSeqUnused /\ MarkerIsLast /\ Carried /\ JudgedAtMarker
    BY DEF PipelineInv, SeqInv
  <2>2. received \subseteq recorded /\ nextSeq \in Nat \ {0} /\ inflight \in Nat /\ inflight < nextSeq
    BY <2>1 DEF Carried, SeqTypes
  <2>3. SeqsOf(received) \in SUBSET (1..(nextSeq - 1))
    <3>1. \A r \in received : r.seq \in 1..(nextSeq - 1)
      BY <2>1, <2>2 DEF SeqTypes, Records
    <3> QED BY <3>1 DEF SeqsOf
  <2>4. nextSeq - 1 \in SeqsOf(received)
    BY <2>1, <2>2 DEF JudgedAtMarker, MarkerIsLast, SeqsOf
  <2>5. SeqsOf(received) = 1..(nextSeq - 1)
    <3>1. nextSeq - 1 \in Nat
      BY <2>2
    <3> QED BY <2>3, <2>4, <3>1, NoHole DEF Gap
  <2>6. ASSUME NEW r \in recorded PROVE r \in received
    <3>1. r.seq \in 1..(nextSeq - 1)
      BY <2>1, <2>2 DEF SeqTypes, Records
    <3>2. PICK q \in received : q.seq = r.seq
      BY <2>5, <3>1 DEF SeqsOf
    <3> QED BY <2>1, <2>2, <3>2 DEF OneSeqEach
  <2>7. inflight = 0
    <3>1. CASE inflight # 0
      <4>0. inflight \in 1..(nextSeq - 1)
        BY <2>2, <3>1
      <4>1. PICK q \in received : q.seq = inflight
        BY <2>5, <4>0 DEF SeqsOf
      <4> QED BY <2>1, <2>2, <4>1 DEF OneSeqEach
    <3> QED BY <3>1
  <2> QED BY <2>2, <2>6, <2>7
<1> QED BY <1>1, PipelineInit, PipelineStep, PTL DEF Spec

=============================================================================
