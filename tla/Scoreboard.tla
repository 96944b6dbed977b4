----------------------------- MODULE Scoreboard -----------------------------
(***************************************************************************)
(* From verdicts and metrics to the leaderboard: the aggregator            *)
(* (artifact-checker/internal/aggregator), the storage publisher with its  *)
(* asynchronous inserts (internal/storage), and the way the service stops, *)
(* restarts or is killed (cmd/artifact-checker/main.go).                   *)
(*                                                                         *)
(* Metrics are the histogram and the successes of a window; the division   *)
(* of the successes by the elapsed time is left out.  The aggregator takes *)
(* a batch or a verdict straight from the environment: what is still in    *)
(* its input channels has not happened yet, and is lost with the process.  *)
(***************************************************************************)
EXTENDS Integers, SequencesExt

CONSTANTS Subs,         \* submission ids
          Batches,      \* what a metrics batch may hold: [ok, hist]
          Decisions,    \* what the engine may decide: [sub, verdict]
          ScoreCap,     \* capacity of the scores channel
          MaxBatches,   \* bound on the batches received
          MaxFaults     \* bound on failing pipelines, shutdown signals and kills

ASSUME ScoreboardBounds ==
    /\ IsFiniteSet(Subs) /\ Batches \subseteq [ok : Nat, hist : Seq(Nat)]
    /\ Decisions \subseteq [sub : Subs, verdict : {"correct", "incorrect", "unverified"}]
    /\ ScoreCap \in Nat \ {0}
    /\ MaxBatches \in Nat /\ MaxFaults \in Nat

VARIABLES states,     \* the aggregator's map, NoState where it has no entry
          agg,        \* Run: [pc, todo], pc "select", "emit", "flush", "final", "done"
          scores,     \* channel to the publisher
          pub,        \* publisher: "recv", "failed" or "wait" (deferred Wait), "done"
          inserting,  \* database inserts in flight, by [sub, correct]
          redis,      \* hash leaderboard_state, NoRow where it has no field
          cancelled,  \* runCtx is done
          batches,    \* batches received so far
          faults,     \* faults so far
          judged,     \* submissions the engine of this process has judged
          decided,    \* history: the verdicts the engine ever sent for each submission
          window,     \* history: batches received since the last flush, numbered
          orphans     \* history: submissions known before a restart

aggVars == <<states, agg, window>>
pubVars == <<pub, inserting, redis>>
bounds == <<batches, faults>>
verdictVars == <<judged, decided>>
vars == <<aggVars, scores, pubVars, cancelled, bounds, verdictVars, orphans>>

Verdicts == {"correct", "incorrect", "unverified"}
Percentiles == {50, 90, 99}
NoState == [entry |-> FALSE]
NoRow == [entry |-> FALSE]
NoMetrics == [ok |-> 0, at |-> [p \in Percentiles |-> -1]]
InsertKeys == [sub : Subs, correct : BOOLEAN]
HasState(s) == states[s] # NoState
-----------------------------------------------------------------------------
Sum(hist) == SumFunction(hist)
Cumulative(hist, i) == Sum(SubSeq(hist, 1, i))
CountAt(hist, i) == IF i \in DOMAIN hist THEN hist[i] ELSE 0

(* mergeHistogram: the longer of the two lengths, counts added.            *)
MergeHistogram(dst, src) ==
    [i \in 1..Max({Len(dst), Len(src)}) |-> CountAt(dst, i) + CountAt(src, i)]

(* Mutant of Target: the rank is rounded down.                             *)
TargetDown(total, p) == (total * p) \div 100

(* The rank of the observation that has p percent at or below it.          *)
Target(total, p) == Max({1, (total * p + 99) \div 100})

(* PercentileBucketIndex: first bucket, from 0, that reaches the rank.     *)
PercentileBucketIndex(hist, p) ==
    IF Sum(hist) = 0 THEN -1
    ELSE LET hits == {i \in DOMAIN hist : Cumulative(hist, i) >= Target(Sum(hist), p)}
         IN  IF hits = {} THEN Len(hist) - 1 ELSE Min(hits) - 1
-----------------------------------------------------------------------------
(* Mutant of FreshState: a submission is taken to be correct at first.     *)
FreshStateCorrect == [ok |-> 0, hist |-> <<>>, verdict |-> "correct", last |-> NoMetrics]

(* A new entry: unverified, "never Correct".                               *)
FreshState == [ok |-> 0, hist |-> <<>>, verdict |-> "unverified", last |-> NoMetrics]

(* The entry of s, created on first use.                                   *)
State(s) == IF HasState(s) THEN states[s] ELSE FreshState

Serving == [pc |-> "select", todo |-> {}]
Init ==
    /\ states = [s \in Subs |-> NoState] /\ agg = Serving
    /\ scores = <<>> /\ pub = "recv"
    /\ inserting = [k \in InsertKeys |-> 0]
    /\ redis = [s \in Subs |-> NoRow] /\ cancelled = FALSE
    /\ batches = 0 /\ faults = 0
    /\ judged = {} /\ decided = [s \in Subs |-> {}]
    /\ window = [s \in Subs |-> {}] /\ orphans = {}

(* Mutant of ScoresHaveRoom: a send does not block on a full channel.      *)
ScoresUnbounded == TRUE

(* A send on the scores channel can go through.                            *)
ScoresHaveRoom == Len(scores) < ScoreCap

(* scoreFor: the current verdict with the last-known metrics.              *)
ScoreFor(s, entry) == [sub |-> s, verdict |-> entry.verdict, last |-> entry.last]

(* AddBatch.                                                               *)
AddBatch(s, b) ==
    /\ agg.pc = "select" /\ batches < MaxBatches
    /\ batches' = batches + 1
    /\ states' = [states EXCEPT ![s] =
           [State(s) EXCEPT !.ok = @ + b.ok, !.hist = MergeHistogram(@, b.hist)]]
    /\ window' = [window EXCEPT ![s] = @ \cup {[b |-> b, n |-> batches]}]
    /\ UNCHANGED <<agg, scores, pubVars, cancelled, faults, verdictVars, orphans>>

(* Mutant of AfterVerdict: the verdict waits for the next metrics flush.   *)
AfterVerdictSelect(s) == agg' = Serving

(* Run emits a verdict as soon as it is applied.                           *)
AfterVerdict(s) == agg' = [pc |-> "emit", todo |-> {s}]

(* ApplyCorrectness: an engine judges a submission at most once            *)
(* (OneVerdictPerSubmission).  After a restart the records that were not   *)
(* committed come again, and a submission can be judged a second time, on  *)
(* as much of its stream as was redelivered.                               *)
ApplyCorrectness(s, v) ==
    /\ agg.pc = "select" /\ s \notin judged
    /\ judged' = judged \cup {s} /\ decided' = [decided EXCEPT ![s] = @ \cup {v}]
    /\ states' = [states EXCEPT ![s] = [State(s) EXCEPT !.verdict = v]]
    /\ AfterVerdict(s)
    /\ UNCHANGED <<window, scores, pubVars, cancelled, bounds, orphans>>

(* emitVerdict, blocked while the channel is full.                         *)
EmitVerdict(s) ==
    /\ agg.pc = "emit" /\ s \in agg.todo /\ ScoresHaveRoom
    /\ scores' = Append(scores, ScoreFor(s, states[s]))
    /\ agg' = Serving
    /\ UNCHANGED <<states, window, pubVars, cancelled, bounds, verdictVars, orphans>>

(* The entries that Flush does not skip.                                   *)
WithData == {s \in Subs : HasState(s) /\ (states[s].ok # 0 \/ Sum(states[s].hist) # 0)}

(* The ticker fires.                                                       *)
Tick ==
    /\ agg.pc = "select" /\ WithData # {}
    /\ agg' = [pc |-> "flush", todo |-> WithData]
    /\ UNCHANGED <<states, window, scores, pubVars, cancelled, bounds, verdictVars, orphans>>

(* Both inputs are closed, which the consumer and the engine do when they  *)
(* are cancelled: the loop ends with a last Flush.                         *)
InputsEnd ==
    /\ agg.pc = "select" /\ cancelled
    /\ agg' = [pc |-> "final", todo |-> WithData]
    /\ UNCHANGED <<states, window, scores, pubVars, cancelled, bounds, verdictVars, orphans>>

(* The metrics of a window.                                                *)
MetricsOf(entry) ==
    [ok |-> entry.ok, at |-> [p \in Percentiles |-> PercentileBucketIndex(entry.hist, p)]]

(* Mutant of NextWindow: the histogram runs on into the next window.       *)
NextWindowKeepsHist(entry) == [entry EXCEPT !.ok = 0, !.last = MetricsOf(entry)]

(* After its score is sent: counters reset, verdict and metrics kept.      *)
NextWindow(entry) ==
    [entry EXCEPT !.ok = 0, !.last = MetricsOf(entry), !.hist = [i \in DOMAIN @ |-> 0]]

(* Mutant of FlushScore: the metrics flush knows nothing of the verdict.   *)
FlushScoreUnverified(s) ==
    ScoreFor(s, [states[s] EXCEPT !.last = MetricsOf(states[s]), !.verdict = "unverified"])

(* The score that a flush sends.                                           *)
FlushScore(s) == ScoreFor(s, [states[s] EXCEPT !.last = MetricsOf(states[s])])

(* Flush, one entry, in the map's arbitrary order.                         *)
FlushOne(s) ==
    /\ agg.pc \in {"flush", "final"} /\ s \in agg.todo /\ ScoresHaveRoom
    /\ scores' = Append(scores, FlushScore(s))
    /\ states' = [states EXCEPT ![s] = NextWindow(@)]
    /\ window' = [window EXCEPT ![s] = {}]
    /\ agg' = [agg EXCEPT !.todo = @ \ {s}]
    /\ UNCHANGED <<pubVars, cancelled, bounds, verdictVars, orphans>>

(* Flush returns; after the last one so does Run, and closes scores.       *)
FlushDone ==
    /\ agg.pc \in {"flush", "final"} /\ agg.todo = {}
    /\ agg' = IF agg.pc = "flush" THEN Serving ELSE [agg EXCEPT !.pc = "done"]
    /\ UNCHANGED <<states, window, scores, pubVars, cancelled, bounds, verdictVars, orphans>>

(* ctx.Done wins a select, of Run or of a send: no last Flush.             *)
AggCancelled ==
    /\ cancelled /\ agg.pc # "done"
    /\ agg' = [pc |-> "done", todo |-> {}]
    /\ UNCHANGED <<states, window, scores, pubVars, cancelled, bounds, verdictVars, orphans>>
-----------------------------------------------------------------------------
InsertKey(score) == [sub |-> score.sub, correct |-> score.verdict = "correct"]
StartInsert(score) == inserting' = [inserting EXCEPT ![InsertKey(score)] = @ + 1]

(* toPayload.                                                              *)
Payload(score) == [verdict |-> score.verdict, last |-> score.last]
Hset(score) == redis' = [redis EXCEPT ![score.sub] = Payload(score)]

(* Publish: start the insert, then HSET and PUBLISH in one pipeline.       *)
Publish ==
    /\ pub = "recv" /\ scores # <<>> /\ ~cancelled
    /\ StartInsert(Head(scores)) /\ Hset(Head(scores))
    /\ scores' = Tail(scores)
    /\ UNCHANGED <<aggVars, pub, cancelled, bounds, verdictVars, orphans>>

(* The pipeline fails, as it must once its context is cancelled, before or *)
(* after the HSET was executed: Run returns the error when its inserts are *)
(* done.                                                                   *)
PublishFailed ==
    /\ pub = "recv" /\ scores # <<>>
    /\ \/ cancelled /\ UNCHANGED faults
       \/ ~cancelled /\ faults < MaxFaults /\ faults' = faults + 1
    /\ StartInsert(Head(scores)) /\ (Hset(Head(scores)) \/ UNCHANGED redis)
    /\ scores' = Tail(scores) /\ pub' = "failed"
    /\ UNCHANGED <<aggVars, cancelled, batches, verdictVars, orphans>>

(* An insert writes its row, or fails and is logged.                       *)
Insert(k) ==
    /\ inserting[k] > 0
    /\ inserting' = [inserting EXCEPT ![k] = @ - 1]
    /\ UNCHANGED <<aggVars, scores, pub, redis, cancelled, bounds, verdictVars, orphans>>

(* The publisher's loop ends: cancelled, or scores closed and empty.       *)
PublisherEnds ==
    /\ pub = "recv" /\ (cancelled \/ (agg.pc = "done" /\ scores = <<>>))
    /\ pub' = "wait"
    /\ UNCHANGED <<aggVars, scores, inserting, redis, cancelled, bounds, verdictVars, orphans>>

InsertsDone == \A k \in InsertKeys : inserting[k] = 0

(* The deferred Wait returns; main cancels every service on an error.      *)
PublisherDone ==
    /\ pub \in {"failed", "wait"} /\ InsertsDone
    /\ pub' = "done" /\ cancelled' = (cancelled \/ pub = "failed")
    /\ UNCHANGED <<aggVars, scores, inserting, redis, bounds, verdictVars, orphans>>
-----------------------------------------------------------------------------
(* SIGTERM, or another service failed.                                     *)
Cancel ==
    /\ ~cancelled /\ faults < MaxFaults
    /\ cancelled' = TRUE /\ faults' = faults + 1
    /\ UNCHANGED <<aggVars, scores, pubVars, batches, verdictVars, orphans>>

(* What a new process starts from: only Redis and the database are left.   *)
Reset ==
    /\ states' = [s \in Subs |-> NoState] /\ agg' = Serving /\ scores' = <<>>
    /\ pub' = "recv" /\ inserting' = [k \in InsertKeys |-> 0] /\ cancelled' = FALSE
    /\ window' = [s \in Subs |-> {}] /\ judged' = {}
    /\ orphans' = orphans \cup {s \in Subs : HasState(s) \/ redis[s] # NoRow}

(* main returns after wg.Wait, and the container restarts.                 *)
ExitAndRestart ==
    /\ cancelled /\ agg.pc = "done" /\ pub = "done"
    /\ Reset
    /\ UNCHANGED <<redis, bounds, decided>>

(* The process is killed.                                                  *)
Kill ==
    /\ faults < MaxFaults /\ faults' = faults + 1
    /\ Reset
    /\ UNCHANGED <<redis, batches, decided>>
-----------------------------------------------------------------------------
AggStep ==
    \/ Tick \/ InputsEnd \/ FlushDone \/ AggCancelled
    \/ \E s \in Subs : EmitVerdict(s) \/ FlushOne(s)

PubStep == Publish \/ PublisherEnds \/ PublisherDone \/ \E k \in InsertKeys : Insert(k)

Next ==
    \/ AggStep \/ PubStep \/ PublishFailed
    \/ \E s \in Subs, b \in Batches : AddBatch(s, b)
    \/ \E d \in Decisions : ApplyCorrectness(d.sub, d.verdict)
    \/ Cancel \/ ExitAndRestart \/ Kill

(* The goroutines run when they can (a ticker that fires is among them)    *)
(* and a stopped service is restarted.  Nothing obliges the bots or the    *)
(* engine to deliver, Redis to fail or anyone to stop the service.         *)
Fairness == WF_vars(AggStep) /\ WF_vars(PubStep) /\ WF_vars(ExitAndRestart)

Spec == Init /\ [][Next]_vars /\ Fairness
-----------------------------------------------------------------------------
(* Every variable has its type; the channel is within its capacity.        *)
TypeOK ==
    /\ \A s \in Subs : states[s] = NoState \/ states[s].verdict \in Verdicts
    /\ agg.pc \in {"select", "emit", "flush", "final", "done"} /\ agg.todo \subseteq Subs
    /\ Len(scores) <= ScoreCap /\ pub \in {"recv", "failed", "wait", "done"}
    /\ inserting \in [InsertKeys -> Nat]
    /\ \A s \in Subs : redis[s] = NoRow \/ redis[s].verdict \in Verdicts

(* A submission reads as a pass, in Redis or in a row being inserted, only *)
(* if the engine decided so: "a submission that was never checked (or      *)
(* whose verdict was lost) must not silently read as a pass"               *)
(* (aggregator.go), whatever fails and restarts.                           *)
NeverFailsOpen ==
    \A s \in Subs : "correct" \notin decided[s] =>
        /\ redis[s] = NoRow \/ redis[s].verdict # "correct"
        /\ \A i \in DOMAIN scores : scores[i].sub = s => scores[i].verdict # "correct"
        /\ inserting[[sub |-> s, correct |-> TRUE]] = 0

(* How many observations of the current window lie in the buckets up to b. *)
Observed(s, b) ==
    SumFunction([r \in window[s] |-> Cumulative(r.b.hist, Min({b + 1, Len(r.b.hist)}))])

(* The window in memory is the batches received since the last flush, each *)
(* counted once, and the percentiles are exact: p percent or more of the   *)
(* observations lie in the chosen bucket or below, fewer below it.         *)
WindowExact ==
    \A s \in {t \in Subs : HasState(t)} :
        /\ states[s].ok = SumFunction([r \in window[s] |-> r.b.ok])
        /\ \A p \in Percentiles :
              LET b == PercentileBucketIndex(states[s].hist, p)
                  all == Observed(s, Len(states[s].hist) - 1)
              IN  IF all = 0 THEN b = -1
                  ELSE 100 * Observed(s, b) >= p * all /\ 100 * Observed(s, b - 1) < p * all

(* A row of the leaderboard never goes back, from a verdict to unverified  *)
(* or another one, or from metrics to none: however verdicts, flushes and  *)
(* failures interleave, within the life of a process.  (After a restart it *)
(* can: the verdict was only in memory.)                                   *)
RowNeverGoesBack ==
    [][\A s \in Subs \ orphans :
          (redis[s] # NoRow /\ redis'[s] # redis[s]) =>
              /\ redis[s].verdict # "unverified" => redis'[s].verdict = redis[s].verdict
              /\ redis[s].last # NoMetrics => redis'[s].last # NoMetrics]_vars

(* "The verdict must reach the leaderboard the moment it is decided"       *)
(* (aggregator.go): with or without metrics, unless the service stops.     *)
VerdictPublished ==
    \A s \in Subs : (s \in judged)
        ~> ((redis[s] # NoRow /\ redis[s].verdict \in decided[s]) \/ cancelled \/ s \in orphans)
=============================================================================
