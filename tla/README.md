# Veltrix: a TLA+ verification of the grading pipeline

Veltrix grades contestants' matching engines. It builds a submission into a
container, drives it with a fleet of bots, ships what the bots did and saw
through gRPC and Kafka, replays it against a golden matching engine and
publishes a verdict (correct, incorrect, unverified) with latency metrics. Its
stated design rule is soundness: "code that is correct must never be marked
incorrect" (`src/veltrix/docs/architecture.md`).

These modules model the parts on which that rule depends, check them with TLC on
small instances and prove, with TLAPS and for every instance, the safety of every
concurrent part, the exactness of the metrics, that the golden engine is a
price-time book and that the verdict drawn from it is right.
Paths below are relative to `src/veltrix/`.

## 1. Inventory

| Component | State | Operations | Hard part |
|---|---|---|---|
| Golden engine `artifact-checker/internal/replayengine/engine.go` (orderBook) | price levels, FIFO queues, live index | submit (LIMIT/GFD, FAK, FOK, MARKET), cancel | nested loops that mutate what they iterate; boundary quantities |
| Verdict (`Replay`, `diffAggressor`, `finalize`) | books, id maps, taint per ticker | replay in seq order, diff, tolerance | lost answers, lost and repeated records, fail-safe in both directions |
| Engine concurrency (`Run`, `dispatch`, `flushAll`) | per-submission buffers, finalized set, semaphore, wait group | receive, hand over to a worker, flush, close | closing a channel with many senders; bounded slots; cancellation |
| Watermark (`internal/watermark`) | one heap and one channel per submission | route, enqueue, emit, flush, idle flush | late events, blocked sends, shutdown in mid-flight |
| Bot writer and audit log (`bot-fleet`) | next_seq, window of orders and trades, gRPC stream | request, record, flush, stop | coroutines around an await; windows cleared after a failed send |
| Telemetry ingester | one handler per stream | receive a batch, publish its records | asynchronous publication failures |
| Fleet pool (`sandbox-manager/internal/fleet/pool.go`) | active/max per instance | Dispatch, post, health poll | check and increment apart; polls that overwrite; POST timeouts |
| Fleet commander | cores in use, active count | accept, claim, run, release | threads racing for cores |
| Sandbox workers `sandbox-manager/internal/worker/worker.go` | queue, jobs channel, container, status row | dequeue, build, run, trigger, clean up | crash between steps; fixed sleeps as synchronisation |
| Submission service | row, object, queue entry | submit | insert and enqueue can fail apart |
| Aggregator and publisher `artifact-checker/internal/aggregator`, `internal/storage` | verdict, counters and histogram per submission; Redis hash; inserts in flight | merge, apply a verdict, flush, publish, insert | restart loses verdicts; asynchronous inserts; windows and percentiles |
| Checker process `artifact-checker/cmd/artifact-checker/main.go` | five services on one context | start, cancel all when one fails, exit | which records, verdicts and scores survive |
| Leaderboard service `leaderboard-service` | clients and their buffers | subscribe, register, unregister, broadcast, send the current rows | a goroutine sending to itself; close against a late sender; a snapshot that races updates |

The bot sends records to the ingester (gRPC), which publishes them to Kafka
keyed by submission; the checker's consumer, router, engine, aggregator and
publisher are goroutines joined by bounded channels, all cancelled when one
fails; the sandbox manager starts benchmarks on bot-fleet machines over HTTP.

What makes each part correct: the golden engine must be exactly price-time; a
verdict may fail only real divergences and pass only what was verified; the
checker's goroutines must lose, repeat and misorder nothing, never panic on a
closed channel and never block the consumer; whatever the transport loses must
be visible; machines must never share cores among benchmarks, and work that was
accepted must get done; nothing may read as a pass that was not judged one, a
verdict must reach the leaderboard and stay, and a browser must end up with the
newest rows. `PROJECT.json` lists the hazards behind these, each at
its line.

## 2. Modules

| Module | Models | State and actions |
|---|---|---|
| `GoldenModel` | `orderBook` as pure operators | `Submit`, `Match` (its two nested loops are one, `MatchLoop`, an iteration of which, `FillFront`, trades with the first order of the best level), `CanFullyFill`, `Rest`, `Cancel`, on levels of queues as in the code |
| `OrderBook` | one book under any requests | `SubmitOrder`, `CancelOrder` |
| `PriceTimeRule`, `PriceTime` | abstract contract | a set of orders; the closed-form amount each maker gives, no loops and no levels |
| `Replay` | `Replay`, `diffAggressor`, `finalize` | folds over the events in seq order |
| `CorrectnessRun` | a serialized run end to end | bot, contestant's server (external), lossy delivery, verdict |
| `Watermark` | `router.go`, `processor.go`, `event_heap.go` | router, one processor per submission, their channels, idle timer, shutdown |
| `ReplayEngine` | the goroutines of `engine.go` | Run loop, workers, semaphore, flush, close |
| `TelemetryPipeline` | `thread_worker.cpp`, `grpc_telemetry.cpp`, ingester, partition | records from `next_seq_++` to the engine's buffer |
| `FleetPool` | `pool.go`, `fleet_commander.cpp` | concurrent Dispatch calls, poller, machines |
| `Checker` | `Watermark` and `ReplayEngine` joined by `orderedEvents` | the engine's Run loop is the reader of the processors' channel; one cancellation for both |
| `Scoreboard` | `aggregator.go`, `publisher.go`, the end of `main.go` | the map of states, the scores channel, the Redis hash, inserts; batches, verdicts, ticks, failures, kill and restart |
| `LeaderboardHub` | `hub.go`, `main.go` (handleWebSocket), `subscriber.go`, `state.go` | hub loop, four channels, two pumps and the snapshot goroutine of each client, what each browser shows |
| `SandboxLifecycle` | `handler.go` (submit), `worker.go`, `docker.go`, `db.go`, `cmd/main.go` | row, queue, jobs channel, workers, performance and cleanup goroutines, timers, restarts |

An `MC*` module gives each its TLC instance, and a `*_proofs` module the theorems
about it (section 4): `Verdict_proofs` has those of `OrderBook` and
`CorrectnessRun`, `Checker_proofs` those of `Watermark` and `Checker`. Definitions whose comment begins
with "Mutant of" are faulty variants of the definition that follows them; they
are not used by the specifications and serve to confirm that each property
would notice such a fault.

### Abstractions that matter

* **Prices** are ticks in the golden engine; the records of `CorrectnessRun`
  carry thousandths, so that the conversion `toTick` and the price band are
  exercised. Quantities, ids and tickers are small sets.
* **The contestant's server** is outside the repository. Honest, it follows the
  price-time contract and executes at the maker's price or at the aggressor's
  bound (the checker accepts both). It may also get one order wrong. A request
  whose answer is lost may be applied at any later moment, or never.
* A run may end at any point, also before its first attempt: the worker records
  the end marker even if its bot never got a connection (`thread_worker.cpp:194`
  and `:255`).
* `CorrectnessRun` lets the end marker arrive with the rest of the stream, so
  that the verdict rules are checked on their own; which records precede the
  marker is the matter of `TelemetryPipeline`.
* `ReplayEngine` abstracts a verdict to the events it was made from.
* **Channels** are sequences with a capacity; a send is an action enabled when
  there is room, so blocking is modelled. Cancellation may happen at any moment.
  `updates` and `out` keep what was sent as history, with a pointer to what was
  taken.
* **Timers** are nondeterminism: an idle timer may fire at any select.
* In `TelemetryPipeline` the audit window is flushed at any point between an
  attempt's await and the next; the transport loses a suffix of the batches on
  the wire; a record's publication may fail on its own. Performance metrics are
  not modelled.
* In `FleetPool` the choice of an instance is one step (it is under the mutex;
  the counters it reads are raised outside it, which is modelled). A failed
  POST is one the instance may have accepted, may still accept, or may never
  see.
* `SandboxLifecycle` has discrete relative time: timers count down with `Tick`,
  and a sleep that has run out ends before the next tick. All other steps
  (builds, database and Docker calls, the wait for the fleet) take any number
  of ticks. The fleet is reduced to what `FleetPool` shows of it: it accepts a
  benchmark, which waits for cores for at most `MaxDelay` ticks. A shutdown is
  one step with a crash, since the cancelled context makes a worker's remaining
  calls fail; a failing status update is modelled on its own. Docker may fail to
  remove a container (`RemoveContainer`, for at most `MaxFaulted` of them): the
  code logs it and never tries again, so the container stays, and the history
  variable `unremoved` says so. Images are left
  out, and so is the operator who re-queues a job by hand.
* `Checker` instantiates `ReplayEngine` with its input channel read off
  `Watermark`'s `out`, so that the two modules are used unchanged: an event is
  known to the engine by its place in that stream.
* In `Scoreboard` a score's metrics are the successes and the bucket of each
  percentile; the division by the elapsed time and the table of bucket bounds
  are left out. An engine judges a submission once (`OneVerdictPerSubmission`),
  but after a restart records that were not committed come again, so a
  submission may then be judged anew, in any way. HSET and PUBLISH are one
  pipeline, which may fail before or after it took effect. Batches and verdicts
  waiting in the aggregator's input channels have not happened yet.
* In `LeaderboardHub` a row is the version of a submission's score. Redis may
  lose any update on its way to the subscriber (`LoseUpdate`: pub/sub keeps
  nothing for a subscriber that is away). Three history variables keep what
  leaves a client behind: `lost` (by Redis), `missed` (fanned out between a
  client's snapshot and its registration) and `overtaken` (followed by an older
  row of the snapshot). A client is
  one connection (a browser that reconnects is another client). The loop of a
  broadcast over the map is one step per client, in any order. A panic, of which
  the process has one kind, is one step with the restart of the container. The
  order of the snapshot's rows is arbitrary.

## 3. Runs

| Run | Bounds | Shows |
|---|---|---|
| `order_book` | 4 orders, 3 prices, 2 quantities, all types, cancels | index and queue invariants, refinement of `PriceTime` |
| `correctness_run` | 4 attempts, 1 without a 200, 1 record lost, 2 tickers, one wrong match | verdict sound and complete; tolerance never exceeded |
| `lost_cancel_answer` | 3 attempts, 1 lost answer | violation (finding 2) |
| `watermark` | 3 events of two submissions, lateness 2, one-element channels | order up to lateness, no loss, the marker flushes, progress |
| `replay_engine` | 3 submissions, 3 events, 1 slot, one-element channels | one verdict on the whole stream, safe close, no stall |
| `checker` | 2 events of two submissions, 1 slot, one-element channels | a verdict covers what arrived before its marker; every run is judged |
| `telemetry_pipeline` | 5 seqs, 2 trades per answer, 2 streams, 1 dropped record | no silent loss; a completed run is judged |
| `trailing_fills` | 3 seqs, no failure | violation (finding 1) |
| `fleet_pool` | 2 calls, 2 machines, 1 failure | exclusive cores, no stuck Dispatch, accepted work runs |
| `sandbox_lifecycle` | 2 submissions, 1 worker, 1 restart, failing calls for 1 submission | custody of jobs and containers (but for one failed removal), container outlives its benchmarks, every job finishes |
| `scoreboard` | 2 submissions, 2 batches, a verdict each, 1 fault (failing pipeline, signal or kill), one-element scores | nothing fails open, rows do not go back, verdicts are published, windows and percentiles exact |
| `leaderboard_hub` | 2 clients, 1 of them flaky, 2 updates of a row, one-element channels | no double close, a kept client is current but for lost, missed and overtaken versions, a client that leaves is released unless the hub blocks |

Why the bounds are enough for the cases that matter. Four orders put two levels
and two queue positions in front of an aggressor that crosses them partly. Four
attempts let an order rest, its loss taint the book, another match wrongly and
one on a second ticker stay trusted; the tolerance is set to 60 % there because
with four attempts 5 % could never be met with a loss (the violation run uses the
code's 5 %). Lateness 2 against timestamps 1, 3 and 4 gives events that are
early, out of order but in time, and late. One slot and one-element channels
make every send and acquire block. Two streams let one break and another take
over with windows lost between. Two Dispatch calls and one failure give three
benchmarks for two slots. In `sandbox_lifecycle` each duration is one tick, the
grace period two and the wait for cores at most one: what matters is that the
wait is shorter than the grace period (300 s in the code) and that the dispatch
window is not longer than the safety buffer (600 s both); with a wait as long as
the grace period a container can be removed under a running benchmark.

In `checker` two events suffice for an event on either side of its marker, in
arrival and in event time, for a straggler, and for two markers in front of one
replay slot; `watermark` has the third event, which the order properties need.
In `scoreboard` two batches of different lengths make a merge, a second window
and a percentile that is not in the last bucket; one fault at any moment is a
crash in each state, and the process that follows it is checked too. In
`leaderboard_hub` a one-element send buffer makes a client slow after one
update, and the second client shows that it keeps what the first one loses; two
versions of one row are what it takes to lose, miss or overtake one; and with
an unregister channel of one the hub can block on itself (`hub.go:72`) at the
first client that is too slow while another one leaves.

Deadlock checking is off where the system comes to rest by design: a run that
has been judged, a service whose input has ended. It is on for `order_book`
and `fleet_pool`.

### Fairness

* `Watermark`: goroutines run when they can, the idle timer fires in a silence
  (it is re-armed after each flush) and the engine keeps receiving (which
  `NeverStallsUpstream` shows of it). Nothing obliges the consumer to deliver.
* `ReplayEngine`: weak fairness of the Run loop; strong fairness of each
  worker, because Go queues the senders of a channel first come, first served.
  `NeverStallsUpstream` assumes nothing of the aggregator; that a run is judged
  is checked in `Checker`, where the aggregator keeps receiving.
* `TelemetryPipeline`: the ingester's handlers and the checker run when they can.
* `FleetPool`: Dispatch calls, threads and the ticker of the poller go on; an
  instance accepts a request whose client still waits. Failures, of which the
  bound allows finitely many, are never obliged to happen.
* `SandboxLifecycle`: goroutines, time and the fleet go on; a correctness phase
  is accepted in the end (`DispatchReturns` of `FleetPool`), a performance phase
  need not be. Restarts and failing calls are never obliged to happen.
* `Checker`: as `Watermark` and `ReplayEngine`, the aggregator's receiving in
  place of the environment's.
* `Scoreboard`: the aggregator, its ticker and the publisher go on, and a
  stopped process is restarted (`restart: always`). Nothing has to arrive.
* `LeaderboardHub`: the hub, the subscriber and the deferred calls of the pumps
  go on. A write to an open connection may take for ever: that is what makes a
  client slow.

### Findings

1. **The last window's fills come after the end marker** (`trailing_fills`).
   `send_batch` packs orders, the marker among them, before trades. The engine
   judges at the marker and ignores the rest, so a correct run whose last
   window has a trade is counted as having gaps.
2. **A lost cancel answer can fail an honest server** (`lost_cancel_answer`).
   A cancel has no ticker, and `markTaint` does nothing without one.
A request in flight when the run stops leaves a seq without a record
(`thread_worker.cpp:325`, against the comment at 327); `NoSilentLoss` shows that
it is always seen as a gap.

### Configurations beside the runs

Four more configurations ask for what a comment or a document says and the code
does not do; TLC answers each with a short behaviour.

* `EmptyRun.cfg` (`MCCorrectnessRun`, `PassIsEarned`): "a submission that was
  never verified never silently reads as correct" (`docs/matching-spec.md:144`),
  but a run in which nothing was attempted, since no connection could be made,
  still sends its end marker (`thread_worker.cpp:194`), and the engine, with a
  complete stream, no gap and nothing unverified, judges it correct
  (`engine.go:415`).
* `Oversubscribed.cfg` (`MCFleetPool`, `SlotFreeOnArrival`): Dispatch "blocks
  until a slot is free" (`pool.go:100`), but choice and increment are not one
  step, and a poll resets the counter: a machine with two slots accepts three
  benchmarks. Its cores stay exclusive and the third one waits, while the
  sandbox manager's timers already run.
* `PhaseOverlap.cfg` (`MCSandboxLifecycle`, `PhasesSequential`): "the two phases
  run sequentially" (`worker.go:301`), but the performance phase follows the
  acceptance of the correctness phase by a fixed time, and acceptance is not
  start. A fifth configuration, `BoundedOverlap.cfg` (`OverlapWithinWait`),
  passes: it shows, with waits of up to three ticks against a gap of one, what
  the code does guarantee.
* `HubBlocked.cfg` (`MCLeaderboardHub`, `HubNeverBlocks`): "the Hub never blocks
  on a slow client" (`hub.go:14`), but it sends to its own unregister channel
  and blocks for ever when that is full.

What the passing runs had to leave room for, and the code does:

* `PanicAndRestart`: a client dropped, or gone, before its current rows were
  sent panics the leaderboard service (`main.go:173` against `hub.go:58`).
* A registration is queued while the snapshot is read: an update in between
  reaches the client in neither way; a row of the snapshot can be sent after
  a newer update; and an update can be lost between Redis and the subscriber.
  `SettledBrowserIsCurrent` excuses a browser only for the very versions that
  went one of these ways (`missed`, `overtaken`, `lost`), and only until the
  next version.
* The hub blocks on its own unregister channel: `GoneClientReleased` promises
  the release of a client unless that happens.
* A container whose one removal fails stays (`unremoved` in `ContainerOwned` and
  `EveryJobFinishes`).
* A client whose unregistration the hub takes before its registration stays in
  the map until it is too slow for an update (`GoneClientReleased` starts from
  registered clients).
* A lost end marker: the comment at `processor.go:114` expects the idle flush to
  let the engine finalize, but only the end of the input does (`RunsJudged`), and
  the consumer closes it only when the service is cancelled, so the verdict
  depends on which wins.
* After a restart a judged row goes back to unverified with the next metrics
  flush (`RowNeverGoesBack` is about one process); it never turns into a pass
  (`NeverFailsOpen`).

## 4. Proofs

Each theorem holds for every value of the constants that the module's named
assumptions allow: finite sets, positive capacities, and the few facts about the
constants that the code fixes (below). The invariant a run checks is seldom
inductive as it stands; for each module the conjuncts that make it so are named
definitions of its `*_proofs` module.

| Module | Theorems (property) | Inductive invariant |
|---|---|---|
| `Verdict_proofs` | of `OrderBook`: `LiveIndexIsExact` (`LiveIndexExact`), `BookNeverCrossed` (`NeverCrossed`), `LevelsStayInOrder` (`LevelsInPriorityOrder`), `BookImplementsPriceTime` (`ImplementsPriceTime`) | `BookInv` |
| `Verdict_proofs` | of `CorrectnessRun`: `HonestOrdersAreNeverFailed` (`HonestOrdersNeverFailed`), `DivergencesAreFailed` (`DivergenceAlwaysFailed`), `CleanRunsAreCertified` (`CleanRunCertified`), `PassIsWithinTolerance` (`PassWithinTolerance`) | `VerdictInv` (`RunFaithful`), `RunInv` |
| `ReplayEngine_proofs` | `TypeCorrect` (`TypeOK`), `CloseIsSafe` (`NoSendAfterClose`), `JudgedOnce` (`OneVerdictPerSubmission`), `SemaphoreCounts` (`SemaphoreExact`), `WholeStreamJudged` (`VerdictOnWholeStream`) | `OwnershipInv`, `CustodyInv` |
| `Checker_proofs` | of `Watermark`: `WatermarkTypes` (`TypeOK`), `EachEventOnce` (`NothingLostOrRepeated`), `OnlyLateOutOfOrder` (`InOrderUnlessLate`), `MarkerFlushes` (`EndFlushesBacklog`) | `PlaceInv`, `OrderInv`, `BacklogInv` |
| `Checker_proofs` | of `Checker`: `VerdictsCoverArrivals` (`VerdictCoversArrivals`), `CheckerRefinesParts` | `GradingInv` |
| `Scoreboard_proofs` | `ScoreboardTypes` (`TypeOK`), `FailsClosed` (`NeverFailsOpen`), `RowsOnlyAdvance` (`RowNeverGoesBack`), `WindowsExact` (`WindowExact`) | `BoardInv`, `OrderInv`, `WindowInv` |
| `LeaderboardHub_proofs` | `ChannelClosedOnce` (`ClosedOnce`), `KeptClientIsCurrent` (`SettledBrowserIsCurrent`) | `ClosureInv`, `DeliveryInv` |
| `TelemetryPipeline_proofs` | `LossShows` (`NoSilentLoss`) | `PipelineInv` |
| `SandboxLifecycle_proofs` | `LifecycleTypes` (`TypeOK`), `HeldInOnePlace` (`HeldOnce`), `EveryContainerOwned` (`ContainerOwned`), `ContainerOutlives` (`ContainerOutlivesBenchmark`), `OverlapIsBounded` (`OverlapWithinWait` of `BoundedOverlap.cfg`) | `PlaceInv`, `StageInv`, `TimeInv`, `OverlapInv` |
| `FleetPool_proofs` | `CoresNeverShared` (`CoresExclusive`), `FleetTypesKept` (`TypeOK`) | `CoreInv`, `LoadInv` |

How the arguments go, and why the strengthening is needed.

* **Golden engine.** The contract (`PriceTimeRule`) says in one line what each
  maker gives: the least of what it has and what is left after everything ahead
  of it. The engine gets there in two nested loops that eat the queue they
  iterate. `BookInv` says of a book that every side is a ladder of distinct
  prices, best first, that no level is empty, that a queue is in the order of
  arrival, that the live index has exactly the resting orders, and that no bid
  reaches an ask. The loop has an invariant of its own: what was taken is
  what the rule gives to the orders ahead (`Full`, all of it, or `Part`, the
  last one), and what is left of the ladder is the rest in the same order. It is
  proved by induction over the trades: each takes at least one unit, so that the
  quantity bounds them. The refinement mapping forgets levels and queues: the set of
  resting orders (`RestingOrders`) and of trades (`TradeSet`).
* **Verdict.** The claim is about a fold over what a lossy transport delivered,
  against a server the checker never sees. `WholeStream`: the events sorted by
  seq and rid of duplicates are the bot's log, if none is missing; if one is,
  every book is tainted and no order can be failed (`HoleNeverFails`). The
  replay of a log one record longer is one more round of the loop
  (`ReplayOneMore`), so what holds of the replay of the log so far can be kept
  as an invariant of the run, although the checker replays only at its end.
  That invariant is `RunFaithful`. Its core (`Good`): on every ticker that is not
  tainted the golden book holds the server's resting orders, under the bot's ids
  (`Faithful`), each order so far is late or was diffed as correct, and a ghost
  concerns a tainted ticker. Server ids and bot ids are issued in the same
  order, so the renaming between them is increasing (`Rising`) and respects time
  priority; the contract therefore gives renamed fills on renamed orders
  (`FillsRenamed`, `AfterRenamed`), and by part 1 the golden book does what the
  contract says. A wrong answer differs from the expected one in the total, in
  what some maker gave or in a price outside the band (`WrongDiffers`), which is
  what `diffAggressor` compares (`DiffSays`). It makes the run `Diverged`: some
  order is diffed as incorrect, is not late, and no earlier order of its ticker
  was diffed otherwise than correct, so the diff loop cannot have tainted the
  ticker before it gets there (`DivergedHard`). `Onward` is why this stays so:
  what happens later changes no earlier order's diff or lateness, since taint is
  only added at the current seq. `Good` needs that no cancel was left unanswered:
  that is finding 2, and why `HonestOrdersNeverFailed` says so. `RunInv` counts:
  the attempts and unanswered attempts of the replay are those of the log, and
  the gaps are the records lost (`PassCounts`).
* **Engine.** `OwnershipInv`: a submission has a worker only if it is finalized, a
  finalized one has no buffer, and a verdict on `updates` belongs to a worker
  that is done or to the flush. `OneVerdictPerSubmission` alone does not say that
  a worker about to send has not sent before. `CustodyInv` follows a submission's
  events from the buffer into the worker's hands and into the verdict: exactly
  one of them has the stream so far, and it ends with the first marker unless
  the loop has ended.
* **Watermark.** `PlaceInv`: an event is in one place, ids number the arrivals and
  a channel is in the order of arrival (`Fifo`), so that what a Processor
  receives is newer than all it has. `OrderInv` adds that what has left the heap
  was behind the watermark or flushed (`Passed`), hence that an item some other
  has overtaken came late and after that one had left (`HeapLate`).
  `BacklogInv` adds that nothing older than a marker stays in the heap. That
  `Root` is the least item is proved from the well-foundedness of the numbers.
* **Checker.** A step of the composition is a step or a stutter of `Watermark`
  (`ReorderingStep`) and of `ReplayEngine` (`EngineStep`): what a Processor sends
  is an `Offer` to the engine, `RouterFinish` is its `CloseIn`. So both parts'
  invariants hold of the whole, and the lemmas of `ReplayEngine_proofs` are used
  through an instance of it. `GradingInv` adds what joins them: the engine has
  seen what it took from `out`, in order (`SeenIsTaken`); what was in `out` when
  an event was received arrived before it (`AtAfter`), so an event that arrived
  before a marker cannot be one of those that may follow it late; and Run leaves
  its loop only when `out` is closed and taken (`LoopEnds`), by which time a
  service that was not cancelled has nothing left anywhere (`Drained`).
* **Scoreboard.** `BoardInv`: without a decision of this process an entry is
  unverified, and it is a pass only if the engine ever decided so. `OrderInv`
  lines up, for each submission, the row in Redis, the scores on the way and the
  entry of the map: each may be followed by the next (`Follows`). `WindowInv`:
  the counters of an entry are sums over the batches of its window
  (`HoldsBatches`), bucket by bucket, whatever their lengths; a percentile is
  exact because the first bucket that reaches the rank is a least number
  (`PercentileExact`).
* **Leaderboard hub.** `ClosureInv`: a client is in the hub's map only after it
  left `register`, which it enters once, with its channel open. `DeliveryInv`
  says of each client that is registered or about to be, and of each submission,
  that the newest version is shown, or
  is the last one on its way (in the feed, in `broadcast`, at the hub, in the
  client's buffer), or is still to come with the snapshot, or passed the client
  by in one of the three ways the property names. What makes it inductive is that
  the channels are first in, first out (`NewestLast`), that a snapshot holds
  nothing newer than what is published (`SnapshotOld`), and that the hub's map
  does not change while a row is fanned out (`HubHolds`).
* **Telemetry.** The engine sees only seqs. `PipelineInv`: no two records have the
  same seq, every reserved seq is that of a record or of the request in flight,
  the marker has the last, and whatever travels was recorded. Counting the
  received seqs against the marker's then shows the hole (`NoHole`).
* **Sandbox.** `PlaceInv` makes a submission's stage a function of the state,
  `StageInv` says what status, container and goroutines each stage has, and
  `TimeInv` compares the timers: a benchmark that waits or runs has less time
  left than the dispatch, the countdown and the grace period leave it. `OverlapInv`
  compares the two benchmarks of a submission: what is left of the correctness
  phase once the performance phase begins is at most the wait less the gap.
* **Fleet.** `CoreInv`: only a benchmark between claim and release holds cores, and
  a POST always concerns one that has not existed before. `LoadInv`: a
  machine's count is the number it runs, and what the pool believes is at most
  what it has sent and short of it by at most the failures.

Assumptions on the constants, besides bounds: `RunBounds` (the bot asks for
positive quantities at non-negative prices, no ticker is the empty string, the
tolerance is a percentage above 0), `NoClientIsNone` and `NobodyIsNoSub`
(the value that stands for none is none of the set) and `DispatchEndsFirst` (the
dispatch window, 600 s, is shorter than a benchmark plus the safety buffer,
600 s). One theorem has a hypothesis on the environment: `ContainerOutlives`
needs `MaxDelay < Grace`, that a machine's cores are free within the 300 s of
the grace period, which the code does not enforce. `OverlapIsBounded` has none:
the phases may overlap when a benchmark waits for its cores longer than the gap
(`PhaseOverlap.cfg`), and the theorem bounds what is left of the first one by
the excess.

Every invariant, action property and refinement that a passing run checks is
proved. Only model-checked are the liveness properties (`EventuallyEmitted`,
`NeverStallsUpstream`, `RunsJudged`, `CompletedRunJudged`, `DispatchReturns`,
`AcceptedRuns`, `EveryJobFinishes`, `VerdictPublished`, `GoneClientReleased`):
liveness under fairness is beyond the prover. Those of the violation runs and of
the configurations of section 3 do not hold.

What the theorems about the verdict take from outside the code is the server of
`CorrectnessRun`: honest, it is the price-time contract; wrong, it errs in the
ways of `WrongFills`, and its book follows what it reported. They say nothing of
a server that reports what it did not do.

Induction over data. The library's induction theorems take an operator as a
parameter, which the provers cannot instantiate. Where a proof needs induction,
over the trades of an order, the records of a stream, the orders of the diff or
the size of a set, it goes through the set of the numbers
for which the claim holds: a set that has 0 and, with n, n + 1 is all of `Nat`
(`SetInduction`, from the library's `NatLessThanWellFounded`). A sum over a set is
a fold that the library defines by `CHOOSE`; `FoldExists` shows that there is
one, and `SumOfRest`, `SumWith` and `SumOfSums` are what the proofs use of it.

## 5. Not modelled, and the plan

Not modelled: HTTP framing and JSON, the random choice of orders, the bots'
latency histograms and the performance phase's load, the division of a window's
successes by its length (`aggregator.go:172`: the first window starts with the
first batch, so its rate is overstated), archive extraction and docker builds
(one way for a job to fail, in `SandboxLifecycle`), configuration, message types,
templates and the sorting of rows, Kafka offsets and rebalancing, the reference
contestant server (`test/main.cpp`).

Next:

1. Two correctness runs of one submission at once, after a POST that timed out
   (`pool.go:137`), in one stream of records.
