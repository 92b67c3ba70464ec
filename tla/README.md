# A TLA+ model of the reconciliation engine

TLA+ modules, TLC configurations and TLAPS proofs about `reconciliation_engine`:
the daily control that fetches equity bars from three vendors, archives them as
immutable Parquet evidence, compares them, commits one run to DuckDB and notifies;
and the real-time side that classifies and journals a vendor feed. Paths below are
relative to the repository root (in `PROJECT.json` they start with `src/`).

    tlc -workers 2 -config BatchLineage.cfg MCBatchIngestion
    tlapm PartitionIngestionProofs.tla

## 1. Inventory

| Component | State it keeps | Operations | Talks to | What is hard | What makes it correct |
| --- | --- | --- | --- | --- | --- |
| Partitioned ingestion: `scaling/`, `storage/partitioned_data_lake.py` | raw and normalized Parquet partitions; rows in `work_partitions`, `provider_request_metrics`, `quarantine_records` | register, mark running, pool of workers, two checkpoints each, record outcomes | providers, DuckDB, data lake | kills between and inside writes, provider failures and restatements, partial failure of a pool, releases between attempts | evidence is never replaced; a retry continues from it; the manifest does not overclaim; a returned universe is complete |
| Batch run: `batch.py`, `notifications.py` | none of its own; the run's archives and `pipeline_runs` row | lookup, probe archives, ingest, archive, compare, persist, notify | ingestion, data lake, DuckDB, webhook | several processes with one deterministic run id, kills everywhere, a webhook that times out | one final outcome with matching evidence; everybody gets the same answer; one message |
| Data lake: `storage/data_lake.py` | one Parquet file per run, source and layer | write once, read, exists | batch run | check-then-write on a path | a complete file never changes |
| Control store: `storage/duckdb.py` | one DuckDB file | upserts, one transaction per run, event journal | everybody | one writer at a time, `INSERT` versus `ON CONFLICT` versus guarded `UPDATE` | rows agree with files and with each other |
| Feed monitor: `realtime/network_transport.py` | sequence tracker (process memory), journal rows | connect/receive, validate, classify, persist | TCP/TLS or multicast peers, DuckDB | loss, duplication, reordering, reconnects, restarts | each loss is counted once; what the journal lacks of them is known |
| Equity comparison: `reconciliation/` | none | outer join per provider pair, thresholds, exceptions | batch run | one-sided rows, NaN comparisons, boundaries | every key of every pair gets exactly one verdict |
| Option and futures comparison: `reconciliation/`, `options_batch.py` | option run rows | keyed match, persist | providers, DuckDB | as above | as above |
| Alerts: `alerts.py` | last delivery per fingerprint | evaluate rules, dispatch | DuckDB, webhook | check under a lock, post outside it; time-outs | a suppressed alert was really delivered; a lasting condition is reported |
| Anomaly pipeline: `realtime/publisher.py`, `subscriber.py`, `anomaly_scorer.py` | last price per symbol, sequence counter, journal | publish, score, journal, republish | ZeroMQ, DuckDB | PUB/SUB drops, kill between journal and publish, restarts | what is published is journaled; scores use the previous tick |
| Dashboard: `dashboard.py` | live feed state | poll, observe, snapshot | ZeroMQ, DuckDB | time, sticky warnings | `LIVE` only with a fresh valid tick |
| Export API: `api/` | query slots | list, get, export | DuckDB snapshot | several queries per response, capacity | whole releases in order; known limits of a walk over pages; slots are returned |
| Snapshots, retention: `storage/snapshot.py`, `retention.py` | snapshot file | copy and rename; plan and delete | API, batch run | kill during a copy, readers of the old file | readers see a whole snapshot |
| Massive client: `ingestion/massive.py` | next permitted call time | wait, get with retries, paginate | worker threads, vendor | lock held while sleeping, retries | spacing between calls of all threads |
| Other adapters, observability, security, smoke, dbt, orchestration, benchmarks | none that matters here | | | | not modelled: stateless calls, wrappers, SQL views, tooling |

The hazards, each at its line with the properties that would notice it, are in
`PROJECT.json`.

## 2. Modules

    CheckpointedIngest      abstract: what ingestion promises to a batch run
      ^ implemented by PartitionIngestion
    LogicalRun              abstract: what a run id promises to its launchers
      ^ implemented by EquityBatch
    BatchIngestion          PartitionIngestion inside the attempts of EquityBatch
      ^ implements EquityBatch with one process
    Reconciliation          what the constant Compare of EquityBatch stands for
    FeedMonitor             the monitor, its tracker and the journal
    FrameStream             abstract: what a stream transport promises to its reader
      ^ implemented by TcpTransport
    LossyFeed               abstract: what the live panel promises about the journal
      ^ implemented by AnomalyPipeline
    ReleasedView            abstract: what the export API promises about the data behind it
      ^ implemented by ExportApi
    AlertDispatcher         evaluations and the dispatcher they share
    MassiveClient           worker threads, one limiter, retries and pages
    MC...                   instances for TLC
    ...Proofs               theorems

**PartitionIngestion** is `ingest_equity_partitions` and `_execute_partition_inner`.
One variable per file layer (`raw`, `norm`), one per manifest or metric column,
one program counter for the coordinator (`pc`) and one per task (`stage`). `Register`,
`MarkRunning`, `FinishPartition`, `RecordMetric` and `RecordQuarantine` are one
short DuckDB connection each, because the code opens one connection per statement
and can be killed between any two. A task goes through `ReuseNormalized` /
`ReuseRaw` / `CallProvider`, `FetchAnswers`, `EndRawWrite`, `Normalize`,
`EndNormWrite`, as in `_execute_partition_inner`; the read that lies outside the
`try` is `EscapeOnTornNormalized`. A Parquet write is two steps: DuckDB creates the
file under its final name (`Torn`) and fills it. Tasks start in submission order
while a thread is free (`CanStart`). A provider may answer anything, and differently
each time; the normalizer is the constant `Canonical`, one function per release, and
`Deploy` releases the next one between attempts. `PartitionOutcome.raw_archive_path`,
latencies and row counts are left out, and the reason of a quarantine record is one of
four kinds of error. `Crash` forgets the process and keeps files and rows.

**EquityBatch** is `batch.main` for one run id and any set of `Runners`. Of ingestion it
sees one checkpoint per source and what comes back: `IngestSource` takes the
pinned bars or pins new ones, `IngestReturns` hands all of them over, `IngestFails` is its exception. That ingestion
takes no other steps is what `BatchIngestion` is for. Archives are
numbered in the order `main` writes them (raw and normalized of each source).
`MissArchive` and `CreateArchive` are apart, because between `path.exists()` and the
write another process may create the file; the second writer then truncates it or
loses it (`LoseFile`), and two ingestions under way may pin different bars
(`Racing`). `Persist` is the single transaction of `persist_equity_run`, `Reread`
its loser. `StepRaises` is an exception of a DuckDB statement or of the comparison, a `ValueError` of its
validation included. `WebhookFails` covers a refusal and a time-out after the message
arrived. The rules are the constant `Compare`; they do not change within a run,
because the rule version is part of the run id (`build_run_id`).

**BatchIngestion** composes the two for one process: it extends `PartitionIngestion` and has `EquityBatch` as the instance `Batch`. Outside
ingestion `main` takes the steps of `EquityBatch` (`MainStep`, `MainFault`), `Probe`
that finds an archive missing is the `Launch` of an ingestion (`Call`), the coordinator and its workers take the steps of `PartitionIngestion`
(`Inside`) until it has returned or raised (`Return`, `Raise`), a kill takes both (`Kill`), and a release happens between attempts. A partition is
a source, that is a provider with one bucket of symbols (`RECONCILIATION_SYMBOL_BUCKETS` 1). Nothing of the contract is
put in: the checkpoints are the readable files that ingestion has left (`Checkpoints`), the frames are those of its tasks, and `ImplementsBatch` says
that this is a behaviour of `EquityBatch`, hence of `LogicalRun`. Faults are bounded by `MaxFaults` over both layers; because a
torn file makes ingestion fail again without a new fault, the refined batch is allowed one failure more per launch
(`FailureBound`). `archive_equity_source` normalizes once more what ingestion returned: canonical bars are taken as a fixed point of every release's normalizer.

**Reconciliation** is `reconciliation/` with the three ways it is called: a dict of equity
frames (`batch.main`), a dict of option frames (`options_batch.main`) and two futures frames with
a contract map. A frame is a set of rows with a raw key, which stands for the key columns as the
provider spells them, and a close, or `Absent` for NaN. `ComparePair` is one round of the loop over
`combinations`: validation (`Invalid`), the outer join (`Merge`), and the passes that overwrite
`status` and `break_reason` in the code's order (`EquityStatus`, `EquityReason`, `ChainReason`,
`OptionReason`, `FuturesReason`). `Raise` is the `ValueError`, after which the caller has nothing.
`Conclude` derives the run's status and the exceptions as `batch.main` does, `Replay` is
`replay_archived_run`. Closes are natural numbers and percentages fractions of `Unit`, so that a difference can be
exactly at a limit; rounding of binary floats is left out. An absent percentage is 0 (with an absent
break percentage any warning percentage is allowed), an absent warning tolerance `Absent`. Empty frames have typed columns, as those read from Parquet have.

**FeedMonitor** is `monitor_transport`: `Receive` is one event classified by
`SequenceTracker.observe` (`Observation`, `Slide`), `Persist` is
`persist_realtime_event`, `Start` an empty tracker and `Stop` any end of the
process. The two are separate steps, so that a kill falls between them. Any event may
arrive at any time, again or never, which is what a multicast group can do. The event
id is the derived one (`from_mapping`), so a number that arrives again is the same
event; vendor-supplied ids are left out. `recent` is the deque; its counts are how often it
holds a number. The journal is kept when a process ends and another starts. `first`, `arrivals`, `advances`, `reported`
and `inherited`, the events that were journaled before the process started, are history.

**TcpTransport** is `TCPTransport.receive` in both framings, called again and again as
`events()` does, which stops at the first exception. Bytes are offsets in the stream of one connection:
the peer appends frames (`PeerSends`), `Recv` takes any chunk that has arrived, the buffer is what was received and
not taken, and `TakeLine`, `TakeLength`, `TakePayload`, `RefuseLine` are the ways out of the two reading loops. A failure
of `recv` or `connect` closes the connection and counts an attempt (`Fail`); `Connect` clears the buffer. What a
payload says is up to the peer: `HandOver` succeeds or raises. TLS, back-off times and the sockets are left out. A
caller that goes on after "frame exceeds" would find the oversized frame still in the buffer: it is refused for ever in
newline mode, and in length-prefixed mode the first bytes of its payload are read as a prefix.

**AnomalyPipeline** is three processes and two ZeroMQ topics. The publisher (`Publish`) cycles through its
prices; the scorer takes a tick and annotates it (`Score`, with `ScoreTick` and `Exceeds`), journals it (`Persist`) and
sends it on (`Republish`), three steps that a kill can separate; the dashboard polls (`Observe`, `ObserveInvalid`) and makes
a `Snapshot`, which prunes the anomalies. Everything a scorer knows is lost when it ends, and nothing it meets is caught: an
invalid tick (`Refuse`), a time-out or a database error ends it (`StopScorer`). A topic is a queue
that may drop any message when it is sent (`Deliver`), is cut when its publisher ends and lost when its subscriber does; while an
endpoint is free, another local program may bind it (`Stray`). A scorer is assumed to run with a journal and to take longer to
start than the 5 ms that exchange timestamps lie back (`ended`): two scorers that number a tick of one
timestamp alike would make one event id. `LossyFeed` sees only the journal and the positions in it of what any dashboard has shown; `shown`, and the times of the anomalies that
this dashboard observed (`anomalous`), are history.

**ExportApi** is `api/service.py` with the two ways its file changes: `Commit` is the transaction of
`persist_equity_run` on the live file, `BeginCopy`, `EndCopy`, `Replace` and `StopCopy` are `publish_snapshot`. Each query is
`ReadOnlyDuckDB.connection`: a slot (`Acquire`, or `Busy` after the time-out), a connection (`Connect`, `Unavailable`), the query
(`CountRows`, `ReadPage`, `Export`, `Look`) and `Close`, which the `finally` runs whatever happened (`QueryFails`). A list page is two of
them, so anything may happen in between. The model relies on two facts about DuckDB: connections of a process that are open at the same time
share one instance of the file, so an overlapping reader keeps an old release (`instance`) after the file was replaced; and a file has one
writer or many readers, across processes. Rows are an `ORDER BY` sequence: `First` and `Page` are the sets `LIMIT` and
`OFFSET` can return; rows with equal sort keys come in any order, in each query anew. Of a request, `asked`, `first` and `read` are history. `ReleasedView` sees only what releases hold and which one the last query read.

**AlertDispatcher** is `evaluate_operational_alerts` and `dispatch` for threads that share a dispatcher. `Evaluate` reads all aggregates at once: a
reader of the file shuts writers out. `Dispatch` reads the clock, `Suppress` and `Post` are what is decided under the lock, and
`PostFails`, `Count` and `Stamp` happen after it; `PostFails` and `Count` are the read and the write of `delivery_failures += 1`. A post that
timed out after it arrived is one that fails. The control store is any of the constant `Databases`; a rate is compared as whole
numbers. `since` and `delivered` are history.

**MassiveClient** is `ingestion/massive.py`. Time is in timers that run down together; `Sleep` takes the limiter's lock until
`Wake`, `Permit` sets the next time from the clock read after the sleep. Each thread makes a client (`Begin`, with
`_get_global_limiter`), reads a list page by page (`Call`, `Answer`), and repeats what fails (`Fail`, `Retry`) or gives up.

**CheckpointedIngest**: a partition's bars are pinned once; a return delivers exactly
the pinned bars of all partitions. **LogicalRun**: the first conclusion is stored and
final; whoever concludes is answered with it. **FrameStream**: the frames handed over on a connection
are a prefix of those sent on it. **LossyFeed**: what is shown was journaled as shown, nothing is shown twice or after a later row.
**ReleasedView**: releases only add rows, a query reads one whole release, and none reads an older one than a query before it.

Definitions called mutants sit before the definition they spoil. They are not part of
the specifications: each is a plausible bug that the named property must notice.

## 3. Runs

| Run | Instance | Result |
| --- | --- | --- |
| `BatchLineage` | 1 process, 2 sources of one partition each, 2 workers, 2 releases, 3 launches, 2 faults of any kind in either layer, torn files, fairness | of ingestion: evidence chain, true manifest, counters, recorded outcomes, immutable archives, final SUCCESS, refinement of `CheckpointedIngest`; of the whole: refinement of `EquityBatch`, outcomes traceable to raw answers, no second alarm, and after the last fault one launch stores an outcome unless a file is torn |
| `IngestionTorn` | 1 partition, 1 fault | **violated**: see finding 1 |
| `BatchOverlap` | 2 processes, 3 launches, 1 fault, torn files, symmetric processes | refinement of `LogicalRun`, true alarms |
| `BatchSilent` | 1 process, 1 fault, fairness | **violated**: see finding 2 |
| `FeedTracking` | 3 processes on one journal, 1 stream, numbers 0..3, window 2, 4 arrivals each | tracker and gap ledger agree with the arrivals; the journal lacks only losses that an event of an earlier process, or the last event of a stopped one, revealed |
| `FeedRestartLoss` | 2 processes, 1 stream, 4 arrivals | **violated**: see finding 3 |
| `TcpFrames` | both framings, frames of 0, 1, 3 and 4 bytes, up to 3 on a connection, limit 3, prefix 2, chunks up to 4, 2 retries, fairness | refinement of `FrameStream`, exact limits and a bounded buffer, a failing connection costs no complete frame, each call ends |
| `AnomalyFeed` | 2 symbols, 3 ticks, 3 time units, topics and polls of 2, 1 end of a process, 1 stray message or failing poll | refinement of `LossyFeed`, flags recomputable from the journal, bounded lag of the panel, exact window of anomalies |
| `Comparison` | 3 providers, 3 raw keys, frames of up to 2, 1 and 2 rows | complete joins, named reasons, ordered and symmetric verdicts, SUCCESS means agreement, exceptions for breaks |
| `AlertCooldown` | 2 callers, 2 providers, cooldown 1, 2 faults (failing posts, restarts), fairness | cooldowns hold for deliveries without overlap, a quiet evaluation has delivered its alerts, a lasting condition is delivered |
| `ExportReleases` | 2 clients, 1 or 2 slots, 3 rows of which 2 have one sort key, pages of 1, downloads up to 2, 3 releases, live file or snapshot | refinement of `ReleasedView`, slots come back, complete downloads, what a walk can miss |
| `MassiveSpacing` | 2 threads, lists of 2 pages, retries, fairness | calls are spaced across threads, lists end whole or with an error |

Bounds. `MaxLaunches` and `MaxFaults` bound the history of a run: three launches with
two faults are a failed attempt, a retry that fails elsewhere and a third one, so a
defect may need two separate interruptions to show. Two partitions (sources) are the least with partial
failure, two workers (processes) the least with interleaving. Two bars and two payloads
distinguish "the same" from "changed"; in `BatchLineage` two of them also let the sources agree or differ, which is an outcome without and with breaks; the second release accepts what the first
rejects and maps the other payload differently. Numbers 0..3 with a window of 2 let a
duplicate fall inside and outside the window and a gap be of one or two numbers. Of three raw keys two spell
one key, so that a frame may repeat a key, and one spelling is not in the contract map; closes 2, 3, 6 with 100% = 4 put
differences below, at and above each of the four limits. In `Comparison` a call ends when its results are returned,
hence `CHECK_DEADLOCK FALSE`. In `TcpFrames` and
`AnomalyFeed` the caller, or everybody, may stop for good. Frames of the limit and one byte more with a chunk longer than the limit
make every buffer length around it occur, and a chunk may end one frame and begin the next. A threshold of 0.04 % lies between the
changes of the simulated prices, so that flags differ with the base. With topics and polls of two
messages one waits behind another, and a full poll may leave one that came meanwhile. Three monitor processes are one whose journal was written by two that differ; the tracker's tables are keyed by stream, so one stream is enough. With one end of a process the scorer, or the
publisher, or the dashboard restarts once, which is where ids, numbers and prices start again (two ends were checked once and give the same
answer); time 3 is past a stale limit and a window of 1. In `AlertCooldown` one store is quiet but for a provider whose rate and latency lie just
below the limits, in the other both rates are exactly at the limit; the clock has the two values that a cooldown of 1 needs. In `ExportReleases` the two runs add rows
in front of, between and behind those that are there, and rows with the key of one that is there; three rows are one more than a download may have. In
`MassiveSpacing` threads stop after their lists, hence `CHECK_DEADLOCK FALSE`. The type invariants are theorems for all instances, so the runs do
not repeat them. The theorems below have none of these bounds.

Fairness. `FairSpec` (`FairSystem` of the composition) says that threads and processes that can take a step take one, and that
somebody launches the run again while it may be launched (the scheduler of
`docs/SCHEDULING.md`, "then rerun" in `docs/RUNBOOK.md`). Faults are never fair. Nothing is
assumed of the webhook or of providers but that a call ends. Liveness is checked after
the last fault (`faults = MaxFaults`). A call of `TCPTransport.receive` goes on (`WF(Receiving)`)
because sockets have a `read_timeout`: silence becomes a failure, which is a step of `Receiving` and no fault. In `AlertCooldown` each caller goes on and evaluates
again (the scheduler of `docs/OBSERVABILITY.md:149`), because a post has a time-out; the store owes nothing. In `MassiveSpacing` threads go on, time passes, and the limiter's
lock is fair to nobody: a thread gets it because the others read finitely many pages with finitely many attempts. Symmetry is used in `BatchOverlap`,
`AnomalyFeed` and `ExportReleases`, which have no liveness property.

Whole writes (`TornWrites = FALSE`) is an assumption about the environment that the
code does not establish: it is what the runs with `TRUE` are for, and the findings
show what follows when it fails.

## 4. What is proved

For every value of the constants that satisfies the named `ASSUME`s, without bounds on launches or
faults other than the constants themselves:

* `PartitionIngestionProofs`: `TypeCorrect`, `EvidenceIsChained`, `ManifestIsTrue`,
  `CountersDoAgree`, `ArchivesAreImmutable`, `SuccessStays`, `OutcomesAreRecorded`, and that ingestion
  implements `CheckpointedIngest`. The invariant `IInv` adds to the types: what a
  worker holds belongs to its stage (`WorkerInv`: a task that normalizes holds what is in
  the raw archive, a `done` task has the normalized archive as its frame); the coordinator
  records only ended tasks (`RecordInv`); a normalized archive is some release's
  image of the raw one (`ChainInv`); a room argument for the counters
  (`CounterInv`: until the FAILED metric of an attempt is written, attempts is strictly ahead); and, for the loop that records, that
  the outcomes before its position are stored, with their metric and quarantine rows (`OutcomeInv`). None of the properties is
  inductive without them: `ManifestTruth` needs that a recorded success is of a done
  task, and that needs the worker's memory to agree with the file.
* `EquityBatchProofs`, for any set of processes: `TypeCorrect`, `AlarmsAlwaysTrue`,
  `BatchImplementsLogicalRun`. The invariant says that a process past ingestion holds bars of
  every source and that one about to notify has the stored outcome in hand.
* `EquityBatchProofs`, under `Solo` (one process, whole writes): `StoredRowHasEvidence`,
  `BreaksAreAnnouncedOnce`. The argument is in `EvidenceInv`: archives hold the pinned
  bars, archiving goes through the files in order, results and row are the outcome of the pinned bars, and
  an attempt that gets to `persist` found no row. `BatchLineage` checks both with the real ingestion and with torn files
  (`OutcomeIsTraceable`, in which a torn results file is the exception, and `AlarmsOnce`).
* `FeedMonitorProofs`: `TypeCorrect`, `TrackerAgrees`, `LossesCountedOnce`, `LossesHiddenByRestartsOnly`, for any
  number of processes. The tracker's invariant carries the first three: because the window holds nothing that
  did not arrive, and the highest number bounds all that did, a duplicate or late number never moves the
  ledger (`Classification`). The last is about the journal, which outlives the process: a number that a process went over is stored, or
  in hand, or was revealed by an event that the process inherited, or by the one it ended on (`JournalInv`). What is in the journal either arrived in this process or was
  inherited, so an event that moves the tracker and is not inherited is new to the journal and its row is stored.
* `ReconciliationProofs`: types, and all six properties of `Comparison`, for every number of providers, every frame,
  key function, contract map and threshold. The invariant says only that `results` are the verdicts on the joined
  rows of the compared pairs; the work is in lemmas about the operators: `MergeCovers` and
  `MergeUnique` (an outer join of frames without repeated keys has each key once), `StatusMeans` (what the passes
  amount to), `ReasonMeans`, `BeyondMonotone` and `SwapBeyond` (limits), `PairAgrees`. `MissingProviderIsNamed` assumes
  `YahooFirst`, which `options_batch.main` establishes: with YAHOO second in a pair, the two replacements of
  `reconcile_option_sources` turn the second name into the first.

* `TcpTransportProofs`, for all frame sizes, limits, chunks and numbers of attempts: `TypeCorrect`, `LimitsAreExact`,
  `WholeFramesDoSurvive`, and that the transport implements `FrameStream`. The invariant says that the buffer
  begins at the end of frame `Len(handed)`, or behind the prefix of the next one exactly when `length` is set, and then
  `length` is that frame's size: from this the frame that is taken is the next one, and a buffer that asks for more bytes holds less than the limit,
  a prefix and a chunk.

* `ExportApiProofs`, for any number of clients, slots, rows, releases, page sizes and limits: `TypeCorrect`, `SlotsComeBack`, `DownloadsAreWhole`, that
  the API implements `ReleasedView`, and `WalksMissOnlyTiedOrUncounted`. Releases grow, and the copy of a publisher is no smaller than any of them although
  the batch goes on (`ReleaseInv`); the release that is open is no older than what was read (`InstanceInv`). A walk has, of what
  matched at its first page, every row with its own sort key that had fewer than `offset` rows at or before its place in what it read last (`WalkInv`). The rank
  of such a row decides the page it is on (`RankDecides`), and rows that are added can only raise it (`AboveGrows`), so a row the client has not
  seen is never moved in front of its offset. At the last page the total is at most `offset + Limit`: what is missed then was out of reach of a count that is of an earlier release. Ties and such counts
  are part of the statement and not assumed away; the code gives no more (see the notes of section 5).

* `AlertDispatcherProofs`, for any callers, stores, thresholds and cooldowns: `TypeCorrect`, `CooldownsHold`, `ReportsAreTrue`. What is
  remembered of an alert is between the last delivery that nobody overlapped and the last of all (`MemoryInv`); a caller that
  dispatches alone is the only one with its alert (`AloneInv`); who posts has seen the cooldown pass (`PostingInv`); and what an evaluation is
  through with was delivered, as long as no failure is counted (`ReportInv`).

* `AnomalyPipelineProofs`, for any symbols, prices, threshold, capacities and periods, and however many processes end: `TypeCorrect`,
  `FlagsAreExplained`, `LiveIsFresh`, `RecentAnomaliesCounted`, and that the pipeline implements `LossyFeed`.
  - The rows of the running scorer are the last `Own` ones of the journal and numbered from zero (`ScorerInv`); whatever it
    has or will get is younger than all before (`AgeInv`), which is where the gap between two scorers (`ended`) is needed. So a row never has the id of another
    (`NewRow`), and is always appended. What the scorer remembers of a symbol is the price of its last row among its own (`PriceInv`), so each
    row is explained by those before it when it is written, and later rows do not change that (`ExplainedKept`).
  - What was shown, what waits, and what is in hand are rows of the journal with rising positions (`FeedInv`): loss at either end of a topic
    keeps that, and a row that is sent is the last of the journal (`LastRow`).
  - A message that waits has seen as many snapshots as full polls and failed ones: each full poll brings it nearer by
    `MaxMessages`, each snapshot comes within `Refresh` (`Seen`). When it is read, it is not older than `Rounds` and the failures allow (`ReadInTime`), and a
    status other than `STALE` adds less than `StaleAfter`.
  - The tracker has the last anomalies in order, and those that it dropped are older than the window (`AnomalyInv`). Pruning from the front drops exactly the old
    ones because the times rise (`PrunedFront`; that a front exists is an argument over the least element of a set of numbers, `LeastOf`).

* At the end of `PartitionIngestionProofs`, about the client its worker threads call, for any threads, lists, intervals, lags and back-offs:
  `ClientTypeCorrect` and `CallsSpaced`. `Client` is an instance of `MassiveClient` over constants and variables of its own, and each result has
  `MassiveAssumption` as its hypothesis. Whoever sleeps for the limiter has its lock and does not wake before the interval is over (`LimiterInv`); time since
  the last call is short of the interval by what the limiter still has to wait, and `MaxLag`; and a thread that may call is the only one, as late as the
  interval has run down (`SpacingInv`, while `MaxLag` is below the interval: above it the property asks for nothing). That a
  back-off is a number is `PowerType`, by counting subsets, because the provers know nothing of powers.

Only model-checked: liveness (`CleanAttemptStores`, `ReceiveEnds`, `LastingConditionArrives`, `ListsEnd`), which
is out of the prover's reach, and the composition (`ImplementsBatch`, `OutcomeIsTraceable`, `AlarmsOnce`), whose two parts are proved about apart.

## 5. Findings

1. `IngestionTorn`. The README says that "interrupted Parquet writes are immutable and
   resumable". A kill while DuckDB fills `payload.parquet` or `data.parquet` leaves a path that
   exists and cannot be read. Every retry takes the reuse branch and raises; nothing removes the file.
2. `BatchSilent`. "One summary notification is posted" fails when the process dies, or the webhook
   does, between the commit and the post: later launches return early.
3. `FeedRestartLoss`. "We store expected sequence and missing count in the event journal" (`docs/NETWORK_TRANSPORTS.md:110`). The next
   lines say that the tracker is process-local and that the first event after a restart is `FIRST`; a later one may be a gap to the new tracker and a row that the journal already
   has, and then the gap is dropped (`duckdb.py:870`). `FeedTracking` shows that nothing else hides a loss, but the end of a process between classifying an event and persisting it.

Seen while modelling, without a run of their own:

* A torn normalized file of one partition hides the others' outcomes: the read before the `try` (`equity_ingestion.py:59`) raises out of the task, the coordinator
  raises at `future.result()`, and what the other providers did in that attempt is recorded nowhere, where `docs/SCALABILITY.md:51` places failed work in
  `quarantine_records`. `CompletedWorkIsRecorded` excepts such an attempt.
* An existing `results.parquet` counts as archived unread (`data_lake.py:263`): a retry commits the run beside a file that a kill has left unreadable, where `docs/RUNBOOK.md:325`
  speaks of "matching DuckDB/Parquet evidence". `OutcomeIsTraceable` allows for it; the cause is that of finding 1.
* `reconciliations` are ordered without `run_id` (`service.py:356`), although `docs/EXPORT_API.md:78` says "deterministic ordering": rows of two runs for one day, symbol and pair have
  equal keys, so that pages of one release may repeat one of them and skip another.
* The total and the items of a page are read by two connections, and a release may come in between, where ADR 0004 speaks of "a consistent release boundary": the walk may then
  end early. `get_run` pairs a run with the partitions of another release in the same way. `WalkMissesOnlyTiedOrUncounted` is exactly what these two leave.
* Two threads that dispatch one alert at a time both look before either stamps (`alerts.py:76`), and both post; the slower one leaves its earlier clock in `_last_sent`. No program here shares a
  dispatcher between threads; the lock is for callers that do. `CooldownHolds` speaks of deliveries without overlap.
* `replay_archived_run` uses the default thresholds of `reconcile_equity_sources` (`batch.py:248`) and not those of the run, so that a run
  without breaks may replay with some; `docs/RUNBOOK.md:107` says that it "recomputes and prints the comparison".
* Two publishers at a time could put an older copy over a newer one; the model has one.
* The limiter spaces the returns of `wait`: a thread that is late by `MaxLag` brings two calls that much closer.

Also: any error of
the shared database file, such as a connection that another process has open, ends a scorer that journals, although
`docs/SYSTEM_DESIGN_WORKFLOW.md:294` calls the batch and real-time paths independent; a message that is not JSON ends the dashboard, where an
invalid tick only degrades the feed; the loser of a persist race announces the
breaks again (the overlap of two processes is outside `NoDuplicateAlarm`); a launch of a completed
run whose lookup fails posts `FAILED`; a number that fell out of the duplicate window
is classified `REORDERED` although it was seen; a library caller whose dict has YAHOO second in a pair of option providers
is told that the wrong one is missing; a futures row of Massive alone with a null close is reported as
`MISSING_MASSIVE_OBSERVATION`, although Yahoo is the one without a row; a replay drops a provider without rows and with it the breaks that name it.

## 6. Not modelled

Provider adapters and their column mapping, OpenTelemetry and logs, secrets, smoke checks, dbt,
orchestration and benchmarks: stateless or outside the program. Retention is a library that no program here calls; a deletion
ends the life of what is otherwise never removed. `chmod` after a complete
write failing, and a DuckDB commit whose acknowledgement is lost, are left out. Two ingestion coordinators of one run
are modelled at the level of `EquityBatch` only, and so are several buckets of a provider at the level of `PartitionIngestion`. Of the control store, the legacy `save_*` helpers and
`persist_option_run` (the transaction of `persist_equity_run` over other tables) are left out; of the dashboard, the batch panels; of the
monitor, the multicast sockets, whose failures are its `Stop`; of the API, authentication.

## 7. Plan

1. `TcpTransport` composed with `FeedMonitor`: what a reconnect loses is a gap of the tracker.
