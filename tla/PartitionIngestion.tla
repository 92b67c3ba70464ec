------------------------- MODULE PartitionIngestion -------------------------
(***************************************************************************)
(* scaling/equity_ingestion.py with the partition archive and the manifest *)
(* it drives: one coordinator process that registers the partitions of a   *)
(* logical run, hands them to a bounded thread pool, and, once the pool is *)
(* done, records every outcome in DuckDB.  A worker moves a partition      *)
(* through two write-once checkpoints, raw and normalized.  The process    *)
(* may be killed anywhere and is launched again for the same run: DuckDB   *)
(* rows and Parquet files survive, everything else is lost.                *)
(*                                                                         *)
(* Providers answer with an arbitrary payload on every call (they restate  *)
(* bars), or fail.  The normalizer is a version of the code that maps a    *)
(* payload to canonical bars or rejects it; a newer one may be deployed    *)
(* between attempts.  One coordinator at a time: docs/SCALABILITY.md       *)
(* "DuckDB's single-writer operating model".                               *)
(***************************************************************************)
EXTENDS Naturals, FiniteSets

CONSTANTS
    N,              \* number of partitions, in the order build_work_partitions gives
    MaxWorkers,     \* max_workers: threads of the pool
    Payloads,       \* what a provider may answer
    Bars,           \* canonical frames
    Versions,       \* number of normalizer versions
    Canonical,      \* normalize_equity_dataframe + validate_equity_bars, per version
    Rejected,       \* the result of Canonical on a payload that fails validation
    Absent,         \* no file, no frame, no row
    Torn,           \* a file whose write has begun and not ended
    TornWrites,     \* whether a kill or an I/O error can leave a Torn file behind
    MaxLaunches,    \* bound: attempts of the logical run
    MaxFaults       \* bound: kills, provider errors, I/O errors, DuckDB errors

ASSUME SizeAssumption ==
    /\ N \in Nat \ {0} /\ MaxWorkers \in Nat \ {0} /\ Versions \in Nat \ {0}
    /\ MaxLaunches \in Nat /\ MaxFaults \in Nat
    /\ TornWrites \in BOOLEAN

ASSUME DataAssumption ==
    /\ Canonical \in [1..Versions -> [Payloads -> Bars \cup {Rejected}]]
    /\ Absent # Torn /\ Rejected \notin Bars
    /\ Absent \notin Bars \cup Payloads /\ Torn \notin Bars \cup Payloads
    /\ Absent \notin {"PENDING", "RUNNING", "SUCCESS", "FAILED"}

Partitions == 1..N
Reasons == {"fetch", "unreadable", "rejected", "write"}

VARIABLES
    raw,            \* raw partition archive: payload.parquet
    norm,           \* normalized partition archive: data.parquet
    status,         \* work_partitions.status, Absent before the row exists
    attempts,       \* work_partitions.attempts
    failedRows,     \* provider_request_metrics rows with outcome_status FAILED
    freshRows,      \* ... rows with SUCCESS and reused_archive FALSE
    quarantine,     \* quarantine_records, keyed by partition and reason
    pc,             \* where the coordinator is
    cursor,         \* its position in a loop over the partitions
    stage,          \* where the worker of each partition is
    payload,        \* the raw frame a worker holds
    frame,          \* PartitionOutcome.frame
    reason,         \* PartitionOutcome.error
    fetched,        \* partitions whose provider answered in this attempt
    recorded,       \* outcomes the coordinator has recorded in this attempt
    normalizer,     \* the deployed version of the code
    delivered,      \* history: what the latest returning attempt gave its caller
    launches,       \* attempts so far
    faults          \* faults so far

files == <<raw, norm>>
rows == <<status, attempts, failedRows, freshRows, quarantine>>
workers == <<stage, payload, frame, reason, fetched>>
coordinator == <<pc, cursor, recorded>>
environment == <<normalizer, launches, faults>>
vars == <<files, rows, workers, coordinator, environment, delivered>>

Readable(file) == file \notin {Absent, Torn}
Writing == {"writingRaw", "writingNorm"}
Busy == {p \in Partitions : stage[p] \in {"fetch", "normalize"} \cup Writing}
Ended == {"done", "failed", "escaped"}

Init ==
    /\ raw = [p \in Partitions |-> Absent]
    /\ norm = [p \in Partitions |-> Absent]
    /\ status = [p \in Partitions |-> Absent]
    /\ attempts = [p \in Partitions |-> 0]
    /\ failedRows = [p \in Partitions |-> 0]
    /\ freshRows = [p \in Partitions |-> 0]
    /\ quarantine = {}
    /\ pc = "down" /\ cursor = 1 /\ recorded = {}
    /\ stage = [p \in Partitions |-> "queued"]
    /\ payload = [p \in Partitions |-> Absent]
    /\ frame = [p \in Partitions |-> Absent]
    /\ reason = [p \in Partitions |-> Absent]
    /\ fetched = {}
    /\ normalizer = 1 /\ launches = 0 /\ faults = 0
    /\ delivered = Absent

Fault == faults < MaxFaults /\ faults' = faults + 1

(***************************************************************************)
(* Before the pool: one short DuckDB connection per row and loop step.     *)
(***************************************************************************)
Launch ==
    /\ pc = "down" /\ launches < MaxLaunches
    /\ launches' = launches + 1
    /\ pc' = "register" /\ cursor' = 1
    /\ UNCHANGED <<files, rows, workers, recorded, normalizer, faults, delivered>>

\* The loops over the partitions end in the next phase.
Advance(next) ==
    IF cursor < N THEN cursor' = cursor + 1 /\ UNCHANGED pc
                  ELSE cursor' = 1 /\ pc' = next

\* INSERT ... ON CONFLICT DO NOTHING: an earlier attempt's row is kept.
Register ==
    /\ pc = "register"
    /\ status' = [status EXCEPT ![cursor] = IF @ = Absent THEN "PENDING" ELSE @]
    /\ Advance("mark")
    /\ UNCHANGED <<files, attempts, failedRows, freshRows, quarantine, workers,
                   recorded, environment, delivered>>

\* Mutant: the WHERE clause that spares completed rows is lost.
MarkRunningAll ==
    /\ pc = "mark"
    /\ status' = [status EXCEPT ![cursor] = "RUNNING"]
    /\ attempts' = [attempts EXCEPT ![cursor] = @ + 1]
    /\ Advance("pool")
    /\ UNCHANGED <<files, failedRows, freshRows, quarantine, workers, recorded,
                   environment, delivered>>

\* Mutant: WHERE status = 'PENDING', so a retry is not counted.
MarkRunningOnce ==
    /\ pc = "mark"
    /\ IF status[cursor] # "PENDING"
       THEN UNCHANGED <<status, attempts>>
       ELSE /\ status' = [status EXCEPT ![cursor] = "RUNNING"]
            /\ attempts' = [attempts EXCEPT ![cursor] = @ + 1]
    /\ Advance("pool")
    /\ UNCHANGED <<files, failedRows, freshRows, quarantine, workers, recorded,
                   environment, delivered>>

\* UPDATE ... WHERE status <> 'SUCCESS'.
MarkRunning ==
    /\ pc = "mark"
    /\ IF status[cursor] = "SUCCESS"
       THEN UNCHANGED <<status, attempts>>
       ELSE /\ status' = [status EXCEPT ![cursor] = "RUNNING"]
            /\ attempts' = [attempts EXCEPT ![cursor] = @ + 1]
    /\ Advance("pool")
    /\ UNCHANGED <<files, failedRows, freshRows, quarantine, workers, recorded,
                   environment, delivered>>

(***************************************************************************)
(* Workers: _execute_partition_inner.  The executor starts tasks in        *)
(* submission order, when one of its threads is free.                      *)
(***************************************************************************)
CanStart(p) ==
    /\ pc = "pool" /\ stage[p] = "queued"
    /\ \A q \in 1..(p - 1) : stage[q] # "queued"
    /\ Cardinality(Busy) < MaxWorkers

WorkerUnchanged == UNCHANGED <<rows, coordinator, normalizer, launches, delivered>>

\* A normalized archive ends the task: no provider call, no validation.
ReuseNormalized(p) ==
    /\ CanStart(p) /\ Readable(norm[p])
    /\ frame' = [frame EXCEPT ![p] = norm[p]]
    /\ stage' = [stage EXCEPT ![p] = "done"]
    /\ UNCHANGED <<files, payload, reason, fetched, faults>> /\ WorkerUnchanged

\* The first read is outside the try block: its exception leaves the task.
EscapeOnTornNormalized(p) ==
    /\ CanStart(p) /\ norm[p] = Torn
    /\ stage' = [stage EXCEPT ![p] = "escaped"]
    /\ UNCHANGED <<files, payload, frame, reason, fetched, faults>> /\ WorkerUnchanged

\* except Exception: the task ends with a PartitionOutcome that has an error.
FailTask(p, why) ==
    /\ stage' = [stage EXCEPT ![p] = "failed"]
    /\ reason' = [reason EXCEPT ![p] = why]
    /\ UNCHANGED <<payload, frame, fetched>>

\* Mutant: the raw archive is not reused, and writing it again is refused.
RefuseRaw(p) ==
    /\ CanStart(p) /\ norm[p] = Absent /\ Readable(raw[p])
    /\ FailTask(p, "write")
    /\ UNCHANGED <<files, faults>> /\ WorkerUnchanged

ReuseRaw(p) ==
    /\ CanStart(p) /\ norm[p] = Absent /\ Readable(raw[p])
    /\ payload' = [payload EXCEPT ![p] = raw[p]]
    /\ stage' = [stage EXCEPT ![p] = "normalize"]
    /\ UNCHANGED <<files, frame, reason, fetched, faults>> /\ WorkerUnchanged

FailOnTornRaw(p) ==
    /\ CanStart(p) /\ norm[p] = Absent /\ raw[p] = Torn
    /\ FailTask(p, "unreadable")
    /\ UNCHANGED <<files, faults>> /\ WorkerUnchanged

CallProvider(p) ==
    /\ CanStart(p) /\ norm[p] = Absent /\ raw[p] = Absent
    /\ stage' = [stage EXCEPT ![p] = "fetch"]
    /\ UNCHANGED <<files, payload, frame, reason, fetched, faults>> /\ WorkerUnchanged

\* write_partition_once refuses an existing path, then DuckDB creates the file
\* under its final name and fills it.
BeginWrite(file, p) == /\ file[p] = Absent
                       /\ file' = [file EXCEPT ![p] = Torn]

\* Mutant: the answer is normalized before it is archived.
FetchUnarchived(p) ==
    /\ stage[p] = "fetch"
    /\ \E v \in Payloads : payload' = [payload EXCEPT ![p] = v]
    /\ fetched' = fetched \cup {p}
    /\ stage' = [stage EXCEPT ![p] = "normalize"]
    /\ UNCHANGED <<files, frame, reason, faults>> /\ WorkerUnchanged

FetchAnswers(p) ==
    /\ stage[p] = "fetch"
    /\ \E v \in Payloads : payload' = [payload EXCEPT ![p] = v]
    /\ fetched' = fetched \cup {p}
    /\ BeginWrite(raw, p)
    /\ stage' = [stage EXCEPT ![p] = "writingRaw"]
    /\ UNCHANGED <<norm, frame, reason, faults>> /\ WorkerUnchanged

FetchFails(p) ==
    /\ stage[p] = "fetch" /\ Fault
    /\ FailTask(p, "fetch")
    /\ UNCHANGED files /\ WorkerUnchanged

EndRawWrite(p) ==
    /\ stage[p] = "writingRaw"
    /\ raw' = [raw EXCEPT ![p] = payload[p]]
    /\ stage' = [stage EXCEPT ![p] = "normalize"]
    /\ UNCHANGED <<norm, payload, frame, reason, fetched, faults>> /\ WorkerUnchanged

Normalize(p) ==
    /\ stage[p] = "normalize"
    /\ Canonical[normalizer][payload[p]] # Rejected
    /\ BeginWrite(norm, p)
    /\ stage' = [stage EXCEPT ![p] = "writingNorm"]
    /\ UNCHANGED <<raw, payload, frame, reason, fetched, faults>> /\ WorkerUnchanged

\* Mutant: a rejected payload is deleted so that a retry fetches again.
RejectAndDiscard(p) ==
    /\ stage[p] = "normalize"
    /\ Canonical[normalizer][payload[p]] = Rejected
    /\ raw' = [raw EXCEPT ![p] = Absent]
    /\ FailTask(p, "rejected")
    /\ UNCHANGED <<norm, faults>> /\ WorkerUnchanged

\* The rejected payload stays archived: it is the evidence a retry starts from.
Reject(p) ==
    /\ stage[p] = "normalize"
    /\ Canonical[normalizer][payload[p]] = Rejected
    /\ FailTask(p, "rejected")
    /\ UNCHANGED <<files, faults>> /\ WorkerUnchanged

EndNormWrite(p) ==
    LET bars == Canonical[normalizer][payload[p]] IN
    /\ stage[p] = "writingNorm"
    /\ norm' = [norm EXCEPT ![p] = bars]
    /\ frame' = [frame EXCEPT ![p] = bars]
    /\ stage' = [stage EXCEPT ![p] = "done"]
    /\ UNCHANGED <<raw, payload, reason, fetched, faults>> /\ WorkerUnchanged

\* What an interrupted write leaves at the final path.
Leftover == IF TornWrites THEN {Absent, Torn} ELSE {Absent}

WriteFails(p) ==
    /\ stage[p] \in Writing /\ Fault
    /\ \E left \in Leftover :
          IF stage[p] = "writingRaw"
          THEN raw' = [raw EXCEPT ![p] = left] /\ UNCHANGED norm
          ELSE norm' = [norm EXCEPT ![p] = left] /\ UNCHANGED raw
    /\ FailTask(p, "write")
    /\ WorkerUnchanged

(***************************************************************************)
(* After the pool: outcomes are recorded one by one, in the order the      *)
(* tasks happened to complete, each by separate DuckDB connections.        *)
(***************************************************************************)

\* future.result() re-raises an escaped exception once the executor's exit has
\* waited for every other task: nothing is recorded then.
Drain ==
    /\ pc = "pool" /\ \A p \in Partitions : stage[p] \in Ended
    /\ pc' = IF \E p \in Partitions : stage[p] = "escaped" THEN "escaped" ELSE "finish"
    /\ UNCHANGED <<files, rows, workers, cursor, recorded, environment, delivered>>

\* Mutant: the outcome's error is not looked at.
FinishAsSuccess(p) ==
    /\ pc = "finish" /\ p \notin recorded
    /\ status' = [status EXCEPT ![p] = "SUCCESS"]
    /\ cursor' = p /\ pc' = "metric"
    /\ UNCHANGED <<files, attempts, failedRows, freshRows, quarantine, workers,
                   recorded, environment, delivered>>

FinishPartition(p) ==
    /\ pc = "finish" /\ p \notin recorded
    /\ status' = [status EXCEPT ![p] = IF stage[p] = "failed" THEN "FAILED" ELSE "SUCCESS"]
    /\ cursor' = p /\ pc' = "metric"
    /\ UNCHANGED <<files, attempts, failedRows, freshRows, quarantine, workers,
                   recorded, environment, delivered>>

\* Mutant: a failed partition gets its metric row and no quarantine record.
RecordMetricOnly ==
    /\ pc = "metric"
    /\ IF stage[cursor] = "failed"
       THEN failedRows' = [failedRows EXCEPT ![cursor] = @ + 1] /\ UNCHANGED freshRows
       ELSE /\ freshRows' = IF cursor \in fetched
                            THEN [freshRows EXCEPT ![cursor] = @ + 1] ELSE freshRows
            /\ UNCHANGED failedRows
    /\ recorded' = recorded \cup {cursor} /\ pc' = "finish"
    /\ UNCHANGED <<files, status, attempts, quarantine, workers, cursor, environment,
                   delivered>>

RecordMetric ==
    /\ pc = "metric"
    /\ IF stage[cursor] = "failed"
       THEN /\ failedRows' = [failedRows EXCEPT ![cursor] = @ + 1]
            /\ pc' = "quarantine" /\ UNCHANGED <<freshRows, recorded>>
       ELSE /\ freshRows' = IF cursor \in fetched
                            THEN [freshRows EXCEPT ![cursor] = @ + 1] ELSE freshRows
            /\ recorded' = recorded \cup {cursor}
            /\ pc' = "finish" /\ UNCHANGED failedRows
    /\ UNCHANGED <<files, status, attempts, quarantine, workers, cursor, environment,
                   delivered>>

\* ON CONFLICT DO NOTHING on an identifier made of the partition and the reason.
RecordQuarantine ==
    /\ pc = "quarantine"
    /\ quarantine' = quarantine \cup {<<cursor, reason[cursor]>>}
    /\ recorded' = recorded \cup {cursor}
    /\ pc' = "finish"
    /\ UNCHANGED <<files, status, attempts, failedRows, freshRows, workers, cursor,
                   environment, delivered>>

Failures == {p \in Partitions : stage[p] = "failed"}

\* Mutant: the partitions that succeeded are returned without the others.
DeliverPartial ==
    /\ pc = "finish" /\ recorded = Partitions
    /\ delivered' = frame
    /\ pc' = "returned"
    /\ UNCHANGED <<files, rows, workers, cursor, recorded, environment>>

Deliver ==
    /\ pc = "finish" /\ recorded = Partitions /\ Failures = {}
    /\ delivered' = frame
    /\ pc' = "returned"
    /\ UNCHANGED <<files, rows, workers, cursor, recorded, environment>>

RaiseFailures ==
    /\ pc = "finish" /\ recorded = Partitions /\ Failures # {}
    /\ pc' = "raised"
    /\ UNCHANGED <<files, rows, workers, cursor, recorded, environment, delivered>>

(***************************************************************************)
(* The end of an attempt, wanted or not.                                   *)
(***************************************************************************)
ForgetMemory ==
    /\ pc' = "down" /\ cursor' = 1 /\ recorded' = {} /\ fetched' = {}
    /\ stage' = [p \in Partitions |-> "queued"]
    /\ payload' = [p \in Partitions |-> Absent]
    /\ frame' = [p \in Partitions |-> Absent]
    /\ reason' = [p \in Partitions |-> Absent]

Exit ==
    /\ pc \in {"returned", "raised", "escaped", "broken"}
    /\ ForgetMemory
    /\ UNCHANGED <<files, rows, environment, delivered>>

\* A DuckDB statement of the coordinator raises (another process has the file).
DatabaseFails ==
    /\ pc \in {"register", "mark", "finish", "metric", "quarantine"} /\ Fault
    /\ pc' = "broken"
    /\ UNCHANGED <<files, rows, workers, cursor, recorded, normalizer, launches, delivered>>

\* The process is killed: an open archive file is left as far as it was written.
Crash ==
    /\ pc # "down" /\ Fault
    /\ ~TornWrites => \A p \in Partitions : stage[p] \notin Writing
    /\ ForgetMemory
    /\ UNCHANGED <<files, rows, normalizer, launches, delivered>>

\* A release that changes normalization.
Deploy ==
    /\ pc = "down" /\ normalizer < Versions
    /\ normalizer' = normalizer + 1
    /\ UNCHANGED <<files, rows, workers, coordinator, launches, faults, delivered>>

\* The logical run is not launched any more.
Rest == pc = "down" /\ launches = MaxLaunches /\ UNCHANGED vars

Work(p) ==
    \/ ReuseNormalized(p) \/ EscapeOnTornNormalized(p)
    \/ ReuseRaw(p) \/ FailOnTornRaw(p) \/ CallProvider(p)
    \/ FetchAnswers(p) \/ EndRawWrite(p)
    \/ Normalize(p) \/ Reject(p) \/ EndNormWrite(p)

Progress ==
    \/ Register \/ MarkRunning
    \/ \E p \in Partitions : Work(p) \/ FinishPartition(p)
    \/ Drain \/ RecordMetric \/ RecordQuarantine \/ Deliver \/ RaiseFailures \/ Exit

Faults == \/ \E p \in Partitions : FetchFails(p) \/ WriteFails(p)
          \/ DatabaseFails \/ Crash

Next == Launch \/ Progress \/ Faults \/ Deploy \/ Rest

Spec == Init /\ [][Next]_vars

\* Threads and the coordinator run, adapters answer or fail, and somebody
\* launches the run again while it may be launched (RUNBOOK.md: "then rerun").
FairSpec == Spec /\ WF_vars(Progress) /\ WF_vars(Launch)

(***************************************************************************)
(* Properties.                                                             *)
(***************************************************************************)
Files(contents) == [Partitions -> contents \cup {Absent, Torn}]
Held(contents) == [Partitions -> contents \cup {Absent}]
Frames == [Partitions -> Bars]

FilesOK == raw \in Files(Payloads) /\ norm \in Files(Bars)

RowsOK ==
    /\ status \in Held({"PENDING", "RUNNING", "SUCCESS", "FAILED"})
    /\ attempts \in [Partitions -> Nat]
    /\ failedRows \in [Partitions -> Nat] /\ freshRows \in [Partitions -> Nat]
    /\ quarantine \subseteq Partitions \X Reasons

WorkersOK ==
    /\ stage \in [Partitions -> {"queued", "fetch", "normalize"} \cup Writing \cup Ended]
    /\ payload \in Held(Payloads) /\ frame \in Held(Bars) /\ reason \in Held(Reasons)
    /\ fetched \subseteq Partitions

CoordinatorOK ==
    /\ pc \in {"down", "register", "mark", "pool", "finish", "metric", "quarantine",
               "returned", "raised", "escaped", "broken"}
    /\ cursor \in Partitions /\ recorded \subseteq Partitions
    /\ normalizer \in 1..Versions /\ launches \in Nat /\ faults \in Nat
    /\ delivered \in Frames \cup {Absent}

\* Every variable has its type.
TypeOK == FilesOK /\ RowsOK /\ WorkersOK /\ CoordinatorOK

\* docs/SCALABILITY.md "Raw evidence is immutable": no step, no crash and no retry
\* changes or removes an archive that was completely written, in either layer.
ArchivesImmutable ==
    [][\A p \in Partitions : /\ Readable(raw[p]) => raw'[p] = raw[p]
                             /\ Readable(norm[p]) => norm'[p] = norm[p]]_vars

\* A normalized archive always has its raw evidence beside it, and is what some
\* released normalizer makes of that evidence: a crash between the two writes, or a
\* release between two attempts, never separates them.
EvidenceChain ==
    \A p \in Partitions : Readable(norm[p]) =>
        /\ Readable(raw[p])
        /\ \E k \in 1..normalizer : norm[p] = Canonical[k][raw[p]]

\* The manifest never claims more than the archive holds: a SUCCESS row has a readable
\* normalized archive, so a retry of that partition needs no provider.
ManifestTruth ==
    \A p \in Partitions : status[p] = "SUCCESS" => Readable(norm[p])

\* A completed partition stays completed: although finish_work_partition updates the
\* row unconditionally, no later attempt of the run takes SUCCESS back.
SuccessIsFinal ==
    [][\A p \in Partitions : status[p] = "SUCCESS" => status'[p] = "SUCCESS"]_vars

\* The operational counters agree: each FAILED metric row stems from an attempt that
\* counted itself in the manifest first, and at most one SUCCESS row is not a reuse.
CountersAgree ==
    \A p \in Partitions : failedRows[p] <= attempts[p] /\ freshRows[p] <= 1

\* docs/SCALABILITY.md "The coordinator records manifest state and metrics after worker
\* completion": when an attempt returns or raises the error of its outcomes, every
\* partition's row says how it ended, a failure of the attempt is in the quarantine index
\* and has a FAILED metric row, and a provider that answered and was accepted has a SUCCESS
\* row that is not a reuse.  (An exception that leaves a task, on a torn file, records nothing.)
CompletedWorkIsRecorded ==
    pc \in {"returned", "raised"} =>
        \A p \in Partitions :
            \/ /\ status[p] = "SUCCESS"
               /\ p \in fetched => freshRows[p] > 0
            \/ /\ status[p] = "FAILED"
               /\ <<p, reason[p]>> \in quarantine /\ failedRows[p] > 0

\* Ingestion implements its contract: see CheckpointedIngest.
Contract == INSTANCE CheckpointedIngest WITH
    pinned <- [p \in Partitions |-> IF Readable(norm[p]) THEN norm[p] ELSE Absent]
ImplementsContract == Contract!Spec

CanLaunch == pc = "down" /\ launches < MaxLaunches

\* README.md "interrupted Parquet writes are immutable and resumable": once the deployed
\* normalizer accepts the evidence, one more launch without a fault delivers the run,
\* wherever earlier attempts were interrupted and whatever their writes have left.
OneCleanAttemptSuffices ==
    (CanLaunch /\ normalizer = Versions /\ faults = MaxFaults) ~> pc = "returned"
=============================================================================
