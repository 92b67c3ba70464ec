---------------------- MODULE PartitionIngestionProofs ----------------------
(***************************************************************************)
(* Proofs about PartitionIngestion, for any number of partitions, threads, *)
(* payloads, releases, attempts and faults; and, at the end, about         *)
(* MassiveClient, through which worker threads reach the vendor.           *)
(***************************************************************************)
EXTENDS PartitionIngestion, Integers, Sequences, FiniteSetTheorems, TLAPS

(***************************************************************************)
(* The inductive invariant.  It ties the place a worker is at to what its  *)
(* two archive files contain, so that every file has one writer that knows *)
(* what it holds, and ties the manifest and the counters to the outcomes   *)
(* the coordinator has yet to record.                                      *)
(***************************************************************************)
WorkerInv(p) ==
    /\ stage[p] # "queued" => pc \notin {"down", "register", "mark"}
    /\ stage[p] = "fetch" => raw[p] = Absent /\ norm[p] = Absent
    /\ stage[p] = "writingRaw" => /\ raw[p] = Torn /\ norm[p] = Absent
                                  /\ payload[p] \in Payloads
    /\ stage[p] = "normalize" => /\ raw[p] \in Payloads /\ payload[p] = raw[p]
                                 /\ norm[p] = Absent
    /\ stage[p] = "writingNorm" => /\ raw[p] \in Payloads /\ payload[p] = raw[p]
                                   /\ norm[p] = Torn
                                   /\ Canonical[normalizer][payload[p]] \in Bars
    /\ stage[p] = "done" => norm[p] \in Bars /\ frame[p] = norm[p]
    /\ stage[p] = "failed" => ~Readable(norm[p]) /\ reason[p] \in Reasons

ChainInv(p) ==
    Readable(norm[p]) => /\ raw[p] \in Payloads
                         /\ \E k \in 1..normalizer : norm[p] = Canonical[k][raw[p]]

Recording == {"finish", "metric", "quarantine"}

RecordInv ==
    /\ pc \in Recording => \A p \in Partitions : stage[p] \in {"done", "failed"}
    /\ pc \in {"metric", "quarantine"} => cursor \notin recorded
    /\ pc = "quarantine" => stage[cursor] = "failed"
    /\ recorded # {} => pc \notin {"down", "register", "mark", "pool"}
    /\ fetched # {} => pc \notin {"down", "register", "mark"}

\* The attempt has counted p in the manifest and not yet in the metrics.
MetricDue(p) ==
    \/ pc = "mark" /\ p < cursor
    \/ pc = "pool"
    \/ pc \in {"finish", "metric"} /\ p \notin recorded
    \/ pc = "quarantine" /\ p \notin recorded /\ p # cursor

CounterInv(p) ==
    /\ failedRows[p] <= attempts[p]
    /\ MetricDue(p) /\ status[p] # "SUCCESS" => failedRows[p] < attempts[p]
    /\ freshRows[p] <= 1
    /\ freshRows[p] > 0 => Readable(norm[p])
    /\ MetricDue(p) /\ p \in fetched => freshRows[p] = 0

IInv ==
    /\ TypeOK
    /\ RecordInv
    /\ ManifestTruth
    /\ \A p \in Partitions : WorkerInv(p) /\ ChainInv(p) /\ CounterInv(p)


(***************************************************************************)
(* Who writes what.                                                        *)
(***************************************************************************)
FileWriter(p) == \/ FetchAnswers(p) \/ EndRawWrite(p) \/ Normalize(p)
                 \/ EndNormWrite(p) \/ WriteFails(p)

RowWriter == \/ Register \/ MarkRunning \/ RecordMetric \/ RecordQuarantine
             \/ \E p \in Partitions : FinishPartition(p)

\* Only five worker steps touch an archive file.
LEMMA WhoWritesFiles ==
    [Next]_vars => UNCHANGED files \/ \E p \in Partitions : FileWriter(p)
BY DEF Next, Progress, Work, Faults, vars, files, rows, workers, coordinator,
       WorkerUnchanged, FileWriter, Launch, Register, MarkRunning, ReuseNormalized,
       EscapeOnTornNormalized, ReuseRaw, FailOnTornRaw, CallProvider, Reject, FetchFails,
       Drain, FinishPartition, RecordMetric, RecordQuarantine, Deliver, RaiseFailures,
       Exit, DatabaseFails, Crash, Deploy, Rest

\* Only the coordinator touches DuckDB.
LEMMA WhoWritesRows == [Next]_vars => UNCHANGED rows \/ RowWriter
BY DEF Next, Progress, Work, Faults, vars, files, rows, workers, coordinator,
       WorkerUnchanged, RowWriter, Launch, ReuseNormalized, EscapeOnTornNormalized,
       ReuseRaw, FailOnTornRaw, CallProvider, FetchAnswers, FetchFails, EndRawWrite,
       Normalize, Reject, EndNormWrite, WriteFails, Drain, Deliver, RaiseFailures, Exit,
       DatabaseFails, Crash, Deploy, Rest

\* Releases only go forward.
LEMMA NormalizerGrows ==
    ASSUME TypeOK, [Next]_vars
    PROVE  normalizer \in 1..Versions /\ normalizer' \in {normalizer, normalizer + 1}
BY DEF TypeOK, CoordinatorOK, Next, Progress, Work, Faults, vars, files, rows, workers,
       coordinator, environment, WorkerUnchanged, Launch, Register, MarkRunning,
       ReuseNormalized, EscapeOnTornNormalized, ReuseRaw, FailOnTornRaw, CallProvider,
       FetchAnswers, EndRawWrite, Normalize, Reject, EndNormWrite, FetchFails, WriteFails,
       Drain, FinishPartition, RecordMetric, RecordQuarantine, Deliver, RaiseFailures,
       Exit, DatabaseFails, Crash, Deploy, Rest

\* A file write starts where nothing is and ends or breaks what it started, so a
\* complete archive is never written to, and only EndNormWrite completes a normalized one.
LEMMA WriteOnce ==
    ASSUME IInv, [Next]_vars, NEW q \in Partitions
    PROVE  /\ Readable(raw[q]) => raw'[q] = raw[q]
           /\ Readable(norm[q]) => norm'[q] = norm[q]
           /\ \/ norm'[q] = norm[q]
              \/ ~Readable(norm[q]) /\ ~Readable(norm'[q])
              \/ EndNormWrite(q)
           /\ raw'[q] = raw[q] \/ ~Readable(norm'[q])
BY WhoWritesFiles, DataAssumption
   DEF FileWriter, files, FetchAnswers, EndRawWrite, Normalize, EndNormWrite, WriteFails,
       BeginWrite, Leftover, Writing, Readable, IInv, TypeOK, FilesOK, Files, WorkerInv

\* Files have their types: only a worker's own steps write them.
LEMMA FilesStep == ASSUME IInv, [Next]_vars PROVE FilesOK'
<1> USE DEF IInv, TypeOK, FilesOK, Files, WorkerInv
<1>1. CASE UNCHANGED files
  BY <1>1 DEF files
<1>2. CASE \E p \in Partitions : FetchAnswers(p) \/ Normalize(p)
  BY <1>2 DEF FetchAnswers, Normalize, BeginWrite
<1>3. CASE \E p \in Partitions : EndRawWrite(p)
  BY <1>3 DEF EndRawWrite
<1>4. CASE \E p \in Partitions : EndNormWrite(p)
  BY <1>4 DEF EndNormWrite
<1>5. CASE \E p \in Partitions : WriteFails(p)
  BY <1>5 DEF WriteFails, Leftover
<1>6. QED
  BY <1>1, <1>2, <1>3, <1>4, <1>5, WhoWritesFiles DEF FileWriter

\* The evidence chain: the raw archive is fixed before the normalized one exists, and
\* the release that normalized it stays among the released ones.
LEMMA ChainStep == ASSUME IInv, [Next]_vars, NEW q \in Partitions PROVE ChainInv(q)'
<1> USE SizeAssumption
<1>1. 1..normalizer \subseteq 1..normalizer'
  BY NormalizerGrows DEF IInv
<1>2. CASE raw'[q] = raw[q] /\ norm'[q] = norm[q]
  BY <1>1, <1>2 DEF IInv, ChainInv, Readable
<1>3. CASE ~Readable(norm'[q])
  BY <1>3 DEF ChainInv, Readable
<1>4. CASE EndNormWrite(q)
  <2>1. /\ norm'[q] = Canonical[normalizer][raw[q]]
        /\ raw[q] \in Payloads /\ raw'[q] = raw[q] /\ normalizer' = normalizer
    BY <1>4 DEF EndNormWrite, WorkerUnchanged, IInv, TypeOK, FilesOK, Files, WorkerInv
  <2>2. normalizer \in 1..normalizer
    BY NormalizerGrows DEF IInv
  <2>3. QED
    BY <2>1, <2>2 DEF ChainInv
<1>5. QED
  BY <1>2, <1>3, <1>4, WriteOnce

\* Rows have their types.
LEMMA RowsStep == ASSUME IInv, [Next]_vars PROVE RowsOK'
<1> USE DEF IInv, TypeOK, RowsOK, CoordinatorOK
<1>1. CASE UNCHANGED rows
  BY <1>1 DEF rows
<1>2. CASE Register
  BY <1>2 DEF Register, Held
<1>3. CASE MarkRunning
  <2>1. CASE UNCHANGED <<status, attempts>>
    BY <1>3, <2>1 DEF MarkRunning
  <2>2. CASE /\ status' = [status EXCEPT ![cursor] = "RUNNING"]
             /\ attempts' = [attempts EXCEPT ![cursor] = @ + 1]
    BY <1>3, <2>2 DEF MarkRunning, Held
  <2>3. QED
    BY <1>3, <2>1, <2>2 DEF MarkRunning
<1>4. CASE RecordMetric
  <2>1. UNCHANGED <<status, attempts, quarantine>>
    BY <1>4 DEF RecordMetric
  <2>2. /\ failedRows' \in {failedRows, [failedRows EXCEPT ![cursor] = @ + 1]}
        /\ freshRows' \in {freshRows, [freshRows EXCEPT ![cursor] = @ + 1]}
    BY <1>4 DEF RecordMetric
  <2>3. QED
    BY <2>1, <2>2
<1>5. CASE RecordQuarantine
  BY <1>5 DEF RecordQuarantine, RecordInv, WorkerInv
<1>6. CASE \E p \in Partitions : FinishPartition(p)
  BY <1>6 DEF FinishPartition, Held
<1>7. QED
  BY <1>1, <1>2, <1>3, <1>4, <1>5, <1>6, WhoWritesRows DEF RowWriter

\* Worker memory has its types.
LEMMA WorkersStep == ASSUME IInv, [Next]_vars PROVE WorkersOK'
<1> USE SizeAssumption, DataAssumption
<1> USE DEF IInv, TypeOK, WorkersOK, FilesOK, CoordinatorOK, WorkerInv, Files,
        Held, Writing, Ended, Reasons, Readable
<1>1. CASE \E p \in Partitions : ReuseNormalized(p)
  BY <1>1 DEF ReuseNormalized, CanStart, WorkerUnchanged, rows, coordinator, files
<1>2. CASE \E p \in Partitions : EscapeOnTornNormalized(p)
  BY <1>2 DEF EscapeOnTornNormalized, CanStart, WorkerUnchanged, rows, coordinator,
     files
<1>3. CASE \E p \in Partitions : ReuseRaw(p)
  BY <1>3 DEF ReuseRaw, CanStart, WorkerUnchanged, rows, coordinator, files
<1>4. CASE \E p \in Partitions : FailOnTornRaw(p)
  BY <1>4 DEF FailOnTornRaw, CanStart, FailTask, WorkerUnchanged, rows,
     coordinator, files
<1>5. CASE \E p \in Partitions : CallProvider(p)
  BY <1>5 DEF CallProvider, CanStart, WorkerUnchanged, rows, coordinator, files
<1>6. CASE \E p \in Partitions : FetchAnswers(p)
  BY <1>6 DEF FetchAnswers, BeginWrite, WorkerUnchanged, rows, coordinator, files
<1>7. CASE \E p \in Partitions : EndRawWrite(p)
  BY <1>7 DEF EndRawWrite, WorkerUnchanged, rows, coordinator, files
<1>8. CASE \E p \in Partitions : Normalize(p)
  BY <1>8 DEF Normalize, BeginWrite, WorkerUnchanged, rows, coordinator, files
<1>9. CASE \E p \in Partitions : Reject(p)
  BY <1>9 DEF Reject, FailTask, WorkerUnchanged, rows, coordinator, files
<1>10. CASE \E p \in Partitions : EndNormWrite(p)
  BY <1>10 DEF EndNormWrite, WorkerUnchanged, rows, coordinator, files
<1>11. CASE \E p \in Partitions : FetchFails(p)
  BY <1>11 DEF FetchFails, FailTask, Fault, WorkerUnchanged, rows, coordinator,
     files
<1>12. CASE \E p \in Partitions : WriteFails(p)
  BY <1>12 DEF WriteFails, FailTask, Fault, Leftover, WorkerUnchanged, rows,
     coordinator, files
<1>13. CASE \/ Launch \/ Register \/ MarkRunning \/ Drain \/ DatabaseFails
         \/ Deploy \/ UNCHANGED vars
  BY <1>13 DEF Launch, Register, MarkRunning, Drain, DatabaseFails, Deploy,
     Advance, Fault, vars, files, rows, workers, coordinator, environment
<1>14. CASE \/ RecordMetric \/ RecordQuarantine \/ Deliver \/ RaiseFailures
         \/ \E p \in Partitions : FinishPartition(p)
  BY <1>14 DEF FinishPartition, RecordMetric, RecordQuarantine, Deliver,
     RaiseFailures, Failures, files, rows, workers, coordinator, environment
<1>15. CASE Exit \/ Crash
  BY <1>15 DEF Exit, Crash, ForgetMemory, Fault, files, rows, environment
<1>16. QED
  BY <1>1, <1>2, <1>3, <1>4, <1>5, <1>6, <1>7, <1>8, <1>9, <1>10, <1>11, <1>12,
     <1>13, <1>14, <1>15 DEF Next, Progress, Faults, Rest, Work

\* A worker leaves the coordinator alone, and of the environment all but the count of faults.
LEMMA WorkLeavesCoordinator ==
    ASSUME NEW p \in Partitions, Work(p) \/ FetchFails(p) \/ WriteFails(p)
    PROVE  /\ UNCHANGED <<coordinator, normalizer, launches, delivered>>
           /\ faults' \in {faults, faults + 1}
BY DEF Work, ReuseNormalized, EscapeOnTornNormalized, ReuseRaw, FailOnTornRaw, CallProvider,
       FetchAnswers, EndRawWrite, Normalize, Reject, EndNormWrite, FetchFails, WriteFails,
       FailTask, Fault, WorkerUnchanged, coordinator

\* The coordinator's state and the environment's have their types.
LEMMA CoordinatorStep == ASSUME IInv, [Next]_vars PROVE CoordinatorOK'
<1>1. CASE \E p \in Partitions : Work(p) \/ FetchFails(p) \/ WriteFails(p)
  <2>1. CoordinatorOK
    BY DEF IInv, TypeOK
  <2>2. /\ UNCHANGED <<coordinator, normalizer, launches, delivered>>
        /\ faults' \in {faults, faults + 1}
    BY <1>1, WorkLeavesCoordinator
  <2>3. QED
    BY <2>1, <2>2 DEF CoordinatorOK, coordinator
<1> USE SizeAssumption, DataAssumption
<1> USE DEF IInv, TypeOK, WorkersOK, CoordinatorOK, WorkerInv, RecordInv, Held,
        Frames, Partitions, Recording
<1>2. CASE Launch
  BY <1>2 DEF Launch, files, rows, workers, coordinator, environment
<1>3. CASE Register
  BY <1>3 DEF Register, Advance, files, rows, workers, coordinator, environment
<1>4. CASE MarkRunning
  BY <1>4 DEF MarkRunning, Advance, files, rows, workers, coordinator, environment
<1>5. CASE Drain
  BY <1>5 DEF Drain, files, rows, workers, coordinator, environment
<1>6. CASE DatabaseFails
  BY <1>6 DEF DatabaseFails, Fault, files, rows, workers, coordinator, environment
<1>7. CASE Deploy
  BY <1>7 DEF Deploy, files, rows, workers, coordinator, environment
<1>8. CASE UNCHANGED vars
  BY <1>8 DEF vars, files, rows, workers, coordinator, environment
<1>9. CASE RecordMetric
  <2>1. /\ pc' \in {"quarantine", "finish"} /\ recorded' \in {recorded, recorded \cup {cursor}}
        /\ UNCHANGED <<cursor, environment, delivered>>
    BY <1>9 DEF RecordMetric
  <2>2. QED
    BY <2>1 DEF environment
<1>10. CASE RecordQuarantine
  BY <1>10 DEF RecordQuarantine, files, rows, workers, coordinator, environment
<1>11. CASE Deliver
  BY <1>11 DEF Deliver, Failures, files, rows, workers, coordinator, environment
<1>12. CASE RaiseFailures
  BY <1>12 DEF RaiseFailures, Failures, files, rows, workers, coordinator,
     environment
<1>13. CASE \E p \in Partitions : FinishPartition(p)
  BY <1>13 DEF FinishPartition, files, rows, workers, coordinator, environment
<1>14. CASE Exit \/ Crash
  BY <1>14 DEF Exit, Crash, ForgetMemory, Fault, files, rows, environment
<1>15. QED
  BY <1>1, <1>2, <1>3, <1>4, <1>5, <1>6, <1>7, <1>8, <1>9, <1>10, <1>11,
     <1>12, <1>13, <1>14 DEF Next, Progress, Faults, Rest

\* The coordinator records only after every task of the pool has ended.
LEMMA RecordStep == ASSUME IInv, [Next]_vars PROVE RecordInv'
<1> USE SizeAssumption, DataAssumption
<1> USE DEF IInv, TypeOK, CoordinatorOK, WorkersOK, WorkerInv, RecordInv,
        Recording, Ended, Writing, Readable
<1>1. CASE \E p \in Partitions : Work(p) \/ FetchFails(p) \/ WriteFails(p)
  BY <1>1 DEF Work, ReuseNormalized, EscapeOnTornNormalized, ReuseRaw,
     FailOnTornRaw, CallProvider, FetchAnswers, EndRawWrite, Normalize, Reject,
     EndNormWrite, FetchFails, WriteFails, CanStart, FailTask, BeginWrite, Fault,
     Leftover, WorkerUnchanged, rows, coordinator, files
<1>2. CASE \/ Launch \/ Register \/ MarkRunning \/ Drain \/ DatabaseFails
         \/ Deploy \/ UNCHANGED vars
  BY <1>2 DEF Launch, Register, MarkRunning, Drain, DatabaseFails, Deploy, Advance,
     Fault, vars, files, rows, workers, coordinator, environment
<1>3. CASE \/ RecordMetric \/ RecordQuarantine \/ Deliver \/ RaiseFailures
         \/ \E p \in Partitions : FinishPartition(p)
  BY <1>3 DEF FinishPartition, RecordMetric, RecordQuarantine, Deliver,
     RaiseFailures, Failures, files, rows, workers, coordinator, environment
<1>4. CASE Exit \/ Crash
  BY <1>4 DEF Exit, Crash, ForgetMemory, Fault, files, rows, environment
<1>5. QED
  BY <1>1, <1>2, <1>3, <1>4 DEF Next, Progress, Faults, Rest

\* A SUCCESS row keeps its normalized archive.
LEMMA ManifestStep == ASSUME IInv, [Next]_vars PROVE ManifestTruth'
<1> USE SizeAssumption, DataAssumption
<1> USE DEF IInv, TypeOK, FilesOK, RowsOK, CoordinatorOK, WorkersOK, ManifestTruth,
        WorkerInv, RecordInv, Files, Recording, Held, Writing, Readable
<1>1. CASE \E p \in Partitions : Work(p) \/ FetchFails(p) \/ WriteFails(p)
  BY <1>1 DEF Work, ReuseNormalized, EscapeOnTornNormalized, ReuseRaw,
     FailOnTornRaw, CallProvider, FetchAnswers, EndRawWrite, Normalize, Reject,
     EndNormWrite, FetchFails, WriteFails, CanStart, FailTask, BeginWrite, Fault,
     Leftover, WorkerUnchanged, rows, coordinator, files
<1>2. CASE \/ Launch \/ Register \/ MarkRunning \/ Drain \/ DatabaseFails
         \/ Deploy \/ UNCHANGED vars
  BY <1>2 DEF Launch, Register, MarkRunning, Drain, DatabaseFails, Deploy, Advance,
     Fault, vars, files, rows, workers, coordinator, environment
<1>3. CASE \/ RecordMetric \/ RecordQuarantine \/ Deliver \/ RaiseFailures
         \/ \E p \in Partitions : FinishPartition(p)
  BY <1>3 DEF FinishPartition, RecordMetric, RecordQuarantine, Deliver,
     RaiseFailures, Failures, files, rows, workers, coordinator, environment
<1>4. CASE Exit \/ Crash
  BY <1>4 DEF Exit, Crash, ForgetMemory, Fault, files, rows, environment
<1>5. QED
  BY <1>1, <1>2, <1>3, <1>4 DEF Next, Progress, Faults, Rest

\* Every worker step keeps stage, memory and files of its partition in agreement.
LEMMA WorkerInvStep == ASSUME IInv, [Next]_vars PROVE \A q \in Partitions : WorkerInv(q)'
<1> USE SizeAssumption, DataAssumption
<1> USE DEF IInv, TypeOK, FilesOK, WorkersOK, CoordinatorOK, WorkerInv, RecordInv,
        Files, Held, Reasons, Recording, Writing, Readable
<1>1. CASE \E p \in Partitions : ReuseNormalized(p)
  BY <1>1 DEF ReuseNormalized, CanStart, WorkerUnchanged, rows, coordinator, files
<1>2. CASE \E p \in Partitions : EscapeOnTornNormalized(p)
  BY <1>2 DEF EscapeOnTornNormalized, CanStart, WorkerUnchanged, rows, coordinator,
     files
<1>3. CASE \E p \in Partitions : ReuseRaw(p)
  BY <1>3 DEF ReuseRaw, CanStart, WorkerUnchanged, rows, coordinator, files
<1>4. CASE \E p \in Partitions : FailOnTornRaw(p)
  BY <1>4 DEF FailOnTornRaw, CanStart, FailTask, WorkerUnchanged, rows,
     coordinator, files
<1>5. CASE \E p \in Partitions : CallProvider(p)
  BY <1>5 DEF CallProvider, CanStart, WorkerUnchanged, rows, coordinator, files
<1>6. CASE \E p \in Partitions : FetchAnswers(p)
  BY <1>6 DEF FetchAnswers, BeginWrite, WorkerUnchanged, rows, coordinator, files
<1>7. CASE \E p \in Partitions : EndRawWrite(p)
  BY <1>7 DEF EndRawWrite, WorkerUnchanged, rows, coordinator, files
<1>8. CASE \E p \in Partitions : Normalize(p)
  BY <1>8 DEF Normalize, BeginWrite, WorkerUnchanged, rows, coordinator, files
<1>9. CASE \E p \in Partitions : Reject(p)
  BY <1>9 DEF Reject, FailTask, WorkerUnchanged, rows, coordinator, files
<1>10. CASE \E p \in Partitions : EndNormWrite(p)
  BY <1>10 DEF EndNormWrite, WorkerUnchanged, rows, coordinator, files
<1>11. CASE \E p \in Partitions : FetchFails(p)
  BY <1>11 DEF FetchFails, FailTask, Fault, WorkerUnchanged, rows, coordinator,
     files
<1>12. CASE \E p \in Partitions : WriteFails(p)
  BY <1>12 DEF WriteFails, FailTask, Fault, Leftover, WorkerUnchanged, rows,
     coordinator, files
<1>13. CASE \/ Launch \/ Register \/ MarkRunning \/ Drain \/ DatabaseFails
         \/ Deploy \/ UNCHANGED vars
  BY <1>13 DEF Launch, Register, MarkRunning, Drain, DatabaseFails, Deploy,
     Advance, Fault, vars, files, rows, workers, coordinator, environment
<1>14. CASE \/ RecordMetric \/ RecordQuarantine \/ Deliver \/ RaiseFailures
         \/ \E p \in Partitions : FinishPartition(p)
  BY <1>14 DEF FinishPartition, RecordMetric, RecordQuarantine, Deliver,
     RaiseFailures, Failures, files, rows, workers, coordinator, environment
<1>15. CASE Exit \/ Crash
  BY <1>15 DEF Exit, Crash, ForgetMemory, Fault, files, rows, environment
<1>16. QED
  BY <1>1, <1>2, <1>3, <1>4, <1>5, <1>6, <1>7, <1>8, <1>9, <1>10, <1>11, <1>12,
     <1>13, <1>14, <1>15 DEF Next, Progress, Faults, Rest, Work

\* Marking a partition makes room in attempts for the failure it may record.
LEMMA CounterMark == ASSUME IInv, MarkRunning, NEW q \in Partitions PROVE CounterInv(q)'
<1> USE DEF IInv, TypeOK, RowsOK, CoordinatorOK
<1>1. /\ UNCHANGED <<norm, failedRows, freshRows>>
      /\ pc = "mark" /\ fetched' = {}
  BY DEF MarkRunning, RecordInv, files, workers
<1>2. MetricDue(q)' => q <= cursor
  BY SizeAssumption DEF MarkRunning, Advance, MetricDue, Partitions, coordinator
<1>3. CASE q = cursor
  <2>1. CASE UNCHANGED <<status, attempts>> /\ status[q] = "SUCCESS"
    BY <1>1, <2>1 DEF CounterInv, Readable
  <2>2. CASE attempts' = [attempts EXCEPT ![cursor] = @ + 1]
    BY <1>1, <1>3, <2>2 DEF CounterInv, Readable
  <2>3. QED
    BY <1>3, <2>1, <2>2 DEF MarkRunning
<1>4. CASE q # cursor
  <2>1. status'[q] = status[q] /\ attempts'[q] = attempts[q]
    BY <1>4 DEF MarkRunning, Held
  <2>2. MetricDue(q)' => MetricDue(q)
    BY <1>1, <1>2, <1>4 DEF MetricDue, Partitions
  <2>3. QED
    BY <1>1, <2>1, <2>2 DEF CounterInv, Readable
<1>5. QED
  BY <1>3, <1>4

\* Finishing a row keeps the room: a task of a SUCCESS partition cannot have failed.
LEMMA CounterFinish ==
    ASSUME IInv, NEW p \in Partitions, FinishPartition(p), NEW q \in Partitions
    PROVE  CounterInv(q)'
<1> USE DEF IInv, TypeOK, RowsOK, WorkersOK
<1>1. /\ UNCHANGED <<norm, attempts, failedRows, freshRows, fetched>>
      /\ MetricDue(q)' => MetricDue(q)
  BY DEF FinishPartition, files, workers, MetricDue
<1>2. status'[q] # "SUCCESS" => status[q] # "SUCCESS"
  <2>1. CASE q = p /\ stage[p] = "failed"
    BY <2>1 DEF WorkerInv, ManifestTruth
  <2>2. CASE q = p /\ stage[p] # "failed"
    BY <2>2 DEF FinishPartition, Held
  <2>3. CASE q # p
    BY <2>3 DEF FinishPartition, Held
  <2>4. QED
    BY <2>1, <2>2, <2>3
<1>3. QED
  BY <1>1, <1>2 DEF CounterInv, Readable

\* Recording a metric uses the room up; a fresh SUCCESS row is a partition's first.
LEMMA CounterMetric == ASSUME IInv, RecordMetric, NEW q \in Partitions PROVE CounterInv(q)'
<1> USE DEF IInv, TypeOK, RowsOK, CoordinatorOK
<1>1. /\ pc = "metric" /\ cursor \notin recorded
      /\ UNCHANGED <<norm, status, attempts, cursor, fetched>>
  BY DEF RecordMetric, RecordInv, files, workers
<1>2. CASE q = cursor
  <2>1. MetricDue(q) /\ ~MetricDue(q)'
    BY <1>1, <1>2 DEF RecordMetric, MetricDue
  <2>2. CASE stage[cursor] = "failed"
    <3>1. status[q] # "SUCCESS"
      BY <1>2, <2>2 DEF WorkerInv, ManifestTruth
    <3>2. failedRows'[q] = failedRows[q] + 1 /\ freshRows' = freshRows
      BY <1>2, <2>2 DEF RecordMetric
    <3>3. QED
      BY <1>1, <2>1, <3>1, <3>2 DEF CounterInv, Readable
  <2>3. CASE stage[cursor] # "failed"
    <3>1. Readable(norm[q])
      BY <1>1, <1>2, <2>3, DataAssumption DEF RecordInv, Recording, WorkerInv, Readable
    <3>2. /\ failedRows' = failedRows
          /\ \/ freshRows'[q] = freshRows[q]
             \/ freshRows'[q] = freshRows[q] + 1 /\ q \in fetched
      BY <1>2, <2>3 DEF RecordMetric
    <3>3. QED
      BY <1>1, <2>1, <3>1, <3>2 DEF CounterInv, Readable
  <2>4. QED
    BY <2>2, <2>3
<1>3. CASE q # cursor
  <2>1. failedRows'[q] = failedRows[q] /\ freshRows'[q] = freshRows[q]
    BY <1>3 DEF RecordMetric
  <2>2. MetricDue(q)' => MetricDue(q)
    BY <1>1, <1>3 DEF RecordMetric, MetricDue
  <2>3. QED
    BY <1>1, <2>1, <2>2 DEF CounterInv, Readable
<1>4. QED
  BY <1>2, <1>3

\* The counters keep agreeing with the outcomes still to be recorded.
LEMMA CounterStep == ASSUME IInv, [Next]_vars PROVE \A q \in Partitions : CounterInv(q)'
<1> USE SizeAssumption, DataAssumption
<1> USE DEF IInv, TypeOK, FilesOK, RowsOK, WorkersOK, CoordinatorOK, CounterInv,
        MetricDue, WorkerInv, RecordInv, Files, Held, Partitions, Writing, Readable
<1>1. CASE \E p \in Partitions : ReuseNormalized(p)
  BY <1>1 DEF ReuseNormalized, CanStart, WorkerUnchanged, rows, coordinator, files
<1>2. CASE \E p \in Partitions : EscapeOnTornNormalized(p)
  BY <1>2 DEF EscapeOnTornNormalized, CanStart, WorkerUnchanged, rows, coordinator,
     files
<1>3. CASE \E p \in Partitions : ReuseRaw(p)
  BY <1>3 DEF ReuseRaw, CanStart, WorkerUnchanged, rows, coordinator, files
<1>4. CASE \E p \in Partitions : FailOnTornRaw(p)
  BY <1>4 DEF FailOnTornRaw, CanStart, FailTask, WorkerUnchanged, rows,
     coordinator, files
<1>5. CASE \E p \in Partitions : CallProvider(p)
  BY <1>5 DEF CallProvider, CanStart, WorkerUnchanged, rows, coordinator, files
<1>6. CASE \E p \in Partitions : FetchAnswers(p)
  BY <1>6 DEF FetchAnswers, BeginWrite, WorkerUnchanged, rows, coordinator, files
<1>7. CASE \E p \in Partitions : EndRawWrite(p)
  BY <1>7 DEF EndRawWrite, WorkerUnchanged, rows, coordinator, files
<1>8. CASE \E p \in Partitions : Normalize(p)
  BY <1>8 DEF Normalize, BeginWrite, WorkerUnchanged, rows, coordinator, files
<1>9. CASE \E p \in Partitions : Reject(p)
  BY <1>9 DEF Reject, FailTask, WorkerUnchanged, rows, coordinator, files
<1>10. CASE \E p \in Partitions : EndNormWrite(p)
  BY <1>10 DEF EndNormWrite, WorkerUnchanged, rows, coordinator, files
<1>11. CASE \E p \in Partitions : FetchFails(p)
  BY <1>11 DEF FetchFails, FailTask, Fault, WorkerUnchanged, rows, coordinator,
     files
<1>12. CASE \E p \in Partitions : WriteFails(p)
  <2> PICK p \in Partitions : WriteFails(p)
    BY <1>12
  <2>1. UNCHANGED <<rows, coordinator, fetched>> /\ stage[p] \in Writing
    BY DEF WriteFails, FailTask, WorkerUnchanged
  <2>2. \A q \in Partitions \ {p} : norm'[q] = norm[q]
    BY DEF WriteFails
  <2>3. ~Readable(norm[p])
    BY <2>1
  <2>4. ASSUME NEW q \in Partitions PROVE Readable(norm[q]) => Readable(norm'[q])
    BY <2>2, <2>3
  <2>5. QED
    BY <2>1, <2>4 DEF rows, coordinator
<1>13. CASE Launch
  BY <1>13 DEF Launch, files, rows, workers, coordinator, environment
<1>14. CASE Register
  <2>1. /\ UNCHANGED <<norm, attempts, failedRows, freshRows, fetched>>
        /\ pc = "register" /\ pc' \in {"register", "mark"} /\ (pc' = "mark" => cursor' = 1)
        /\ status' = [status EXCEPT ![cursor] = IF @ = Absent THEN "PENDING" ELSE @]
    BY <1>14 DEF Register, Advance, files, workers, environment
  <2>2. \A q \in Partitions : ~MetricDue(q)'
    BY <2>1
  <2>3. QED
    BY <2>1, <2>2
<1>15. CASE MarkRunning
  BY <1>15, CounterMark
<1>16. CASE Drain
  BY <1>16 DEF Drain, files, rows, workers, coordinator, environment
<1>17. CASE DatabaseFails
  BY <1>17 DEF DatabaseFails, Fault, files, rows, workers, coordinator, environment
<1>18. CASE Deploy
  BY <1>18 DEF Deploy, files, rows, workers, coordinator, environment
<1>19. CASE UNCHANGED vars
  BY <1>19 DEF vars, files, rows, workers, coordinator, environment
<1>20. CASE RecordMetric
  BY <1>20, CounterMetric
<1>21. CASE RecordQuarantine
  BY <1>21 DEF RecordQuarantine, files, rows, workers, coordinator, environment
<1>22. CASE Deliver
  BY <1>22 DEF Deliver, Failures, files, rows, workers, coordinator, environment
<1>23. CASE RaiseFailures
  BY <1>23 DEF RaiseFailures, Failures, files, rows, workers, coordinator,
     environment
<1>24. CASE \E p \in Partitions : FinishPartition(p)
  BY <1>24, CounterFinish
<1>25. CASE Exit \/ Crash
  BY <1>25 DEF Exit, Crash, ForgetMemory, Fault, files, rows, environment
<1>26. QED
  BY <1>1, <1>2, <1>3, <1>4, <1>5, <1>6, <1>7, <1>8, <1>9, <1>10, <1>11, <1>12,
     <1>13, <1>14, <1>15, <1>16, <1>17, <1>18, <1>19, <1>20, <1>21, <1>22, <1>23,
     <1>24, <1>25 DEF Next, Progress, Faults, Rest, Work

(***************************************************************************)
(* The theorems.                                                           *)
(***************************************************************************)
\* IInv holds before the first launch.
LEMMA InitInv == Init => IInv
<1> USE SizeAssumption, DataAssumption DEF Init, Readable
<1>1. Init => TypeOK
  BY DEF TypeOK, FilesOK, RowsOK, WorkersOK, CoordinatorOK, Files, Held, Frames, Partitions
<1>2. Init => RecordInv /\ ManifestTruth
  BY DEF RecordInv, Recording, ManifestTruth
<1>3. Init => \A p \in Partitions : WorkerInv(p) /\ ChainInv(p) /\ CounterInv(p)
  BY DEF WorkerInv, ChainInv, CounterInv, MetricDue
<1>4. QED
  BY <1>1, <1>2, <1>3 DEF IInv

\* Every step keeps IInv: the lemmas above, one conjunct each.
LEMMA StepInv == IInv /\ [Next]_vars => IInv'
BY FilesStep, RowsStep, WorkersStep, CoordinatorStep, RecordStep, ManifestStep,
   WorkerInvStep, ChainStep, CounterStep DEF IInv, TypeOK

\* The inductive invariant holds in every state of the run.
THEOREM InductiveInvariant == Spec => []IInv
BY InitInv, StepInv, PTL DEF Spec

\* Every variable keeps its type, whatever crashes, fails or is released.
THEOREM TypeCorrect == Spec => []TypeOK
<1>1. IInv => TypeOK
  BY DEF IInv
<1>2. QED
  BY <1>1, InductiveInvariant, PTL

\* A normalized archive always has, beside it, the raw evidence it was made from.
THEOREM EvidenceIsChained == Spec => []EvidenceChain
<1>1. IInv => EvidenceChain
  BY DataAssumption DEF IInv, EvidenceChain, ChainInv, Readable
<1>2. QED
  BY <1>1, InductiveInvariant, PTL

\* The manifest reports SUCCESS only for partitions whose archive can be read back.
THEOREM ManifestIsTrue == Spec => []ManifestTruth
<1>1. IInv => ManifestTruth
  BY DEF IInv
<1>2. QED
  BY <1>1, InductiveInvariant, PTL

\* Failures never outnumber attempts, and a partition is freshly ingested once.
THEOREM CountersDoAgree == Spec => []CountersAgree
<1>1. IInv => CountersAgree
  BY DEF IInv, CountersAgree, CounterInv
<1>2. QED
  BY <1>1, InductiveInvariant, PTL

(***************************************************************************)
(* What has been recorded stays true until the attempt ends.               *)
(***************************************************************************)
IsRecorded(p) ==
    /\ status[p] = IF stage[p] = "failed" THEN "FAILED" ELSE "SUCCESS"
    /\ stage[p] = "failed" => <<p, reason[p]>> \in quarantine /\ failedRows[p] > 0
    /\ stage[p] # "failed" /\ p \in fetched => freshRows[p] > 0

OutcomeInv ==
    /\ recorded # {} => \A p \in Partitions : stage[p] \in Ended
    /\ \A p \in recorded : IsRecorded(p)
    /\ pc \in {"metric", "quarantine"} =>
         status[cursor] = IF stage[cursor] = "failed" THEN "FAILED" ELSE "SUCCESS"
    /\ pc = "quarantine" => failedRows[cursor] > 0
    /\ pc \in {"returned", "raised"} => recorded = Partitions

\* Workers rest while outcomes are recorded, and nobody writes a recorded row again.
LEMMA OutcomeStep == ASSUME IInv, OutcomeInv, [Next]_vars PROVE OutcomeInv'
<1> USE SizeAssumption, DataAssumption
<1> USE DEF IInv, TypeOK, RowsOK, CoordinatorOK, WorkersOK, RecordInv, OutcomeInv, IsRecorded,
        Recording, Ended, Writing, Held
<1>1. CASE \E p \in Partitions : Work(p) \/ FetchFails(p) \/ WriteFails(p)
  <2>1. recorded = {} /\ recorded' = recorded /\ pc \notin Recording \cup {"returned", "raised"} /\ pc' = pc
    BY <1>1 DEF Work, ReuseNormalized, EscapeOnTornNormalized, ReuseRaw, FailOnTornRaw,
       CallProvider, FetchAnswers, EndRawWrite, Normalize, Reject, EndNormWrite, FetchFails,
       WriteFails, CanStart, WorkerUnchanged, coordinator, Partitions
  <2>2. QED
    BY <2>1
<1>2. CASE Launch \/ Register \/ MarkRunning
  <2>1. recorded = {} /\ recorded' = {} /\ pc' \in {"register", "mark", "pool"}
    BY <1>2 DEF Launch, Register, MarkRunning, Advance
  <2>2. QED
    BY <2>1
<1>3. CASE Drain \/ DatabaseFails \/ Deploy \/ UNCHANGED vars
  BY <1>3 DEF Drain, DatabaseFails, Deploy, Fault, vars, rows, workers, coordinator
<1>4. CASE \E p \in Partitions : FinishPartition(p)
  BY <1>4 DEF FinishPartition, workers
<1>5. CASE RecordMetric
  BY <1>5 DEF RecordMetric, workers
<1>6. CASE RecordQuarantine
  BY <1>6 DEF RecordQuarantine, workers
<1>7. CASE Deliver \/ RaiseFailures
  BY <1>7 DEF Deliver, RaiseFailures, rows, workers
<1>8. CASE Exit \/ Crash
  BY <1>8 DEF Exit, Crash, ForgetMemory
<1>9. QED
  BY <1>1, <1>2, <1>3, <1>4, <1>5, <1>6, <1>7, <1>8 DEF Next, Progress, Faults, Rest

\* When an attempt ends by itself, each outcome is in the manifest, and each failure of it in
\* the quarantine index; failures and accepted answers have their metric rows.
THEOREM OutcomesAreRecorded == Spec => []CompletedWorkIsRecorded
<1>1. Init => OutcomeInv
  BY DEF Init, OutcomeInv
<1>2. IInv /\ OutcomeInv /\ [Next]_vars => OutcomeInv'
  BY OutcomeStep
<1>3. IInv /\ OutcomeInv => CompletedWorkIsRecorded
  BY DEF OutcomeInv, IsRecorded, CompletedWorkIsRecorded
<1>4. QED
  BY <1>1, <1>2, <1>3, InductiveInvariant, PTL DEF Spec

\* No step changes a completely written archive.
THEOREM ArchivesAreImmutable == Spec => ArchivesImmutable
<1>1. IInv /\ [Next]_vars
        => [\A p \in Partitions : /\ Readable(raw[p]) => raw'[p] = raw[p]
                                  /\ Readable(norm[p]) => norm'[p] = norm[p]]_vars
  BY WriteOnce
<1>2. QED
  BY <1>1, InductiveInvariant, PTL DEF Spec, ArchivesImmutable

\* No attempt takes a partition's SUCCESS back.
THEOREM SuccessStays == Spec => SuccessIsFinal
<1>1. IInv /\ [Next]_vars
        => [\A p \in Partitions : status[p] = "SUCCESS" => status'[p] = "SUCCESS"]_vars
  <2> SUFFICES ASSUME IInv, [Next]_vars, NEW p \in Partitions, status[p] = "SUCCESS"
               PROVE  status'[p] = "SUCCESS"
    OBVIOUS
  <2> USE DEF IInv, TypeOK, RowsOK, Held
  <2>1. CASE UNCHANGED rows
    BY <2>1 DEF rows
  <2>2. CASE Register
    BY <2>2, DataAssumption DEF Register
  <2>3. CASE MarkRunning
    BY <2>3 DEF MarkRunning
  <2>4. CASE RecordMetric \/ RecordQuarantine
    BY <2>4 DEF RecordMetric, RecordQuarantine
  <2>5. CASE \E q \in Partitions : FinishPartition(q)
    BY <2>5 DEF FinishPartition, ManifestTruth, WorkerInv
  <2>6. QED
    BY <2>1, <2>2, <2>3, <2>4, <2>5, WhoWritesRows DEF RowWriter
<1>2. QED
  BY <1>1, InductiveInvariant, PTL DEF Spec, SuccessIsFinal

Pinned == [p \in Partitions |-> IF Readable(norm[p]) THEN norm[p] ELSE Absent]

\* Only Deliver changes what the caller was given.
LEMMA WhoDelivers == [Next]_vars => UNCHANGED delivered \/ (Deliver /\ UNCHANGED norm)
BY DEF Next, Progress, Work, Faults, vars, files, rows, workers, coordinator,
       environment, WorkerUnchanged, Launch, Register, MarkRunning, ReuseNormalized,
       EscapeOnTornNormalized, ReuseRaw, FailOnTornRaw, CallProvider, FetchAnswers,
       EndRawWrite, Normalize, Reject, EndNormWrite, FetchFails, WriteFails, Drain,
       FinishPartition, RecordMetric, RecordQuarantine, Deliver, RaiseFailures, Exit,
       DatabaseFails, Crash, Deploy, Rest

\* Ingestion implements CheckpointedIngest: the end of a normalized write pins a
\* partition, a return delivers the pinned bars, and every other step is invisible.
THEOREM IngestionImplementsContract == Spec => ImplementsContract
<1>1. Init => Contract!Init
  BY DataAssumption DEF Init, Contract!Init, Readable
<1>2. ASSUME IInv, [Next]_vars
      PROVE  [Contract!Next]_(Contract!vars)
  <2>1. CASE Deliver /\ UNCHANGED norm
    <3>1. \A p \in Partitions : norm[p] \in Bars /\ frame[p] = norm[p]
      <4>1. \A p \in Partitions : stage[p] = "done"
        BY <1>2, <2>1 DEF Deliver, Failures, IInv, RecordInv, Recording
      <4>2. QED
        BY <4>1, <1>2 DEF IInv, WorkerInv
    <3>2. \A p \in Partitions : Readable(norm[p]) /\ norm[p] # Absent
      BY <3>1, DataAssumption DEF Readable
    <3>3. frame = [p \in Partitions |-> frame[p]]
      BY <1>2 DEF IInv, TypeOK, WorkersOK, Held
    <3>4. frame = Pinned /\ \A p \in Partitions : Pinned[p] # Absent
      BY <3>1, <3>2, <3>3 DEF Pinned
    <3>5. Pinned' = Pinned
      BY <2>1 DEF Pinned, Readable
    <3>6. Contract!Deliver
      BY <3>4, <3>5, <2>1 DEF Contract!Deliver, Deliver, Pinned
    <3>7. QED
      BY <3>6 DEF Contract!Next
  <2>2. CASE UNCHANGED delivered /\ \E p \in Partitions : EndNormWrite(p)
    <3>1. PICK p \in Partitions : EndNormWrite(p)
      BY <2>2
    <3>2. PICK b \in Bars : norm' = [norm EXCEPT ![p] = b] /\ norm[p] = Torn
      BY <3>1, <1>2 DEF EndNormWrite, IInv, WorkerInv
    <3>3. Pinned' = [Pinned EXCEPT ![p] = b] /\ Pinned[p] = Absent
      <4>1. norm \in [Partitions -> Bars \cup {Absent, Torn}]
        BY <1>2 DEF IInv, TypeOK, FilesOK, Files
      <4>2. QED
        BY <3>2, <4>1, DataAssumption DEF Pinned, Readable
    <3>4. Contract!Pin(p)
      BY <3>3, <2>2 DEF Contract!Pin, Pinned
    <3>5. QED
      BY <3>4 DEF Contract!Next
  <2>3. CASE UNCHANGED delivered /\ ~\E p \in Partitions : EndNormWrite(p)
    <3>1. \A p \in Partitions :
              norm'[p] = norm[p] \/ (~Readable(norm[p]) /\ ~Readable(norm'[p]))
      BY <1>2, <2>3, WriteOnce
    <3>2. Pinned' = Pinned
      BY <3>1 DEF Pinned, Readable
    <3>3. QED
      BY <3>2, <2>3 DEF Contract!vars, Pinned
  <2>4. QED
    BY <1>2, <2>1, <2>2, <2>3, WhoDelivers
<1>3. QED
  BY <1>1, <1>2, InductiveInvariant, PTL DEF Spec, ImplementsContract, Contract!Spec

(***************************************************************************)
(* The vendor client, for any number of threads, lists and pages, and any  *)
(* interval, lag and back-off.  What is proved rests on MassiveAssumption, *)
(* which each result names as a hypothesis.                                *)
(***************************************************************************)
CONSTANTS
    Threads, Interval, MaxLag, MaxRetries, LongestBackoff, RetryAfters, Pages, None, MaxCalls

VARIABLES limiter, nextIn, holder, thread, sinceCall

Client == INSTANCE MassiveClient

\* All clients have the limiter that the first one made, and its lock is held by whoever sleeps
\* for it, who does not wake before the interval is over.
LimiterInv ==
    /\ limiter = None => /\ sinceCall = Interval
                         /\ \A t \in Threads : thread[t].phase = "idle" /\ nextIn[t] = 0
    /\ \A t \in Threads : thread[t].phase # "idle" => thread[t].client = limiter
    /\ \A t \in Threads : thread[t].phase = "spacing" =>
          holder[limiter] = t /\ nextIn[limiter] <= thread[t].timer

\* Since the last permission, time has passed by as much as nextIn is short of the interval, and
\* the call it was given for came within MaxLag of it.  While MaxLag is below the interval, no
\* second permission can be given before that call.
SpacingInv ==
    limiter # None /\ MaxLag < Interval =>
        /\ sinceCall >= Interval - nextIn[limiter] - MaxLag
        /\ \A t \in Threads : thread[t].phase = "permitted" =>
              /\ thread[t].lag = Interval - nextIn[limiter]
              /\ sinceCall >= Interval - MaxLag
        /\ \A t, u \in Threads :
              thread[t].phase = "permitted" /\ thread[u].phase = "permitted" => t = u

ClientInv == Client!TypeOK /\ LimiterInv /\ SpacingInv

ThreadType ==
    [phase : Client!Phases, client : Threads \cup {None}, page : 1..Pages, attempt : 0..MaxRetries,
     timer : Nat, lag : 0..MaxLag, list : Seq(1..Pages), calls : 0..MaxCalls]

\* The back-off is a number: 2^n is the number of the subsets of a set of n elements.
LEMMA PowerType == ASSUME NEW n \in Nat PROVE 2^n \in Nat
<1>1. IsFiniteSet(1..n) /\ Cardinality(1..n) = n
  BY FS_Interval
<1>2. IsFiniteSet(SUBSET (1..n)) /\ Cardinality(SUBSET (1..n)) = 2^n
  BY <1>1, FS_SUBSET, Zenon
<1>3. QED BY <1>2, FS_CardinalityType

\* The fields of the record that says what a thread does, and the changes made to them.
LEMMA ThreadFields ==
  ASSUME NEW r \in ThreadType
  PROVE  /\ r.phase \in Client!Phases /\ r.client \in Threads \cup {None} /\ r.page \in 1..Pages
         /\ r.attempt \in 0..MaxRetries /\ r.timer \in Nat /\ r.lag \in 0..MaxLag
         /\ r.list \in Seq(1..Pages) /\ r.calls \in 0..MaxCalls
BY DEF ThreadType

LEMMA PhaseChange ==
  ASSUME NEW r \in ThreadType, NEW phase \in Client!Phases
  PROVE  [r EXCEPT !.phase = phase] \in ThreadType
BY DEF ThreadType

LEMMA LagChange ==
  ASSUME NEW r \in ThreadType, NEW phase \in Client!Phases, NEW lag \in 0..MaxLag
  PROVE  [r EXCEPT !.phase = phase, !.lag = lag] \in ThreadType
BY DEF ThreadType

LEMMA TimerChange ==
  ASSUME NEW r \in ThreadType, NEW phase \in Client!Phases, NEW timer \in Nat
  PROVE  [r EXCEPT !.phase = phase, !.timer = timer] \in ThreadType
BY DEF ThreadType

LEMMA ClockChange ==
  ASSUME NEW r \in ThreadType, NEW timer \in Nat, NEW lag \in 0..MaxLag
  PROVE  [r EXCEPT !.timer = timer, !.lag = lag] \in ThreadType
BY DEF ThreadType

LEMMA AttemptChange ==
  ASSUME NEW r \in ThreadType, NEW phase \in Client!Phases, NEW timer \in Nat,
         NEW attempt \in 0..MaxRetries
  PROVE  [r EXCEPT !.phase = phase, !.attempt = attempt, !.timer = timer] \in ThreadType
BY DEF ThreadType

LEMMA ListChange ==
  ASSUME NEW r \in ThreadType, NEW phase \in Client!Phases, NEW list \in Seq(1..Pages)
  PROVE  [r EXCEPT !.phase = phase, !.list = list] \in ThreadType
BY DEF ThreadType

LEMMA PageChange ==
  ASSUME NEW r \in ThreadType, NEW phase \in Client!Phases, NEW list \in Seq(1..Pages),
         NEW page \in 1..Pages, NEW attempt \in 0..MaxRetries
  PROVE  [r EXCEPT !.phase = phase, !.page = page, !.attempt = attempt, !.list = list]
           \in ThreadType
BY DEF ThreadType

LEMMA ListBegin ==
  ASSUME NEW r \in ThreadType, NEW phase \in Client!Phases, NEW client \in Threads \cup {None},
         NEW calls \in 0..MaxCalls
  PROVE  [r EXCEPT !.phase = phase, !.client = client, !.calls = calls] \in ThreadType
BY DEF ThreadType

LEMMA CallsChange ==
  ASSUME NEW r \in ThreadType, NEW calls \in 0..MaxCalls
  PROVE  [r EXCEPT !.calls = calls] \in ThreadType
BY DEF ThreadType

LEMMA IdleThreadType == ASSUME Client!MassiveAssumption PROVE Client!IdleThread \in ThreadType
BY DEF Client!MassiveAssumption, Client!IdleThread, ThreadType, Client!Phases

LEMMA ClientInit == ASSUME Client!MassiveAssumption, Client!Init PROVE ClientInv
<1>1. Client!IdleThread \in ThreadType
  BY DEF Client!MassiveAssumption, Client!IdleThread, ThreadType, Client!Phases
<1>2. Client!TypeOK
  BY <1>1 DEF Client!MassiveAssumption, Client!Init, Client!TypeOK, ThreadType
<1>3. LimiterInv /\ SpacingInv
  BY DEF Client!Init, LimiterInv, SpacingInv, Client!IdleThread
<1>4. QED BY <1>2, <1>3 DEF ClientInv

\* What a thread waits for after a failure is a number, exponential or asked for.
LEMMA FailType ==
  ASSUME Client!MassiveAssumption, ClientInv, NEW t \in Threads, Client!FailTransiently(t)
  PROVE  \E delay \in Nat : Client!Fail(t, delay)
<1>1. PICK delay \in {Client!Least(2^thread[t].attempt, LongestBackoff)} \cup RetryAfters :
               Client!Fail(t, delay)
  BY DEF Client!FailTransiently
<1>2. thread[t].attempt \in Nat
  BY DEF Client!MassiveAssumption, ClientInv, Client!TypeOK
<1>3. 2^thread[t].attempt \in Nat
  BY <1>2, PowerType
<1>4. delay \in Nat
  BY <1>3 DEF Client!MassiveAssumption, Client!Least
<1>5. QED BY <1>1, <1>4

LEMMA ClientTypeStep ==
  ASSUME Client!MassiveAssumption, ClientInv, [Client!Next]_Client!vars
  PROVE  Client!TypeOK'
<1>1. /\ limiter \in Threads \cup {None} /\ sinceCall \in 0..Interval
      /\ nextIn \in [Threads -> 0..Interval] /\ holder \in [Threads -> Threads \cup {None}]
      /\ thread \in [Threads -> ThreadType]
  BY DEF ClientInv, Client!TypeOK, ThreadType
<1>2. {"idle", "ready", "spacing", "permitted", "called", "backoff", "returned", "raised"}
        \subseteq Client!Phases
  BY DEF Client!Phases
<1>3. /\ Interval \in Nat \ {0} /\ Pages \in Nat \ {0} /\ MaxLag \in Nat
      /\ MaxRetries \in Nat /\ MaxCalls \in Nat /\ 0 \in 0..MaxLag
      /\ 1 \in 1..Pages /\ 0 \in 0..MaxRetries
  BY DEF Client!MassiveAssumption
<1>4. SUFFICES /\ limiter' \in Threads \cup {None} /\ sinceCall' \in 0..Interval
               /\ nextIn' \in [Threads -> 0..Interval]
               /\ holder' \in [Threads -> Threads \cup {None}]
               /\ thread' \in [Threads -> ThreadType]
  BY DEF Client!TypeOK, ThreadType
<1>5. \A t \in Threads : thread[t].phase # "idle" => thread[t].client \in Threads
  BY <1>1 DEF ClientInv, LimiterInv
<1>6. CASE UNCHANGED Client!vars
  BY <1>1, <1>6 DEF Client!vars
<1>7. CASE Client!Tick
  <2>1. ASSUME NEW t \in Threads PROVE thread'[t] \in ThreadType
    <3> DEFINE late == IF thread[t].phase = "permitted" THEN thread[t].lag + 1 ELSE 0
               left == Client!Down(thread[t].timer)
    <3>1. thread'[t] = [thread[t] EXCEPT !.timer = left, !.lag = late]
      BY <1>7 DEF Client!Tick
    <3>2. thread[t] \in ThreadType
      BY <1>1
    <3>3. thread[t].lag \in 0..MaxLag /\ thread[t].timer \in Nat
      BY <3>2, ThreadFields
    <3>4. thread[t].phase = "permitted" => thread[t].lag < MaxLag
      BY <1>7 DEF Client!Tick
    <3>5. late \in 0..MaxLag
      BY <1>3, <3>3, <3>4
    <3>6. left \in Nat
      BY <3>3 DEF Client!Down
    <3> HIDE DEF late, left
    <3>7. [thread[t] EXCEPT !.timer = left, !.lag = late] \in ThreadType
      BY <3>2, <3>5, <3>6, ClockChange
    <3>8. QED BY <3>1, <3>7
  <2>2. thread' \in [Threads -> ThreadType]
    <3>1. thread' = [t \in Threads |-> thread'[t]]
      BY <1>7 DEF Client!Tick
    <3>2. QED BY <2>1, <3>1
  <2>3. nextIn' = [t \in Threads |-> Client!Down(nextIn[t])]
    BY <1>7 DEF Client!Tick
  <2>4. \A t \in Threads : Client!Down(nextIn[t]) \in 0..Interval
    BY <1>1, <1>3 DEF Client!Down
  <2>5. sinceCall' \in 0..Interval
    <3>1. sinceCall' = IF sinceCall < Interval THEN sinceCall + 1 ELSE Interval
      BY <1>7 DEF Client!Tick
    <3>2. QED BY <1>1, <1>3, <3>1
  <2>6. limiter' = limiter /\ holder' = holder
    BY <1>7 DEF Client!Tick
  <2>7. QED BY <2>2, <2>3, <2>4, <2>5, <2>6, <1>1
<1>8. CASE \E t \in Threads : Client!Step(t)
  <2>1. PICK t \in Threads : Client!Step(t)
    BY <1>8
  <2>2. thread[t] \in ThreadType
    BY <1>1
  <2>3. /\ thread[t].page \in 1..Pages /\ thread[t].attempt \in 0..MaxRetries
        /\ thread[t].list \in Seq(1..Pages) /\ thread[t].calls \in 0..MaxCalls
    BY <2>2, ThreadFields
  <2>4. CASE Client!Begin(t)
    <3>1. thread[t].calls + 1 \in 0..MaxCalls /\ limiter' \in Threads \cup {None}
      BY <1>1, <1>3, <2>3, <2>4 DEF Client!Begin
    <3>2. [Client!IdleThread EXCEPT !.phase = "ready", !.client = limiter',
                                    !.calls = thread[t].calls + 1] \in ThreadType
      BY <1>2, <3>1, IdleThreadType, ListBegin
    <3>3. QED BY <1>1, <2>4, <3>1, <3>2 DEF Client!Begin
  <2>5. CASE Client!Pass(t) \/ Client!Wake(t)
    <3>1. thread[t].client \in Threads
      BY <1>5, <2>5 DEF Client!Pass, Client!Wake
    <3>2. [thread[t] EXCEPT !.phase = "permitted", !.lag = 0] \in ThreadType
      BY <1>2, <1>3, <2>2, LagChange
    <3>3. /\ thread' = [thread EXCEPT ![t] = [thread[t] EXCEPT !.phase = "permitted", !.lag = 0]]
          /\ nextIn' = [nextIn EXCEPT ![thread[t].client] = Interval]
          /\ sinceCall' = sinceCall /\ limiter' = limiter
      BY <2>5 DEF Client!Pass, Client!Wake, Client!Permit
    <3>4. nextIn' \in [Threads -> 0..Interval]
      BY <1>1, <1>3, <3>1, <3>3
    <3>5. holder' \in [Threads -> Threads \cup {None}]
      BY <1>1, <2>5, <3>1 DEF Client!Pass, Client!Wake
    <3>6. QED BY <1>1, <3>2, <3>3, <3>4, <3>5
  <2>6. CASE Client!Sleep(t)
    <3>1. thread[t].client \in Threads
      BY <1>5, <2>6 DEF Client!Sleep
    <3>2. nextIn[thread[t].client] \in Nat
      BY <1>1, <1>3, <3>1
    <3>3. [thread[t] EXCEPT !.phase = "spacing", !.timer = nextIn[thread[t].client]] \in ThreadType
      BY <1>2, <2>2, <3>2, TimerChange
    <3>4. QED BY <1>1, <2>6, <3>1, <3>3 DEF Client!Sleep
  <2>7. CASE Client!Call(t)
    <3>1. [thread[t] EXCEPT !.phase = "called", !.lag = 0] \in ThreadType
      BY <1>2, <1>3, <2>2, LagChange
    <3>2. QED BY <1>1, <1>3, <2>7, <3>1 DEF Client!Call
  <2>8. CASE Client!Answer(t)
    <3> DEFINE read == Append(thread[t].list, thread[t].page)
    <3>1. read \in Seq(1..Pages)
      BY <2>3
    <3> HIDE DEF read
    <3>2. CASE thread[t].page < Pages
      <4>1. thread[t].page + 1 \in 1..Pages
        <5>1. Pages \in Nat /\ thread[t].page \in 1..Pages
          BY <1>3, <2>3
        <5>2. QED BY <3>2, <5>1
      <4>2. [thread[t] EXCEPT !.phase = "ready", !.page = thread[t].page + 1, !.attempt = 0,
                              !.list = read] \in ThreadType
        BY <1>2, <1>3, <2>2, <3>1, <4>1, PageChange
      <4>3. thread' = [thread EXCEPT ![t] =
              [thread[t] EXCEPT !.phase = "ready", !.page = thread[t].page + 1, !.attempt = 0,
                                !.list = read]]
        BY <2>8, <3>2 DEF Client!Answer, read
      <4>4. QED BY <1>1, <2>8, <4>2, <4>3 DEF Client!Answer
    <3>3. CASE ~(thread[t].page < Pages)
      <4>1. [thread[t] EXCEPT !.phase = "returned", !.list = read] \in ThreadType
        BY <1>2, <2>2, <3>1, ListChange
      <4>2. thread' = [thread EXCEPT ![t] =
              [thread[t] EXCEPT !.phase = "returned", !.list = read]]
        BY <2>8, <3>3 DEF Client!Answer, read
      <4>3. QED BY <1>1, <2>8, <4>1, <4>2 DEF Client!Answer
    <3>4. QED BY <3>2, <3>3
  <2>9. CASE Client!FailTransiently(t)
    <3>1. PICK delay \in Nat : Client!Fail(t, delay)
      BY <2>9, FailType
    <3>2. CASE thread[t].attempt = MaxRetries
      <4>1. [thread[t] EXCEPT !.phase = "raised"] \in ThreadType
        BY <1>2, <2>2, PhaseChange
      <4>2. thread' = [thread EXCEPT ![t] = [thread[t] EXCEPT !.phase = "raised"]]
        BY <3>1, <3>2 DEF Client!Fail
      <4>3. UNCHANGED <<limiter, nextIn, holder, sinceCall>>
        BY <3>1 DEF Client!Fail
      <4>4. QED BY <1>1, <4>1, <4>2, <4>3
    <3>3. CASE thread[t].attempt # MaxRetries
      <4>1. thread[t].attempt + 1 \in 0..MaxRetries
        <5>1. MaxRetries \in Nat /\ thread[t].attempt \in 0..MaxRetries
          BY <1>3, <2>3
        <5>2. QED BY <3>3, <5>1
      <4>2. [thread[t] EXCEPT !.phase = "backoff", !.attempt = thread[t].attempt + 1,
                              !.timer = delay] \in ThreadType
        BY <1>2, <2>2, <4>1, AttemptChange
      <4>3. thread' = [thread EXCEPT ![t] =
              [thread[t] EXCEPT !.phase = "backoff", !.attempt = thread[t].attempt + 1,
                                !.timer = delay]]
        BY <3>1, <3>3 DEF Client!Fail
      <4>4. UNCHANGED <<limiter, nextIn, holder, sinceCall>>
        BY <3>1 DEF Client!Fail
      <4>5. QED BY <1>1, <4>2, <4>3, <4>4
    <3>4. QED BY <3>2, <3>3
  <2>10. CASE Client!Refuse(t)
    <3>1. [thread[t] EXCEPT !.phase = "raised"] \in ThreadType
      BY <1>2, <2>2, PhaseChange
    <3>2. QED BY <1>1, <2>10, <3>1 DEF Client!Refuse
  <2>11. CASE Client!Retry(t)
    <3>1. [thread[t] EXCEPT !.phase = "ready"] \in ThreadType
      BY <1>2, <2>2, PhaseChange
    <3>2. QED BY <1>1, <2>11, <3>1 DEF Client!Retry
  <2>12. CASE Client!End(t)
    <3>1. [Client!IdleThread EXCEPT !.calls = thread[t].calls] \in ThreadType
      BY <2>3, IdleThreadType, CallsChange
    <3>2. QED BY <1>1, <2>12, <3>1 DEF Client!End
  <2>13. QED
    BY <2>1, <2>4, <2>5, <2>6, <2>7, <2>8, <2>9, <2>10, <2>11, <2>12 DEF Client!Step
<1>9. QED BY <1>6, <1>7, <1>8 DEF Client!Next

\* What a step does that has nothing to do with the limiter.
Quiet(t) ==
    /\ UNCHANGED <<limiter, nextIn, holder, sinceCall>>
    /\ thread[t].phase # "idle"
    /\ \A u \in Threads \ {t} : thread'[u] = thread[u]
    /\ thread'[t].phase \notin {"spacing", "permitted"}
    /\ thread'[t].phase = "idle" \/ thread'[t].client = thread[t].client

LEMMA QuietSteps ==
  ASSUME Client!MassiveAssumption, ClientInv, NEW t \in Threads,
         \/ Client!Answer(t) \/ Client!FailTransiently(t) \/ Client!Refuse(t)
         \/ Client!Retry(t) \/ Client!End(t)
  PROVE  Quiet(t)
<1>1. thread \in [Threads -> ThreadType]
  BY DEF ClientInv, Client!TypeOK, ThreadType
<1>2. thread[t] \in ThreadType
  BY <1>1
<1>3. CASE Client!Answer(t)
  <2> DEFINE read == Append(thread[t].list, thread[t].page)
  <2>1. thread' = [thread EXCEPT ![t] =
          IF thread[t].page < Pages
          THEN [thread[t] EXCEPT !.phase = "ready", !.page = thread[t].page + 1, !.attempt = 0,
                                 !.list = read]
          ELSE [thread[t] EXCEPT !.phase = "returned", !.list = read]]
    BY <1>3 DEF Client!Answer
  <2> HIDE DEF read
  <2>2. QED BY <1>1, <1>2, <1>3, <2>1 DEF Client!Answer, Quiet, ThreadType
<1>4. CASE Client!FailTransiently(t)
  <2>1. PICK delay \in Nat : Client!Fail(t, delay)
    BY <1>4, FailType
  <2>2. QED BY <1>1, <1>2, <2>1 DEF Client!Fail, Quiet, ThreadType
<1>5. CASE Client!Refuse(t)
  BY <1>1, <1>2, <1>5 DEF Client!Refuse, Quiet, ThreadType
<1>6. CASE Client!Retry(t)
  BY <1>1, <1>2, <1>6 DEF Client!Retry, Quiet, ThreadType
<1>7. CASE Client!End(t)
  BY <1>1, <1>2, <1>7 DEF Client!End, Quiet, Client!IdleThread
<1>8. QED BY <1>3, <1>4, <1>5, <1>6, <1>7

\* The threads when time passes.
LEMMA TickFields ==
  ASSUME ClientInv, Client!Tick, NEW t \in Threads
  PROVE  /\ thread'[t].phase = thread[t].phase /\ thread'[t].client = thread[t].client
         /\ thread'[t].timer = Client!Down(thread[t].timer)
         /\ thread[t].phase = "permitted" =>
              thread[t].lag < MaxLag /\ thread'[t].lag = thread[t].lag + 1
<1> DEFINE late == IF thread[t].phase = "permitted" THEN thread[t].lag + 1 ELSE 0
           left == Client!Down(thread[t].timer)
<1>1. thread[t] \in ThreadType
  BY DEF ClientInv, Client!TypeOK, ThreadType
<1>2. thread'[t] = [thread[t] EXCEPT !.timer = left, !.lag = late]
  BY DEF Client!Tick
<1>3. thread[t].phase = "permitted" => thread[t].lag < MaxLag
  BY DEF Client!Tick
<1> HIDE DEF late, left
<1>4. /\ thread'[t].phase = thread[t].phase /\ thread'[t].client = thread[t].client
      /\ thread'[t].timer = left /\ thread'[t].lag = late
  BY <1>1, <1>2 DEF ThreadType
<1>5. QED BY <1>3, <1>4 DEF late, left

\* Whoever is given permission, at the end of a sleep or without one, is the only one who has
\* it, and has it an interval after the last.
LEMMA PermitStep ==
  ASSUME Client!MassiveAssumption, ClientInv, NEW t \in Threads, Client!Pass(t) \/ Client!Wake(t)
  PROVE  LimiterInv' /\ SpacingInv'
<1>1. /\ thread \in [Threads -> ThreadType] /\ nextIn \in [Threads -> 0..Interval]
      /\ holder \in [Threads -> Threads \cup {None}] /\ sinceCall \in 0..Interval
      /\ limiter \in Threads \cup {None}
  BY DEF ClientInv, Client!TypeOK, ThreadType
<1>2. Interval \in Nat \ {0} /\ MaxLag \in Nat /\ None \notin Threads
  BY DEF Client!MassiveAssumption
<1>3. limiter \in Threads /\ thread[t].client = limiter
  BY <1>1 DEF ClientInv, LimiterInv, Client!Pass, Client!Wake
<1>4. \A u \in Threads : thread[u].lag \in 0..MaxLag
  BY <1>1, ThreadFields
<1>5. nextIn[limiter] = 0
  <2>1. CASE Client!Pass(t)
    BY <1>3, <2>1 DEF Client!Pass
  <2>2. CASE Client!Wake(t)
    <3>1. nextIn[limiter] <= thread[t].timer /\ thread[t].timer = 0
      BY <2>2 DEF Client!Wake, ClientInv, LimiterInv
    <3>2. nextIn[limiter] \in 0..Interval
      BY <1>1, <1>3
    <3>3. QED BY <1>2, <3>1, <3>2
  <2>3. QED BY <2>1, <2>2
<1>6. \A u \in Threads \ {t} : thread[u].phase # "spacing"
  <2>1. CASE Client!Pass(t)
    BY <1>2, <1>3, <2>1 DEF Client!Pass, ClientInv, LimiterInv
  <2>2. CASE Client!Wake(t)
    BY <2>2 DEF Client!Wake, ClientInv, LimiterInv
  <2>3. QED BY <2>1, <2>2
<1>7. /\ thread' = [thread EXCEPT ![t] = [thread[t] EXCEPT !.phase = "permitted", !.lag = 0]]
      /\ nextIn' = [nextIn EXCEPT ![limiter] = Interval]
      /\ limiter' = limiter /\ sinceCall' = sinceCall
  BY <1>3 DEF Client!Pass, Client!Wake, Client!Permit
<1>8. /\ thread'[t].phase = "permitted" /\ thread'[t].lag = 0 /\ thread'[t].client = limiter
      /\ \A u \in Threads \ {t} : thread'[u] = thread[u]
      /\ nextIn'[limiter] = Interval
  <2>1. thread[t] \in ThreadType
    BY <1>1
  <2>2. QED BY <1>1, <1>3, <1>7, <2>1 DEF ThreadType
<1>9. LimiterInv'
  BY <1>2, <1>3, <1>6, <1>7, <1>8 DEF LimiterInv, ClientInv
<1>10. SpacingInv'
  <2>1. SUFFICES ASSUME MaxLag < Interval
                 PROVE  /\ sinceCall >= Interval - Interval - MaxLag
                        /\ \A u \in Threads : thread'[u].phase = "permitted" => u = t
                        /\ sinceCall >= Interval - MaxLag
    BY <1>2, <1>7, <1>8 DEF SpacingInv
  <2>2. sinceCall >= Interval - MaxLag
    BY <1>2, <1>3, <1>5, <2>1 DEF ClientInv, SpacingInv
  <2>3. \A u \in Threads : thread[u].phase = "permitted" => thread[u].lag = Interval
    BY <1>2, <1>3, <1>5, <2>1 DEF ClientInv, SpacingInv
  <2>4. ASSUME NEW u \in Threads, thread[u].phase = "permitted" PROVE FALSE
    <3>1. Interval \in 0..MaxLag
      BY <1>4, <2>3, <2>4
    <3>2. QED BY <1>2, <2>1, <3>1
  <2>5. \A u \in Threads : thread'[u].phase = "permitted" => u = t
    BY <1>8, <2>4
  <2>6. sinceCall >= Interval - Interval - MaxLag
    BY <1>1, <1>2
  <2>7. QED BY <2>2, <2>5, <2>6
<1>11. QED BY <1>9, <1>10

\* Every step keeps what the limiter promises.
LEMMA ClientStep ==
  ASSUME Client!MassiveAssumption, ClientInv, [Client!Next]_Client!vars
  PROVE  LimiterInv' /\ SpacingInv'
<1>1. /\ thread \in [Threads -> ThreadType] /\ nextIn \in [Threads -> 0..Interval]
      /\ holder \in [Threads -> Threads \cup {None}] /\ sinceCall \in 0..Interval
      /\ limiter \in Threads \cup {None}
  BY DEF ClientInv, Client!TypeOK, ThreadType
<1>2. Interval \in Nat \ {0} /\ MaxLag \in Nat /\ None \notin Threads
  BY DEF Client!MassiveAssumption
<1>3. LimiterInv /\ SpacingInv
  BY DEF ClientInv
<1>4. \A u \in Threads : thread[u].lag \in 0..MaxLag /\ thread[u].timer \in Nat
  BY <1>1, ThreadFields
<1>5. CASE UNCHANGED Client!vars
  BY <1>3, <1>5 DEF Client!vars, LimiterInv, SpacingInv
<1>6. CASE Client!Tick
  <2>1. /\ limiter' = limiter /\ holder' = holder
        /\ \A u \in Threads : nextIn'[u] = Client!Down(nextIn[u])
        /\ sinceCall' = IF sinceCall < Interval THEN sinceCall + 1 ELSE Interval
    BY <1>6 DEF Client!Tick
  <2>2. \A u \in Threads :
          /\ thread'[u].phase = thread[u].phase /\ thread'[u].client = thread[u].client
          /\ thread'[u].timer = Client!Down(thread[u].timer)
          /\ thread[u].phase = "permitted" =>
               thread[u].lag < MaxLag /\ thread'[u].lag = thread[u].lag + 1
    BY <1>6, TickFields
  <2>3. LimiterInv'
    <3>1. limiter' = None => /\ sinceCall' = Interval
                             /\ \A u \in Threads : thread'[u].phase = "idle" /\ nextIn'[u] = 0
      BY <1>2, <1>3, <2>1, <2>2 DEF LimiterInv, Client!Down
    <3>2. \A u \in Threads : thread'[u].phase # "idle" => thread'[u].client = limiter'
      BY <1>3, <2>1, <2>2 DEF LimiterInv
    <3>3. ASSUME NEW u \in Threads, thread'[u].phase = "spacing"
          PROVE  holder'[limiter'] = u /\ nextIn'[limiter'] <= thread'[u].timer
      <4>1. limiter \in Threads /\ holder[limiter] = u /\ nextIn[limiter] <= thread[u].timer
        BY <1>1, <1>3, <2>2, <3>3 DEF LimiterInv
      <4>2. nextIn[limiter] \in Nat /\ thread[u].timer \in Nat
        BY <1>1, <1>2, <1>4, <4>1
      <4>3. QED BY <2>1, <2>2, <4>1, <4>2 DEF Client!Down
    <3>4. QED BY <3>1, <3>2, <3>3 DEF LimiterInv
  <2>4. SpacingInv'
    <3>1. SUFFICES ASSUME limiter \in Threads, MaxLag < Interval
                   PROVE  /\ sinceCall' >= Interval - nextIn'[limiter] - MaxLag
                          /\ \A u \in Threads : thread[u].phase = "permitted" =>
                                /\ thread'[u].lag = Interval - nextIn'[limiter]
                                /\ sinceCall' >= Interval - MaxLag
                          /\ \A u, w \in Threads :
                                thread[u].phase = "permitted" /\ thread[w].phase = "permitted"
                                  => u = w
      BY <1>1, <2>1, <2>2 DEF SpacingInv
    <3>2. nextIn[limiter] \in 0..Interval /\ nextIn'[limiter] = Client!Down(nextIn[limiter])
      BY <1>1, <2>1, <3>1
    <3>3. sinceCall >= Interval - nextIn[limiter] - MaxLag
      BY <1>2, <1>3, <3>1 DEF SpacingInv
    <3>4. sinceCall' >= Interval - nextIn'[limiter] - MaxLag
      BY <1>1, <1>2, <2>1, <3>2, <3>3 DEF Client!Down
    <3>5. ASSUME NEW u \in Threads, thread[u].phase = "permitted"
          PROVE  thread'[u].lag = Interval - nextIn'[limiter] /\ sinceCall' >= Interval - MaxLag
      <4>1. thread[u].lag = Interval - nextIn[limiter] /\ sinceCall >= Interval - MaxLag
        BY <1>2, <1>3, <3>1, <3>5 DEF SpacingInv
      <4>2. /\ thread[u].lag \in 0..MaxLag /\ thread[u].lag < MaxLag
            /\ thread'[u].lag = thread[u].lag + 1
        BY <1>4, <2>2, <3>5
      <4>3. QED BY <1>1, <1>2, <2>1, <3>1, <3>2, <4>1, <4>2 DEF Client!Down
    <3>6. QED BY <1>2, <1>3, <3>1, <3>4, <3>5 DEF SpacingInv
  <2>5. QED BY <2>3, <2>4
<1>7. CASE \E t \in Threads : Client!Step(t)
  <2>1. PICK t \in Threads : Client!Step(t)
    BY <1>7
  <2>2. thread[t] \in ThreadType
    BY <1>1
  <2>3. CASE Client!Begin(t)
    <3>1. /\ limiter' = (IF limiter = None THEN t ELSE limiter)
          /\ nextIn' = nextIn /\ holder' = holder /\ sinceCall' = sinceCall
          /\ thread' = [thread EXCEPT ![t] =
               [Client!IdleThread EXCEPT !.phase = "ready", !.client = limiter',
                                  !.calls = thread[t].calls + 1]]
      BY <2>3 DEF Client!Begin
    <3>2. /\ thread'[t].phase = "ready" /\ thread'[t].client = limiter'
          /\ \A u \in Threads \ {t} : thread'[u] = thread[u]
      BY <1>1, <3>1 DEF Client!IdleThread
    <3>3. limiter' \in Threads /\ limiter' # None
      BY <1>1, <1>2, <3>1
    <3>4. LimiterInv'
      BY <1>3, <3>1, <3>2, <3>3 DEF LimiterInv
    <3>5. SpacingInv'
      <4>1. CASE limiter = None
        <5>1. sinceCall = Interval /\ nextIn[t] = 0 /\ limiter' = t
          BY <1>3, <3>1, <4>1 DEF LimiterInv
        <5>2. \A u \in Threads : thread'[u].phase # "permitted"
          BY <1>3, <3>2, <4>1 DEF LimiterInv
        <5>3. sinceCall' >= Interval - nextIn'[limiter'] - MaxLag
          BY <1>2, <3>1, <5>1
        <5>4. QED BY <5>2, <5>3 DEF SpacingInv
      <4>2. CASE limiter # None
        BY <1>2, <1>3, <3>1, <3>2, <4>2 DEF SpacingInv
      <4>3. QED BY <4>1, <4>2
    <3>6. QED BY <3>4, <3>5
  <2>4. CASE Client!Pass(t) \/ Client!Wake(t)
    BY <2>4, PermitStep
  <2>5. CASE Client!Sleep(t)
    <3>1. limiter \in Threads /\ thread[t].client = limiter /\ limiter # None
      BY <1>1, <1>2, <1>3, <2>5 DEF LimiterInv, Client!Sleep
    <3>2. /\ limiter' = limiter /\ nextIn' = nextIn /\ sinceCall' = sinceCall
          /\ holder[limiter] = None /\ holder' = [holder EXCEPT ![limiter] = t]
          /\ thread' = [thread EXCEPT ![t] =
               [thread[t] EXCEPT !.phase = "spacing", !.timer = nextIn[limiter]]]
      BY <2>5, <3>1 DEF Client!Sleep
    <3>3. /\ thread'[t].phase = "spacing" /\ thread'[t].client = limiter
          /\ thread'[t].timer = nextIn[limiter] /\ holder'[limiter] = t
          /\ \A u \in Threads \ {t} : thread'[u] = thread[u]
      BY <1>1, <2>2, <3>1, <3>2 DEF ThreadType
    <3>4. \A u \in Threads : thread[u].phase # "spacing"
      BY <1>2, <1>3, <3>2 DEF LimiterInv
    <3>5. nextIn[limiter] \in Nat
      BY <1>1, <1>2, <3>1
    <3>6. LimiterInv'
      BY <1>3, <3>1, <3>2, <3>3, <3>4, <3>5 DEF LimiterInv
    <3>7. SpacingInv'
      BY <1>3, <3>2, <3>3 DEF SpacingInv
    <3>8. QED BY <3>6, <3>7
  <2>6. CASE Client!Call(t)
    <3>1. /\ limiter' = limiter /\ nextIn' = nextIn /\ holder' = holder /\ sinceCall' = 0
          /\ thread[t].phase = "permitted"
          /\ thread' = [thread EXCEPT ![t] = [thread[t] EXCEPT !.phase = "called", !.lag = 0]]
      BY <2>6 DEF Client!Call
    <3>2. limiter \in Threads /\ limiter # None
      BY <1>1, <1>2, <1>3, <3>1 DEF LimiterInv
    <3>3. /\ thread'[t].phase = "called" /\ thread'[t].client = thread[t].client
          /\ \A u \in Threads \ {t} : thread'[u] = thread[u]
      BY <1>1, <2>2, <3>1 DEF ThreadType
    <3>4. LimiterInv'
      BY <1>3, <3>1, <3>2, <3>3 DEF LimiterInv
    <3>5. SpacingInv'
      <4>1. SUFFICES ASSUME MaxLag < Interval
                     PROVE  /\ 0 >= Interval - nextIn[limiter] - MaxLag
                            /\ \A u \in Threads : thread'[u].phase # "permitted"
        BY <3>1 DEF SpacingInv
      <4>2. thread[t].lag = Interval - nextIn[limiter] /\ thread[t].lag \in 0..MaxLag
        BY <1>3, <1>4, <3>1, <3>2, <4>1 DEF SpacingInv
      <4>3. nextIn[limiter] \in 0..Interval
        BY <1>1, <3>2
      <4>4. 0 >= Interval - nextIn[limiter] - MaxLag
        BY <1>2, <4>2, <4>3
      <4>5. \A u \in Threads \ {t} : thread[u].phase # "permitted"
        BY <1>3, <3>1, <3>2, <4>1 DEF SpacingInv
      <4>6. QED BY <3>3, <4>4, <4>5
    <3>6. QED BY <3>4, <3>5
  <2>7. CASE \/ Client!Answer(t) \/ Client!FailTransiently(t) \/ Client!Refuse(t)
            \/ Client!Retry(t) \/ Client!End(t)
    <3>1. Quiet(t)
      BY <2>7, QuietSteps
    <3>2. limiter # None
      BY <1>3, <3>1 DEF LimiterInv, Quiet
    <3>3. LimiterInv'
      BY <1>3, <3>1, <3>2 DEF LimiterInv, Quiet
    <3>4. SpacingInv'
      BY <1>3, <3>1 DEF SpacingInv, Quiet
    <3>5. QED BY <3>3, <3>4
  <2>8. QED BY <2>1, <2>3, <2>4, <2>5, <2>6, <2>7 DEF Client!Step
<1>8. QED BY <1>5, <1>6, <1>7 DEF Client!Next

\* The invariant of the client, its types included, holds in every state.
THEOREM ClientInvariance == ASSUME Client!MassiveAssumption PROVE Client!Spec => []ClientInv
<1>1. Client!Init => ClientInv
  BY ClientInit
<1>2. ClientInv /\ [Client!Next]_Client!vars => ClientInv'
  BY ClientTypeStep, ClientStep DEF ClientInv
<1>3. QED BY <1>1, <1>2, PTL DEF Client!Spec

\* Every variable of the client keeps its type.
THEOREM ClientTypeCorrect == ASSUME Client!MassiveAssumption PROVE Client!Spec => []Client!TypeOK
<1>1. ClientInv => Client!TypeOK
  BY DEF ClientInv
<1>2. QED BY <1>1, ClientInvariance, PTL

\* docs/SCALABILITY.md: one limiter for all worker threads.  However many threads share it, and
\* however their calls fail and are repeated, a call comes an interval after the one before it,
\* less what that one may have been late.
THEOREM CallsSpaced == ASSUME Client!MassiveAssumption PROVE Client!Spec => Client!CallsAreSpaced
<1>1. ClientInv /\ [Client!Next]_Client!vars =>
        [\A t \in Threads : Client!Call(t) => sinceCall >= Interval - MaxLag]_Client!vars
  <2>1. SUFFICES ASSUME ClientInv, NEW t \in Threads, Client!Call(t)
                 PROVE  sinceCall >= Interval - MaxLag
    OBVIOUS
  <2>2. Interval \in Nat \ {0} /\ MaxLag \in Nat /\ sinceCall \in Nat /\ limiter # None
    BY <2>1 DEF Client!MassiveAssumption, Client!Call, ClientInv, Client!TypeOK, LimiterInv
  <2>3. CASE MaxLag < Interval
    BY <2>1, <2>2, <2>3 DEF Client!Call, ClientInv, SpacingInv
  <2>4. CASE ~(MaxLag < Interval)
    BY <2>2, <2>4
  <2>5. QED BY <2>3, <2>4
<1>2. QED BY <1>1, ClientInvariance, PTL DEF Client!Spec, Client!CallsAreSpaced
=============================================================================
