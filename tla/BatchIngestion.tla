--------------------------- MODULE BatchIngestion ---------------------------
(***************************************************************************)
(* batch.main with the ingestion it really calls: one process at a time    *)
(* runs EquityBatch, and in an attempt fetch_partitioned_equity_sources    *)
(* runs PartitionIngestion, in the same process, on the same Parquet tree  *)
(* and the same DuckDB file.  A kill takes both; what either wrote stays.  *)
(*                                                                         *)
(* A partition is a provider with one bucket of the symbols; here every    *)
(* provider has one bucket (RECONCILIATION_SYMBOL_BUCKETS 1): partition s  *)
(* is source s.  Canonical bars are a fixed point of the normalizer, which *)
(* archive_equity_source applies to them once more.                        *)
(***************************************************************************)
EXTENDS PartitionIngestion

CONSTANTS Results, BreakResults, Compare

VARIABLES
    step,           \* where main is
    held,           \* the bars main holds outside ingestion
    archive, results, row, slot, summary, breakPosts, failedPosts,
    runs,           \* attempts of main so far
    failures        \* faults of main so far, a failed ingestion being one

ingestion == <<files, rows, workers, coordinator, normalizer, launches, delivered>>
batch == <<step, held, archive, results, row, slot, summary, breakPosts, failedPosts,
           runs, failures>>
systemVars == <<ingestion, faults, batch>>

main == "main"

\* What the partition archive fixes a source to.
Checkpoints == [s \in Partitions |-> IF Readable(norm[s]) THEN norm[s] ELSE Absent]

\* Every launch may lose its ingestion to a fault of an earlier one (a torn file).
FailureBound == MaxFaults + MaxLaunches

Batch == INSTANCE EquityBatch WITH
    S <- N, Frames <- Bars, Runners <- {main}, pc <- step, frames <- held,
    pinned <- Checkpoints, launches <- runs, faults <- failures, MaxFaults <- FailureBound

SystemInit == Init /\ Batch!Init

(***************************************************************************)
(* main outside ingestion.                                                 *)
(***************************************************************************)
Quiet == UNCHANGED <<ingestion, faults>>

MainStep ==
    /\ Quiet
    /\ \/ Batch!Launch(main)
       \/ step[main] # "ingest" /\ Batch!Progress(main)
    /\ step'[main] # "ingest"

MainFault ==
    /\ UNCHANGED ingestion /\ Fault
    /\ step[main] # "ingest" /\ Batch!Faults(main)

(***************************************************************************)
(* The call of fetch_partitioned_equity_sources.                           *)
(***************************************************************************)
Call ==
    /\ Launch
    /\ Batch!Probe(main) /\ step'[main] = "ingest"

\* Its coordinator and workers, while main waits for it.
Inside ==
    /\ step[main] = "ingest"
    /\ Progress \/ Faults
    /\ pc' # "down"
    /\ UNCHANGED batch

\* Its frames are what main goes on with.
Return ==
    /\ step[main] = "ingest" /\ pc = "returned"
    /\ Exit
    /\ held' = [held EXCEPT ![main] = frame]
    /\ slot' = [slot EXCEPT ![main] = 1]
    /\ Batch!Goto(main, "archive")
    /\ UNCHANGED <<archive, results, row, summary, breakPosts, failedPosts, runs, failures>>

\* Its exception (PartitionExecutionError, one that left a task, or DuckDB's) is caught
\* by main's except clause.
Raise ==
    /\ step[main] = "ingest" /\ pc \in {"raised", "escaped", "broken"}
    /\ Exit
    /\ held' = [held EXCEPT ![main] = frame]
    /\ failures' = failures + 1
    /\ Batch!Goto(main, "failing")
    /\ UNCHANGED <<archive, results, row, slot, summary, breakPosts, failedPosts, runs>>

Kill ==
    /\ step[main] = "ingest"
    /\ Crash /\ Batch!Crash(main)

\* A release between two attempts.
Release == step[main] = "down" /\ Deploy /\ UNCHANGED batch

Stay == Quiet /\ Batch!Rest

SystemNext ==
    MainStep \/ MainFault \/ Call \/ Inside \/ Return \/ Raise \/ Kill \/ Release \/ Stay

System == SystemInit /\ [][SystemNext]_systemVars

\* A process that runs makes progress, its threads too, and somebody launches the run
\* again while it may be launched.
Running == \/ MainStep /\ step[main] # "down"
           \/ Call \/ Return \/ Raise
           \/ Inside /\ Progress
FairSystem ==
    System /\ WF_systemVars(Running) /\ WF_systemVars(MainStep /\ step[main] = "down")

(***************************************************************************)
(* Properties; those of PartitionIngestion are properties of the system    *)
(* too.                                                                    *)
(***************************************************************************)
\* batch.main sees the real ingestion take only the steps EquityBatch gives it: a source
\* is fixed once, by the first checkpoint; an attempt goes on with the checkpoints of all
\* the sources or not at all; kills and releases between the layers change nothing.
Whole == INSTANCE EquityBatch WITH
    S <- N, Frames <- Bars, Runners <- {main}, pc <- step, pinned <- Checkpoints,
    frames <- [r \in {main} |-> IF step[r] = "ingest" THEN frame ELSE held[r]],
    launches <- runs, faults <- failures, MaxFaults <- FailureBound
ImplementsBatch == Whole!Spec

\* README.md's lineage, end to end: behind a stored outcome every source's run archive is
\* the partition's checkpoint, made by a released normalizer from an answer that is still
\* there, the outcome is what the rules give on these, and the results archive holds it
\* unless a write of it was torn; whatever attempt wrote which.
OutcomeIsTraceable ==
    row # Absent =>
        /\ \A s \in Partitions :
              /\ archive[Batch!NormalizedSlot(s)] = norm[s]
              /\ archive[Batch!NormalizedSlot(s) - 1] = norm[s]
              /\ raw[s] \in Payloads
              /\ \E k \in 1..normalizer : norm[s] = Canonical[k][raw[s]]
        /\ row = Compare[norm] /\ results \in {row, Torn}

\* RUNBOOK.md "duplicate notifications": relaunches of a run never repeat its break message,
\* whatever is killed, torn or timed out.
AlarmsOnce == Batch!NoDuplicateAlarm

\* RUNBOOK.md "the retry reuses the immutable files and finishes the missing work", for
\* main and its ingestion together: with no further fault and no torn file, one more launch
\* stores the outcome, whichever checkpoints and archives earlier attempts have left.
CleanAttemptStores ==
    (/\ step[main] = "down" /\ runs < MaxLaunches
     /\ normalizer = Versions /\ faults = MaxFaults
     /\ \A s \in Partitions : Torn \notin {raw[s], norm[s]}
     /\ \A k \in Batch!Slots : archive[k] # Torn) ~> row # Absent
=============================================================================
