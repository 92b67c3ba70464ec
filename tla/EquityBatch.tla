---------------------------- MODULE EquityBatch ----------------------------
(***************************************************************************)
(* batch.main: the processes that run one logical equity reconciliation,   *)
(* possibly more than once and possibly at the same time.  An attempt      *)
(* looks the run up, ingests (or finds everything archived), archives each *)
(* source raw and normalized, compares, archives the results, commits one  *)
(* pipeline_runs row, and notifies.  Parquet files and the row survive a   *)
(* kill; the webhook is outside and may fail or time out.  Nothing keeps   *)
(* two runners apart: between path.exists() and the write that follows it  *)
(* another one may create the file.                                        *)
(*                                                                         *)
(* Of ingestion only the checkpoints, one per source, and the return are   *)
(* seen here; BatchIngestion runs the real ingestion inside this module's  *)
(* attempts and shows that it takes no other steps.  The rules are fixed:  *)
(* a new rule version makes a new run id (build_run_id).                   *)
(***************************************************************************)
EXTENDS Naturals

CONSTANTS
    Runners,        \* processes that may run batch.main for this run id
    S,              \* number of sources, in the order main archives them
    Frames,         \* canonical bars a source can have
    Results,        \* reconciliation outcomes
    BreakResults,   \* the outcomes with at least one BREAK
    Compare,        \* reconcile_equity_sources, on bars ingestion has validated
    Absent,         \* no file, no row, no frame
    Torn,           \* a file whose write has begun and not ended
    TornWrites,     \* whether a kill or an I/O error can leave a Torn file behind
    MaxLaunches,    \* bound: attempts of the logical run
    MaxFaults       \* bound: kills, provider, I/O, database and webhook errors

Sources == 1..S
Slots == 1..(2 * S)     \* archive files of a run: raw, normalized of each source

ASSUME SizeAssumption ==
    /\ S \in Nat \ {0} /\ MaxLaunches \in Nat /\ MaxFaults \in Nat
    /\ TornWrites \in BOOLEAN

ASSUME DataAssumption ==
    /\ Compare \in [[Sources -> Frames] -> Results]
    /\ BreakResults \subseteq Results
    /\ Absent # Torn /\ {Absent, Torn} \cap (Frames \cup Results) = {}

VARIABLES
    pinned,         \* the checkpoint of each source
    archive,        \* source archives, by slot
    results,        \* the results archive
    row,            \* the pipeline_runs row
    pc,             \* where each runner is
    frames,         \* provider_bars of each runner
    slot,           \* the archive file a runner is at
    summary,        \* what the latest attempt of each runner concluded
    breakPosts,     \* SUCCESS_WITH_BREAKS notifications that arrived
    failedPosts,    \* FAILED notifications that arrived
    launches,       \* attempts so far
    faults          \* faults so far

evidence == <<pinned, archive, results>>
memory == <<pc, frames, slot, summary>>
posts == <<breakPosts, failedPosts>>
vars == <<evidence, row, memory, posts, launches, faults>>

Nothing == [s \in Sources |-> Absent]
SourceOf(k) == (k + 1) \div 2
NormalizedSlot(s) == 2 * s
Readable(file) == file \notin {Absent, Torn}
Archived == [s \in Sources |-> archive[NormalizedSlot(s)]]

Init ==
    /\ pinned = Nothing /\ archive = [k \in Slots |-> Absent] /\ results = Absent
    /\ row = Absent
    /\ pc = [r \in Runners |-> "down"] /\ frames = [r \in Runners |-> Nothing]
    /\ slot = [r \in Runners |-> 1] /\ summary = [r \in Runners |-> Absent]
    /\ breakPosts = 0 /\ failedPosts = 0 /\ launches = 0 /\ faults = 0

Fault == faults < MaxFaults /\ faults' = faults + 1
At(r, where) == pc[r] = where
Goto(r, where) == pc' = [pc EXCEPT ![r] = where]

Launch(r) ==
    /\ At(r, "down") /\ launches < MaxLaunches
    /\ launches' = launches + 1
    /\ Goto(r, "lookup")
    /\ UNCHANGED <<evidence, row, frames, slot, summary, posts, faults>>

\* Mutant: the summary of an existing row goes through notification again.
LookupAndNotify(r) ==
    /\ At(r, "lookup")
    /\ IF row # Absent
       THEN summary' = [summary EXCEPT ![r] = row] /\ Goto(r, "notify")
       ELSE Goto(r, "probe") /\ UNCHANGED summary
    /\ UNCHANGED <<evidence, row, frames, slot, posts, launches, faults>>

\* An existing row ends the attempt: no work, no notification.
Lookup(r) ==
    /\ At(r, "lookup")
    /\ IF row # Absent
       THEN summary' = [summary EXCEPT ![r] = row] /\ Goto(r, "returned")
       ELSE Goto(r, "probe") /\ UNCHANGED summary
    /\ UNCHANGED <<evidence, row, frames, slot, posts, launches, faults>>

\* With every normalized archive in place the providers are not needed; a file that
\* exists but cannot be read fails the attempt.
Probe(r) ==
    /\ At(r, "probe")
    /\ IF \E s \in Sources : Archived[s] = Absent
       THEN Goto(r, "ingest") /\ frames' = [frames EXCEPT ![r] = Nothing]
       ELSE IF \A s \in Sources : Readable(Archived[s])
       THEN Goto(r, "compare") /\ frames' = [frames EXCEPT ![r] = Archived]
       ELSE Goto(r, "failing") /\ UNCHANGED frames
    /\ UNCHANGED <<evidence, row, slot, summary, posts, launches, faults>>

(***************************************************************************)
(* fetch_partitioned_equity_sources, as its caller sees it.                *)
(***************************************************************************)
\* Another ingestion under way may have looked for a checkpoint before it was there.
Racing(r) == \E q \in Runners \ {r} : At(q, "ingest")

IngestSource(r, s) ==
    /\ At(r, "ingest") /\ frames[r][s] = Absent
    /\ \/ /\ pinned[s] # Absent
          /\ frames' = [frames EXCEPT ![r][s] = pinned[s]]
          /\ UNCHANGED pinned
       \/ \E f \in Frames :
          /\ pinned[s] = Absent \/ Racing(r)
          /\ frames' = [frames EXCEPT ![r][s] = f]
          /\ pinned' = [pinned EXCEPT ![s] = f]
    /\ UNCHANGED <<archive, results, row, pc, slot, summary, posts, launches, faults>>

IngestReturns(r) ==
    /\ At(r, "ingest") /\ \A s \in Sources : frames[r][s] # Absent
    /\ slot' = [slot EXCEPT ![r] = 1]
    /\ Goto(r, "archive")
    /\ UNCHANGED <<evidence, row, frames, summary, posts, launches, faults>>

\* A provider, a write or a DuckDB statement failed, or another runner was first with
\* a checkpoint (FileExistsError) or is still writing it.
IngestFails(r) ==
    /\ At(r, "ingest")
    /\ Fault \/ (Runners # {r} /\ UNCHANGED faults)
    /\ Goto(r, "failing")
    /\ UNCHANGED <<evidence, row, frames, slot, summary, posts, launches>>

(***************************************************************************)
(* archive_equity_source, idempotent, for each source: raw, then normalized *)
(* (normalizing canonical bars again changes nothing).                     *)
(***************************************************************************)
NextSlot(r) ==
    IF slot[r] < 2 * S THEN slot' = [slot EXCEPT ![r] = @ + 1] /\ Goto(r, "archive")
                       ELSE UNCHANGED slot /\ Goto(r, "compare")

\* What is archived replaces what the attempt holds.
ReuseArchive(r) ==
    /\ At(r, "archive") /\ Readable(archive[slot[r]])
    /\ frames' = [frames EXCEPT ![r][SourceOf(slot[r])] = archive[slot[r]]]
    /\ NextSlot(r)
    /\ UNCHANGED <<evidence, row, summary, posts, launches, faults>>

FailOnTornArchive(r) ==
    /\ At(r, "archive") /\ archive[slot[r]] = Torn
    /\ Goto(r, "failing")
    /\ UNCHANGED <<evidence, row, frames, slot, summary, posts, launches, faults>>

MissArchive(r) ==
    /\ At(r, "archive") /\ archive[slot[r]] = Absent
    /\ Goto(r, "create")
    /\ UNCHANGED <<evidence, row, frames, slot, summary, posts, launches, faults>>

\* The file is created, or truncated, under its final name and then filled.
CreateArchive(r) ==
    /\ At(r, "create")
    /\ archive' = [archive EXCEPT ![slot[r]] = Torn]
    /\ Goto(r, "writing")
    /\ UNCHANGED <<pinned, results, row, frames, slot, summary, posts, launches, faults>>

EndArchive(r) ==
    /\ At(r, "writing")
    /\ archive' = [archive EXCEPT ![slot[r]] = frames[r][SourceOf(slot[r])]]
    /\ NextSlot(r)
    /\ UNCHANGED <<pinned, results, row, frames, summary, posts, launches, faults>>

(***************************************************************************)
(* Compare, archive the results, commit.                                   *)
(***************************************************************************)
Result(r) == Compare[frames[r]]

\* Mutant: only outcomes with breaks are archived.
LookForBreaks(r) ==
    /\ At(r, "compare")
    /\ Goto(r, IF results # Absent \/ Result(r) \notin BreakResults
               THEN "persist" ELSE "createResults")
    /\ UNCHANGED <<evidence, row, frames, slot, summary, posts, launches, faults>>

\* An existing results file is taken as it is, without reading it.
LookForResults(r) ==
    /\ At(r, "compare")
    /\ Goto(r, IF results # Absent THEN "persist" ELSE "createResults")
    /\ UNCHANGED <<evidence, row, frames, slot, summary, posts, launches, faults>>

CreateResults(r) ==
    /\ At(r, "createResults")
    /\ results' = Torn
    /\ Goto(r, "writingResults")
    /\ UNCHANGED <<pinned, archive, row, frames, slot, summary, posts, launches, faults>>

EndResults(r) ==
    /\ At(r, "writingResults")
    /\ results' = Result(r)
    /\ Goto(r, "persist")
    /\ UNCHANGED <<pinned, archive, row, frames, slot, summary, posts, launches, faults>>

\* The other runner has the file open for writing, or was seen to have created it.
LoseFile(r) ==
    /\ \/ At(r, "create") /\ archive[slot[r]] # Absent
       \/ At(r, "createResults") /\ results # Absent
    /\ Goto(r, "failing")
    /\ UNCHANGED <<evidence, row, frames, slot, summary, posts, launches, faults>>

Leftover == IF TornWrites THEN {Absent, Torn} ELSE {Absent}
Writing == {"writing", "writingResults"}

WriteFails(r) ==
    /\ pc[r] \in Writing /\ Fault
    /\ \E left \in Leftover :
          IF At(r, "writing")
          THEN archive' = [archive EXCEPT ![slot[r]] = left] /\ UNCHANGED results
          ELSE results' = left /\ UNCHANGED archive
    /\ Goto(r, "failing")
    /\ UNCHANGED <<pinned, row, frames, slot, summary, posts, launches>>

\* Mutant: INSERT OR REPLACE.
PersistOver(r) ==
    /\ At(r, "persist")
    /\ row' = Result(r)
    /\ summary' = [summary EXCEPT ![r] = Result(r)]
    /\ Goto(r, "notify")
    /\ UNCHANGED <<evidence, frames, slot, posts, launches, faults>>

\* One transaction: the existence check, the row and all its details.
Persist(r) ==
    /\ At(r, "persist")
    /\ IF row = Absent
       THEN /\ row' = Result(r)
            /\ summary' = [summary EXCEPT ![r] = Result(r)]
            /\ Goto(r, "notify")
       ELSE Goto(r, "reread") /\ UNCHANGED <<row, summary>>
    /\ UNCHANGED <<evidence, frames, slot, posts, launches, faults>>

\* Mutant: the loser of the race reports its own outcome.
ReportOwn(r) ==
    /\ At(r, "reread")
    /\ summary' = [summary EXCEPT ![r] = Result(r)] /\ Goto(r, "notify")
    /\ UNCHANGED <<evidence, row, frames, slot, posts, launches, faults>>

\* The loser of the race adopts the stored outcome.
Reread(r) ==
    /\ At(r, "reread")
    /\ IF row = Absent
       THEN Goto(r, "failing") /\ UNCHANGED summary
       ELSE summary' = [summary EXCEPT ![r] = row] /\ Goto(r, "notify")
    /\ UNCHANGED <<evidence, row, frames, slot, posts, launches, faults>>

\* A DuckDB statement raises, or the comparison does (its ValueErrors too).
StepRaises(r) ==
    /\ pc[r] \in {"lookup", "compare", "persist", "reread"} /\ Fault
    /\ Goto(r, "failing")
    /\ UNCHANGED <<evidence, row, frames, slot, summary, posts, launches>>

(***************************************************************************)
(* send_run_notification.                                                  *)
(***************************************************************************)
\* A clean run is silent; a delivered summary ends the attempt well.
Notify(r) ==
    /\ At(r, "notify")
    /\ breakPosts' = IF summary[r] \in BreakResults THEN breakPosts + 1 ELSE breakPosts
    /\ Goto(r, "returned")
    /\ UNCHANGED <<evidence, row, frames, slot, summary, failedPosts, launches, faults>>

NotifyFailure(r) ==
    /\ At(r, "failing")
    /\ failedPosts' = failedPosts + 1
    /\ Goto(r, "raised")
    /\ UNCHANGED <<evidence, row, frames, slot, summary, breakPosts, launches, faults>>

\* The webhook refuses, or times out although the message arrived: main raises.
WebhookFails(r) ==
    /\ \/ At(r, "failing")
       \/ At(r, "notify") /\ summary[r] \in BreakResults
    /\ Fault
    /\ \E arrived \in {0, 1} :
          IF At(r, "notify")
          THEN breakPosts' = breakPosts + arrived /\ UNCHANGED failedPosts
          ELSE failedPosts' = failedPosts + arrived /\ UNCHANGED breakPosts
    /\ Goto(r, "raised")
    /\ UNCHANGED <<evidence, row, frames, slot, summary, launches>>

Ended == {"returned", "raised"}

Exit(r) ==
    /\ pc[r] \in Ended
    /\ Goto(r, "down")
    /\ frames' = [frames EXCEPT ![r] = Nothing]
    /\ slot' = [slot EXCEPT ![r] = 1]
    /\ UNCHANGED <<evidence, row, summary, posts, launches, faults>>

\* A kill leaves the file being written as far as it was written.
Crash(r) ==
    /\ pc[r] \notin Ended \cup {"down"} /\ Fault
    /\ TornWrites \/ pc[r] \notin Writing
    /\ Goto(r, "down")
    /\ frames' = [frames EXCEPT ![r] = Nothing]
    /\ slot' = [slot EXCEPT ![r] = 1]
    /\ UNCHANGED <<evidence, row, summary, posts, launches>>

Rest == /\ launches = MaxLaunches /\ \A r \in Runners : At(r, "down")
        /\ UNCHANGED vars

Progress(r) ==
    \/ Lookup(r) \/ Probe(r)
    \/ \E s \in Sources : IngestSource(r, s)
    \/ IngestReturns(r)
    \/ ReuseArchive(r) \/ FailOnTornArchive(r)
    \/ MissArchive(r) \/ CreateArchive(r) \/ EndArchive(r)
    \/ LookForResults(r) \/ CreateResults(r) \/ EndResults(r) \/ LoseFile(r)
    \/ Persist(r) \/ Reread(r)
    \/ Notify(r) \/ NotifyFailure(r) \/ Exit(r)

Faults(r) == \/ IngestFails(r) \/ WriteFails(r) \/ StepRaises(r)
             \/ WebhookFails(r) \/ Crash(r)

Next == Rest \/ \E r \in Runners : Launch(r) \/ Progress(r) \/ Faults(r)

Spec == Init /\ [][Next]_vars

\* A process that runs makes progress, and somebody launches the run again while it
\* may be launched (RUNBOOK.md: "then rerun"; SCHEDULING.md's retries).
FairSpec ==
    Spec /\ \A r \in Runners : WF_vars(Progress(r)) /\ WF_vars(Launch(r))

(***************************************************************************)
(* Properties.                                                             *)
(***************************************************************************)
Places == {"down", "lookup", "probe", "ingest", "archive", "create", "compare",
           "createResults", "persist", "reread", "notify", "failing"} \cup Writing \cup Ended

\* Every variable has its type.
TypeOK ==
    /\ pinned \in [Sources -> Frames \cup {Absent}]
    /\ archive \in [Slots -> Frames \cup {Absent, Torn}]
    /\ results \in Results \cup {Absent, Torn} /\ row \in Results \cup {Absent}
    /\ pc \in [Runners -> Places] /\ slot \in [Runners -> Slots]
    /\ frames \in [Runners -> [Sources -> Frames \cup {Absent}]]
    /\ summary \in [Runners -> Results \cup {Absent}]
    /\ breakPosts \in Nat /\ failedPosts \in Nat /\ launches \in Nat /\ faults \in Nat

\* RUNBOOK.md "matching DuckDB/Parquet evidence": a committed row has the results
\* archive it was computed with, and the rules of the run give on the archives the
\* committed outcome, whatever was killed and retried before.
MatchingEvidence ==
    row # Absent =>
        /\ results = row
        /\ \A s \in Sources : Readable(Archived[s])
        /\ Compare[Archived] = row

\* A SUCCESS_WITH_BREAKS message is never sent for a run whose stored outcome has no
\* break, nor before an outcome is stored; also by the loser of a persist race.
AlarmsAreTrue ==
    /\ breakPosts > 0 => row \in BreakResults
    /\ \A r \in Runners : At(r, "notify") => summary[r] = row

\* RUNBOOK.md "duplicate notifications": retries of a run never repeat its break
\* message (one runner at a time).
NoDuplicateAlarm == breakPosts <= 1

\* The outcome is final and everybody is told the same: see LogicalRun.
Contract == INSTANCE LogicalRun WITH answer <- summary
ImplementsLogicalRun == Contract!Spec

\* RUNBOOK.md "One summary notification is posted": a committed run with breaks is
\* announced sooner or later.
BreaksAreAnnounced == (row \in BreakResults) ~> (breakPosts > 0)
=============================================================================
