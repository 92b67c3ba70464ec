------------------------- MODULE EquityBatchProofs -------------------------
(***************************************************************************)
(* Theorems of EquityBatch, for every set of runners, every number of      *)
(* sources, every set of canonical bars and every reconciliation rule.     *)
(***************************************************************************)
EXTENDS EquityBatch, TLAPS

\* The places where an attempt holds the bars of every source.
Loaded == {"archive", "create", "writing", "compare", "createResults",
           "writingResults", "persist"}

FramesInv == \A r \in Runners : pc[r] \in Loaded => frames[r] \in [Sources -> Frames]

NotifyInv == \A r \in Runners :
    pc[r] = "notify" => summary[r] = row /\ row # Absent

AlarmInv == breakPosts > 0 => row \in BreakResults

IInv == TypeOK /\ FramesInv /\ NotifyInv /\ AlarmInv

\* The raw archive of a source comes right before its normalized one.
LEMMA SlotArithmetic ==
    \A k \in Slots : /\ SourceOf(k) \in Sources
                     /\ k < 2 * S => k + 1 \in Slots
BY SizeAssumption DEF Slots, Sources, SourceOf

\* Every source has a normalized archive among the files of the run.
LEMMA NormalizedSlots == \A s \in Sources : NormalizedSlot(s) \in Slots
BY SizeAssumption DEF Slots, Sources, NormalizedSlot

\* Archiving begins with an existing file and source.
LEMMA FirstSlot == 1 \in Slots /\ 1 \in Sources
BY SizeAssumption DEF Slots, Sources

\* Comparing complete bars gives an outcome, which is neither Absent nor Torn.
LEMMA Outcomes == \A f \in [Sources -> Frames] :
    Compare[f] \in Results /\ Compare[f] # Absent /\ Compare[f] # Torn
BY DataAssumption

\* Comparing is done with the bars of every source.
LEMMA ResultOf == ASSUME FramesInv, NEW r \in Runners, pc[r] \in Loaded
                  PROVE  /\ Result(r) \in Results
                         /\ Result(r) # Absent
BY Outcomes DEF FramesInv, Result

\* Going to the next archive file keeps the types.
LEMMA NextSlotType == ASSUME TypeOK, NEW r \in Runners, NextSlot(r)
                      PROVE  slot' \in [Runners -> Slots] /\ pc' \in [Runners -> Places]
<1> USE DEF TypeOK, NextSlot, Goto, Places
<1>1. CASE slot[r] < 2 * S
  <2>1. slot[r] + 1 \in Slots
    BY <1>1, SlotArithmetic
  <2>2. QED
    BY <1>1, <2>1
<1>2. CASE ~(slot[r] < 2 * S)
  BY <1>2
<1>3. QED
  BY <1>1, <1>2

\* IInv holds before the first launch.
LEMMA InitInv == Init => IInv
BY SizeAssumption, DataAssumption, FirstSlot
   DEF Init, IInv, TypeOK, FramesInv, NotifyInv, AlarmInv, Nothing, Loaded, Places,
       Writing, Ended, Slots, Sources

\* Every step keeps the types.
LEMMA TypeStep == IInv /\ [Next]_vars => TypeOK'
<1> SUFFICES ASSUME IInv, [Next]_vars PROVE TypeOK'
  OBVIOUS
<1> USE DEF IInv, TypeOK, At, Goto, Places, Writing, Ended, evidence, posts
<1>1. CASE UNCHANGED vars
  BY <1>1 DEF vars, memory, evidence, posts
<1>2. ASSUME NEW r \in Runners, Launch(r) \/ Progress(r) \/ Faults(r)
      PROVE  TypeOK'
  <2>1. CASE Launch(r)
    BY <2>1 DEF Launch
  <2>2. CASE Lookup(r)
    BY <2>2 DEF Lookup
  <2>3. CASE Probe(r)
    <3>1. Archived \in [Sources -> Frames \cup {Absent, Torn}]
      BY NormalizedSlots DEF Archived
    <3>2. (\A s \in Sources : Readable(Archived[s])) => Archived \in [Sources -> Frames]
      BY <3>1 DEF Readable
    <3>3. frames' \in [Runners -> [Sources -> Frames \cup {Absent}]]
      BY <3>2, <2>3 DEF Probe, Nothing
    <3>4. QED
      BY <3>3, <2>3 DEF Probe
  <2>4. CASE \E s \in Sources : IngestSource(r, s)
    BY <2>4 DEF IngestSource
  <2>5. CASE IngestReturns(r)
    BY <2>5, FirstSlot DEF IngestReturns
  <2>6. CASE IngestFails(r)
    BY <2>6 DEF IngestFails, Fault
  <2>7. CASE ReuseArchive(r)
    <3>1. archive[slot[r]] \in Frames /\ SourceOf(slot[r]) \in Sources
      BY <2>7, SlotArithmetic DEF ReuseArchive, Readable
    <3>2. frames' \in [Runners -> [Sources -> Frames \cup {Absent}]]
      BY <3>1, <2>7 DEF ReuseArchive
    <3>3. slot' \in [Runners -> Slots] /\ pc' \in [Runners -> Places]
      BY <2>7, NextSlotType DEF ReuseArchive
    <3>4. QED
      BY <3>2, <3>3, <2>7 DEF ReuseArchive
  <2>8. CASE FailOnTornArchive(r)
    BY <2>8 DEF FailOnTornArchive
  <2>9. CASE MissArchive(r)
    BY <2>9 DEF MissArchive
  <2>10. CASE CreateArchive(r)
    BY <2>10 DEF CreateArchive
  <2>11. CASE EndArchive(r)
    <3>1. frames[r][SourceOf(slot[r])] \in Frames \cup {Absent}
      BY SlotArithmetic
    <3>2. archive' \in [Slots -> Frames \cup {Absent, Torn}]
      BY <3>1, <2>11 DEF EndArchive
    <3>3. slot' \in [Runners -> Slots] /\ pc' \in [Runners -> Places]
      BY <2>11, NextSlotType DEF EndArchive
    <3>4. QED
      BY <3>2, <3>3, <2>11 DEF EndArchive
  <2>12. CASE LookForResults(r)
    BY <2>12 DEF LookForResults
  <2>13. CASE CreateResults(r)
    BY <2>13 DEF CreateResults
  <2>14. CASE EndResults(r)
    <3>1. Result(r) \in Results
      BY <2>14, ResultOf DEF EndResults, Loaded
    <3>2. QED
      BY <3>1, <2>14 DEF EndResults
  <2>15. CASE LoseFile(r)
    BY <2>15 DEF LoseFile
  <2>16. CASE WriteFails(r)
    BY <2>16 DEF WriteFails, Fault, Leftover
  <2>17. CASE Persist(r)
    <3>1. Result(r) \in Results
      BY <2>17, ResultOf DEF Persist, Loaded
    <3>2. QED
      BY <3>1, <2>17 DEF Persist
  <2>18. CASE Reread(r)
    BY <2>18 DEF Reread
  <2>19. CASE StepRaises(r)
    BY <2>19 DEF StepRaises, Fault
  <2>20. CASE Notify(r)
    BY <2>20 DEF Notify
  <2>21. CASE NotifyFailure(r)
    BY <2>21 DEF NotifyFailure
  <2>22. CASE WebhookFails(r)
    BY <2>22 DEF WebhookFails, Fault
  <2>23. CASE Exit(r)
    BY <2>23, FirstSlot DEF Exit, Nothing
  <2>24. CASE Crash(r)
    BY <2>24, FirstSlot DEF Crash, Fault, Nothing
  <2>25. QED
    BY <1>2, <2>1, <2>2, <2>3, <2>4, <2>5, <2>6, <2>7, <2>8, <2>9, <2>10, <2>11,
          <2>12, <2>13, <2>14, <2>15, <2>16, <2>17, <2>18, <2>19, <2>20, <2>21,
          <2>22, <2>23, <2>24 DEF Progress, Faults
<1>3. QED
  BY <1>1, <1>2 DEF Next, Rest

\* An attempt never works with the bars of some of the sources only.
LEMMA FramesStep == IInv /\ [Next]_vars => FramesInv'
<1> SUFFICES ASSUME IInv, [Next]_vars PROVE FramesInv'
  OBVIOUS
<1> USE DEF IInv, TypeOK, FramesInv, Loaded, At, Goto, evidence, posts
<1>1. CASE UNCHANGED vars
  BY <1>1 DEF vars, memory, evidence, posts
<1>2. ASSUME NEW r \in Runners, Launch(r) \/ Progress(r) \/ Faults(r)
      PROVE  FramesInv'
  <2>1. CASE Launch(r)
    BY <2>1 DEF Launch
  <2>2. CASE Lookup(r)
    BY <2>2 DEF Lookup
  <2>3. CASE Probe(r)
    <3>1. Archived \in [Sources -> Frames \cup {Absent, Torn}]
      BY NormalizedSlots DEF Archived
    <3>2. (\A s \in Sources : Readable(Archived[s])) => Archived \in [Sources -> Frames]
      BY <3>1 DEF Readable
    <3>3. QED
      BY <3>2, <2>3 DEF Probe
  <2>4. CASE \E s \in Sources : IngestSource(r, s)
    BY <2>4 DEF IngestSource
  <2>5. CASE IngestReturns(r)
    BY <2>5 DEF IngestReturns
  <2>6. CASE IngestFails(r)
    BY <2>6 DEF IngestFails, Fault
  <2>7. CASE ReuseArchive(r)
    <3>1. archive[slot[r]] \in Frames /\ SourceOf(slot[r]) \in Sources
      BY <2>7, SlotArithmetic DEF ReuseArchive, Readable
    <3>2. QED
      BY <3>1, <2>7 DEF ReuseArchive, NextSlot
  <2>8. CASE FailOnTornArchive(r)
    BY <2>8 DEF FailOnTornArchive
  <2>9. CASE MissArchive(r)
    BY <2>9 DEF MissArchive
  <2>10. CASE CreateArchive(r)
    BY <2>10 DEF CreateArchive
  <2>11. CASE EndArchive(r)
    BY <2>11 DEF EndArchive, NextSlot
  <2>12. CASE LookForResults(r)
    BY <2>12 DEF LookForResults
  <2>13. CASE CreateResults(r)
    BY <2>13 DEF CreateResults
  <2>14. CASE EndResults(r)
    BY <2>14 DEF EndResults
  <2>15. CASE LoseFile(r)
    BY <2>15 DEF LoseFile
  <2>16. CASE WriteFails(r)
    BY <2>16 DEF WriteFails, Fault, Leftover
  <2>17. CASE Persist(r)
    <3>1. UNCHANGED frames /\ \A q \in Runners : pc'[q] \in Loaded => pc'[q] = pc[q]
      BY <2>17 DEF Persist
    <3>2. QED
      BY <3>1
  <2>18. CASE Reread(r)
    BY <2>18 DEF Reread
  <2>19. CASE StepRaises(r)
    BY <2>19 DEF StepRaises, Fault
  <2>20. CASE Notify(r)
    BY <2>20 DEF Notify
  <2>21. CASE NotifyFailure(r)
    BY <2>21 DEF NotifyFailure
  <2>22. CASE WebhookFails(r)
    BY <2>22 DEF WebhookFails, Fault
  <2>23. CASE Exit(r)
    BY <2>23 DEF Exit, Nothing
  <2>24. CASE Crash(r)
    BY <2>24 DEF Crash, Fault, Nothing
  <2>25. QED
    BY <1>2, <2>1, <2>2, <2>3, <2>4, <2>5, <2>6, <2>7, <2>8, <2>9, <2>10, <2>11,
          <2>12, <2>13, <2>14, <2>15, <2>16, <2>17, <2>18, <2>19, <2>20, <2>21,
          <2>22, <2>23, <2>24 DEF Progress, Faults
<1>3. QED
  BY <1>1, <1>2 DEF Next, Rest

\* What is about to be announced is the stored outcome.
LEMMA NotifyStep == IInv /\ [Next]_vars => NotifyInv'
<1> SUFFICES ASSUME IInv, [Next]_vars PROVE NotifyInv'
  OBVIOUS
<1> USE DEF IInv, TypeOK, NotifyInv, At, Goto, evidence, posts
<1>1. CASE UNCHANGED vars
  BY <1>1 DEF vars, memory, evidence, posts
<1>2. ASSUME NEW r \in Runners, Launch(r) \/ Progress(r) \/ Faults(r)
      PROVE  NotifyInv'
  <2>1. CASE Launch(r)
    BY <2>1 DEF Launch
  <2>2. CASE Lookup(r)
    BY <2>2 DEF Lookup
  <2>3. CASE Probe(r)
    BY <2>3 DEF Probe, Archived
  <2>4. CASE \E s \in Sources : IngestSource(r, s)
    BY <2>4 DEF IngestSource
  <2>5. CASE IngestReturns(r)
    BY <2>5 DEF IngestReturns
  <2>6. CASE IngestFails(r)
    BY <2>6 DEF IngestFails, Fault
  <2>7. CASE ReuseArchive(r)
    BY <2>7 DEF ReuseArchive, NextSlot
  <2>8. CASE FailOnTornArchive(r)
    BY <2>8 DEF FailOnTornArchive
  <2>9. CASE MissArchive(r)
    BY <2>9 DEF MissArchive
  <2>10. CASE CreateArchive(r)
    BY <2>10 DEF CreateArchive
  <2>11. CASE EndArchive(r)
    BY <2>11 DEF EndArchive, NextSlot
  <2>12. CASE LookForResults(r)
    BY <2>12 DEF LookForResults
  <2>13. CASE CreateResults(r)
    BY <2>13 DEF CreateResults
  <2>14. CASE EndResults(r)
    BY <2>14 DEF EndResults
  <2>15. CASE LoseFile(r)
    BY <2>15 DEF LoseFile
  <2>16. CASE WriteFails(r)
    BY <2>16 DEF WriteFails, Fault, Leftover
  <2>17. CASE Persist(r)
    <3>1. Result(r) # Absent
      BY <2>17, ResultOf DEF Persist, Loaded
    <3>2. QED
      BY <3>1, <2>17 DEF Persist
  <2>18. CASE Reread(r)
    BY <2>18 DEF Reread
  <2>19. CASE StepRaises(r)
    BY <2>19 DEF StepRaises, Fault
  <2>20. CASE Notify(r)
    BY <2>20 DEF Notify
  <2>21. CASE NotifyFailure(r)
    BY <2>21 DEF NotifyFailure
  <2>22. CASE WebhookFails(r)
    BY <2>22 DEF WebhookFails, Fault
  <2>23. CASE Exit(r)
    BY <2>23 DEF Exit, Nothing
  <2>24. CASE Crash(r)
    BY <2>24 DEF Crash, Fault, Nothing
  <2>25. QED
    BY <1>2, <2>1, <2>2, <2>3, <2>4, <2>5, <2>6, <2>7, <2>8, <2>9, <2>10, <2>11,
          <2>12, <2>13, <2>14, <2>15, <2>16, <2>17, <2>18, <2>19, <2>20, <2>21,
          <2>22, <2>23, <2>24 DEF Progress, Faults
<1>3. QED
  BY <1>1, <1>2 DEF Next, Rest

\* A message about breaks follows a stored outcome that has some.
LEMMA AlarmStep == IInv /\ [Next]_vars => AlarmInv'
<1> SUFFICES ASSUME IInv, [Next]_vars PROVE AlarmInv'
  OBVIOUS
<1> USE DEF IInv, TypeOK, NotifyInv, AlarmInv, At, Goto, evidence, posts
<1>1. CASE UNCHANGED vars
  BY <1>1 DEF vars, memory, evidence, posts
<1>2. ASSUME NEW r \in Runners, Launch(r) \/ Progress(r) \/ Faults(r)
      PROVE  AlarmInv'
  <2>1. CASE Launch(r)
    BY <2>1 DEF Launch
  <2>2. CASE Lookup(r)
    BY <2>2 DEF Lookup
  <2>3. CASE Probe(r)
    BY <2>3 DEF Probe, Archived
  <2>4. CASE \E s \in Sources : IngestSource(r, s)
    BY <2>4 DEF IngestSource
  <2>5. CASE IngestReturns(r)
    BY <2>5 DEF IngestReturns
  <2>6. CASE IngestFails(r)
    BY <2>6 DEF IngestFails, Fault
  <2>7. CASE ReuseArchive(r)
    BY <2>7 DEF ReuseArchive, NextSlot
  <2>8. CASE FailOnTornArchive(r)
    BY <2>8 DEF FailOnTornArchive
  <2>9. CASE MissArchive(r)
    BY <2>9 DEF MissArchive
  <2>10. CASE CreateArchive(r)
    BY <2>10 DEF CreateArchive
  <2>11. CASE EndArchive(r)
    BY <2>11 DEF EndArchive, NextSlot
  <2>12. CASE LookForResults(r)
    BY <2>12 DEF LookForResults
  <2>13. CASE CreateResults(r)
    BY <2>13 DEF CreateResults
  <2>14. CASE EndResults(r)
    BY <2>14 DEF EndResults
  <2>15. CASE LoseFile(r)
    BY <2>15 DEF LoseFile
  <2>16. CASE WriteFails(r)
    BY <2>16 DEF WriteFails, Fault, Leftover
  <2>17. CASE Persist(r)
    BY <2>17, DataAssumption DEF Persist
  <2>18. CASE Reread(r)
    BY <2>18 DEF Reread
  <2>19. CASE StepRaises(r)
    BY <2>19 DEF StepRaises, Fault
  <2>20. CASE Notify(r)
    BY <2>20 DEF Notify
  <2>21. CASE NotifyFailure(r)
    BY <2>21 DEF NotifyFailure
  <2>22. CASE WebhookFails(r)
    BY <2>22 DEF WebhookFails, Fault
  <2>23. CASE Exit(r)
    BY <2>23 DEF Exit, Nothing
  <2>24. CASE Crash(r)
    BY <2>24 DEF Crash, Fault, Nothing
  <2>25. QED
    BY <1>2, <2>1, <2>2, <2>3, <2>4, <2>5, <2>6, <2>7, <2>8, <2>9, <2>10, <2>11,
          <2>12, <2>13, <2>14, <2>15, <2>16, <2>17, <2>18, <2>19, <2>20, <2>21,
          <2>22, <2>23, <2>24 DEF Progress, Faults
<1>3. QED
  BY <1>1, <1>2 DEF Next, Rest

\* The four step lemmas together.
LEMMA StepInv == IInv /\ [Next]_vars => IInv'
BY TypeStep, FramesStep, NotifyStep, AlarmStep DEF IInv

\* IInv holds in every reachable state.
THEOREM InductiveInvariant == Spec => []IInv
BY InitInv, StepInv, PTL DEF Spec

\* Every variable keeps its type.
THEOREM TypeCorrect == Spec => []TypeOK
<1>1. IInv => TypeOK
  BY DEF IInv
<1>2. QED
  BY <1>1, InductiveInvariant, PTL

\* No message about breaks is false, nor sent before the outcome is stored.
THEOREM AlarmsAlwaysTrue == Spec => []AlarmsAreTrue
<1>1. IInv => AlarmsAreTrue
  BY DEF IInv, AlarmsAreTrue, AlarmInv, NotifyInv, At
<1>2. QED
  BY <1>1, InductiveInvariant, PTL

\* Every attempt of every runner is answered with the one stored outcome, which never
\* changes: batch.main implements LogicalRun, however many processes race.
THEOREM BatchImplementsLogicalRun == Spec => ImplementsLogicalRun
<1>1. Init => Contract!Init
  BY DEF Init, Contract!Init
<1>2. ASSUME IInv, [Next]_vars
      PROVE  [Contract!Next]_(Contract!vars)
  <2> USE DEF Contract!vars, At, evidence, posts
  <2>1. ASSUME NEW r \in Runners, Lookup(r) \/ Persist(r) \/ Reread(r)
        PROVE  Contract!Conclude(r) \/ UNCHANGED <<row, summary>>
    <3>1. CASE Lookup(r)
      BY <3>1, <1>2 DEF Lookup, Contract!Conclude, IInv, TypeOK
    <3>2. CASE Persist(r)
      <4>1. Result(r) \in Results /\ Result(r) # Absent
        BY <3>2, <1>2, ResultOf DEF Persist, IInv, Loaded
      <4>2. QED
        BY <4>1, <3>2 DEF Persist, Contract!Conclude
    <3>3. CASE Reread(r)
      BY <3>3 DEF Reread, Contract!Conclude
    <3>4. QED
      BY <2>1, <3>1, <3>2, <3>3
  <2>2. ASSUME NEW r \in Runners, Launch(r) \/ Progress(r) \/ Faults(r),
               ~(Lookup(r) \/ Persist(r) \/ Reread(r))
        PROVE  UNCHANGED <<row, summary>>
    BY <2>2 DEF Progress, Faults, Launch, Probe, IngestSource, IngestReturns,
          IngestFails, ReuseArchive, FailOnTornArchive, MissArchive, CreateArchive,
          EndArchive, LookForResults, CreateResults, EndResults, LoseFile,
          WriteFails, StepRaises, Notify, NotifyFailure, WebhookFails, Exit,
          Crash
  <2>3. CASE UNCHANGED vars
    BY <2>3 DEF vars, memory
  <2>4. QED
    BY <1>2, <2>1, <2>2, <2>3 DEF Next, Rest, Contract!Next
<1>3. QED
  BY <1>1, <1>2, InductiveInvariant, PTL DEF Spec, ImplementsLogicalRun, Contract!Spec

(***************************************************************************)
(* One process at a time whose writes are all or nothing: the stored row   *)
(* always has matching evidence.                                           *)
(***************************************************************************)
Solo == (\A q, r \in Runners : q = r) /\ ~TornWrites

\* An archive holds the checkpoint of its source; it is torn while it is written.
FileInv ==
    /\ \A k \in Slots :
          /\ Readable(archive[k]) => archive[k] = pinned[SourceOf(k)]
          /\ archive[k] = Torn => \E r \in Runners : pc[r] = "writing" /\ slot[r] = k
    /\ \A r \in Runners :
          /\ pc[r] = "create" => archive[slot[r]] = Absent
          /\ pc[r] = "writing" => archive[slot[r]] = Torn
          /\ \A s \in Sources : frames[r][s] \in {Absent, pinned[s]}

AllArchived == \A s \in Sources : Readable(Archived[s])

Working == {"probe", "ingest", "archive", "create", "writing", "compare",
            "createResults", "writingResults", "persist"}

\* How far an attempt is says what is on disk.
OrderInv == \A r \in Runners :
    /\ pc[r] \in {"archive", "create", "writing"} =>
          \A k \in Slots : k < slot[r] => Readable(archive[k])
    /\ pc[r] \in {"compare", "createResults", "writingResults", "persist"} => AllArchived
    /\ pc[r] = "createResults" => results = Absent
    /\ pc[r] = "persist" => Readable(results)
    /\ pc[r] \in Working => row = Absent

OutcomeInv ==
    /\ results = Torn => \E r \in Runners : pc[r] = "writingResults"
    /\ Readable(results) => AllArchived /\ results = Compare[pinned]
    /\ row # Absent => Readable(results) /\ results = row

\* The attempt that stores the outcome is the only one that announces it.
MessageInv ==
    /\ breakPosts <= 1
    /\ \A r \in Runners : pc[r] # "reread" /\ (pc[r] = "notify" => breakPosts = 0)

EvidenceInv == FileInv /\ OrderInv /\ OutcomeInv /\ MessageInv

\* An attempt past ingestion compares exactly the checkpointed bars.
LEMMA LoadedBars == ASSUME IInv, FileInv, NEW r \in Runners, pc[r] \in Loaded
                    PROVE  frames[r] = pinned /\ pinned \in [Sources -> Frames]
<1>1. frames[r] \in [Sources -> Frames] /\ \A s \in Sources : frames[r][s] # Absent
  BY DataAssumption DEF IInv, FramesInv
<1>2. pinned = [s \in Sources |-> pinned[s]]
  BY DEF IInv, TypeOK
<1>3. QED
  BY <1>1, <1>2 DEF FileInv

\* The normalized file of a source belongs to that source.
LEMMA SlotSource == \A s \in Sources : SourceOf(NormalizedSlot(s)) = s
BY SizeAssumption DEF Sources, SourceOf, NormalizedSlot

\* When every archive is complete, they are the checkpoints.
LEMMA ArchivedBars == ASSUME IInv, FileInv, AllArchived
                      PROVE  Archived = pinned /\ \A s \in Sources : pinned[s] # Absent
<1>1. \A s \in Sources : Archived[s] = pinned[s]
  BY SlotSource, NormalizedSlots DEF FileInv, AllArchived, Archived
<1>2. pinned = [s \in Sources |-> pinned[s]]
  BY DEF IInv, TypeOK
<1>3. QED
  BY <1>1, <1>2 DEF Archived, AllArchived, Readable

\* Archives hold the checkpoints.
LEMMA FileStep == IInv /\ Solo /\ EvidenceInv /\ [Next]_vars => FileInv'
<1> SUFFICES ASSUME IInv, Solo, EvidenceInv, [Next]_vars PROVE FileInv'
  OBVIOUS
<1> USE DEF IInv, TypeOK, Solo, EvidenceInv, FileInv, OrderInv, OutcomeInv,
      AllArchived, Readable, Working, At, Goto, evidence, posts
<1>1. CASE UNCHANGED vars
  BY <1>1 DEF vars, memory, evidence, posts
<1>2. ASSUME NEW r \in Runners, Launch(r) \/ Progress(r) \/ Faults(r)
      PROVE  FileInv'
  <2>1. CASE Launch(r)
    BY <2>1 DEF Launch
  <2>2. CASE Lookup(r)
    BY <2>2 DEF Lookup
  <2>3. CASE Probe(r)
    <3>1. AllArchived => Archived = pinned
      BY ArchivedBars
    <3>2. \A s \in Sources : frames'[r][s] \in {Absent, pinned[s]}
      BY <3>1, <2>3 DEF Probe, Nothing
    <3>3. UNCHANGED evidence /\ \A q \in Runners : q = r
      BY <2>3 DEF Probe
    <3>4. QED
      BY <3>2, <3>3, <2>3 DEF Probe
  <2>4. CASE \E s \in Sources : IngestSource(r, s)
    <3>1. PICK s \in Sources : IngestSource(r, s)
      BY <2>4
    <3>2. ~Racing(r)
      BY DEF Racing
    <3>3. UNCHANGED <<archive, pc, slot>> /\ \A q \in Runners : q = r
      BY <3>1 DEF IngestSource
    <3>4. \A k \in Slots : Readable(archive[k]) => pinned'[SourceOf(k)] = pinned[SourceOf(k)]
      BY <3>1, <3>2, SlotArithmetic DEF IngestSource
    <3>5. \A t \in Sources : frames'[r][t] \in {Absent, pinned'[t]}
      BY <3>1, <3>2 DEF IngestSource
    <3>6. QED
      BY <3>1, <3>3, <3>4, <3>5 DEF IngestSource
  <2>5. CASE IngestReturns(r)
    BY <2>5 DEF IngestReturns
  <2>6. CASE IngestFails(r)
    BY <2>6 DEF IngestFails, Fault
  <2>7. CASE ReuseArchive(r)
    BY <2>7 DEF ReuseArchive, NextSlot
  <2>8. CASE FailOnTornArchive(r)
    BY <2>8 DEF FailOnTornArchive
  <2>9. CASE MissArchive(r)
    BY <2>9 DEF MissArchive
  <2>10. CASE CreateArchive(r)
    BY <2>10 DEF CreateArchive
  <2>11. CASE EndArchive(r)
    <3>1. frames[r] = pinned
      BY <2>11, LoadedBars DEF EndArchive, Loaded
    <3>2. SourceOf(slot[r]) \in Sources /\ slot[r] \in Slots
      BY SlotArithmetic
    <3>3. archive' = [archive EXCEPT ![slot[r]] = pinned[SourceOf(slot[r])]]
      BY <3>1, <2>11 DEF EndArchive
    <3>4. pinned[SourceOf(slot[r])] # Torn
      BY <3>2, DataAssumption
    <3>5. UNCHANGED <<pinned, frames>> /\ pc'[r] \notin {"writing", "create"} /\ pc[r] = "writing"
      BY <2>11 DEF EndArchive, NextSlot
    <3>6. \A q \in Runners : q = r
      OBVIOUS
    <3>7. QED
      BY <3>2, <3>3, <3>4, <3>5, <3>6
  <2>12. CASE LookForResults(r)
    BY <2>12 DEF LookForResults
  <2>13. CASE CreateResults(r)
    BY <2>13 DEF CreateResults
  <2>14. CASE EndResults(r)
    BY <2>14 DEF EndResults
  <2>15. CASE LoseFile(r)
    BY <2>15 DEF LoseFile
  <2>16. CASE WriteFails(r)
    <3>1. Leftover = {Absent}
      BY DEF Leftover
    <3>2. \A q \in Runners : q = r
      OBVIOUS
    <3>3. CASE pc[r] = "writing"
      <4>1. archive' = [archive EXCEPT ![slot[r]] = Absent]
        BY <3>1, <3>3, <2>16 DEF WriteFails
      <4>2. UNCHANGED <<pinned, frames, slot>> /\ pc'[r] = "failing"
        BY <2>16 DEF WriteFails
      <4>3. \A k \in Slots : k # slot[r] => archive'[k] = archive[k] /\ archive[k] # Torn
        BY <3>2, <4>1
      <4>4. archive'[slot[r]] = Absent /\ Absent # Torn
        BY <4>1, DataAssumption
      <4>5. QED
        BY <3>2, <4>2, <4>3, <4>4
    <3>4. CASE pc[r] = "writingResults"
      BY <3>1, <3>2, <3>4, <2>16 DEF WriteFails
    <3>5. QED
      BY <3>3, <3>4, <2>16 DEF WriteFails, Writing
  <2>17. CASE Persist(r)
    BY <2>17 DEF Persist
  <2>18. CASE Reread(r)
    BY <2>18 DEF Reread
  <2>19. CASE StepRaises(r)
    BY <2>19 DEF StepRaises, Fault
  <2>20. CASE Notify(r)
    BY <2>20 DEF Notify
  <2>21. CASE NotifyFailure(r)
    BY <2>21 DEF NotifyFailure
  <2>22. CASE WebhookFails(r)
    BY <2>22 DEF WebhookFails, Fault
  <2>23. CASE Exit(r)
    <3>1. pc[r] # "writing" /\ \A q \in Runners : q = r
      BY <2>23 DEF Exit, Ended
    <3>2. \A k \in Slots : archive[k] # Torn
      BY <3>1
    <3>3. QED
      BY <3>2, <2>23 DEF Exit, Nothing
  <2>24. CASE Crash(r)
    <3>1. pc[r] # "writing" /\ \A q \in Runners : q = r
      BY <2>24 DEF Crash, Writing
    <3>2. \A k \in Slots : archive[k] # Torn
      BY <3>1
    <3>3. QED
      BY <3>2, <2>24 DEF Crash, Nothing
  <2>25. QED
    BY <1>2, <2>1, <2>2, <2>3, <2>4, <2>5, <2>6, <2>7, <2>8, <2>9, <2>10, <2>11,
          <2>12, <2>13, <2>14, <2>15, <2>16, <2>17, <2>18, <2>19, <2>20, <2>21,
          <2>22, <2>23, <2>24 DEF Progress, Faults
<1>3. QED
  BY <1>1, <1>2 DEF Next, Rest

\* Each step leaves on disk what the next one counts on.
LEMMA OrderStep == IInv /\ Solo /\ EvidenceInv /\ [Next]_vars => OrderInv'
<1> SUFFICES ASSUME IInv, Solo, EvidenceInv, [Next]_vars PROVE OrderInv'
  OBVIOUS
<1> USE DEF IInv, TypeOK, Solo, EvidenceInv, FileInv, OrderInv, OutcomeInv,
      AllArchived, Readable, Working, At, Goto, evidence, posts, Archived
<1>1. CASE UNCHANGED vars
  BY <1>1 DEF vars, memory, evidence, posts
<1>2. ASSUME NEW r \in Runners, Launch(r) \/ Progress(r) \/ Faults(r)
      PROVE  OrderInv'
  <2>1. CASE Launch(r)
    BY <2>1 DEF Launch
  <2>2. CASE Lookup(r)
    BY <2>2 DEF Lookup
  <2>3. CASE Probe(r)
    BY <2>3 DEF Probe, Archived
  <2>4. CASE \E s \in Sources : IngestSource(r, s)
    BY <2>4 DEF IngestSource
  <2>5. CASE IngestReturns(r)
    <3>1. \A k \in Slots : ~(k < 1)
      BY SizeAssumption DEF Slots
    <3>2. QED
      BY <3>1, <2>5 DEF IngestReturns
  <2>6. CASE IngestFails(r)
    BY <2>6 DEF IngestFails, Fault
  <2>7. CASE ReuseArchive(r)
    <3>1. pc[r] \in {"archive", "writing"} /\ slot[r] \in Slots /\ row = Absent
      BY <2>7 DEF ReuseArchive
    <3>2. \A k \in Slots : k <= slot[r] => Readable(archive'[k])
      BY <3>1, <2>7 DEF ReuseArchive, Slots
    <3>3. \A q \in Runners : q = r
      OBVIOUS
    <3>4. UNCHANGED <<results, row>>
      BY <2>7 DEF ReuseArchive
    <3>5. CASE slot[r] < 2 * S
      <4>1. slot'[r] = slot[r] + 1 /\ pc'[r] = "archive"
        BY <3>5, <2>7 DEF ReuseArchive, NextSlot
      <4>2. \A k \in Slots : k < slot[r] + 1 => k <= slot[r]
        BY <3>1, SizeAssumption DEF Slots
      <4>3. QED
        BY <3>1, <3>2, <3>3, <3>4, <4>1, <4>2
    <3>6. CASE ~(slot[r] < 2 * S)
      <4>1. pc'[r] = "compare"
        BY <3>6, <2>7 DEF ReuseArchive, NextSlot
      <4>2. \A k \in Slots : k <= slot[r]
        BY <3>1, <3>6, SizeAssumption DEF Slots
      <4>3. AllArchived'
        BY <3>2, <4>2, NormalizedSlots DEF NormalizedSlot
      <4>4. QED
        BY <3>1, <3>3, <3>4, <4>1, <4>3
    <3>7. QED
      BY <3>5, <3>6
  <2>8. CASE FailOnTornArchive(r)
    BY <2>8 DEF FailOnTornArchive
  <2>9. CASE MissArchive(r)
    BY <2>9 DEF MissArchive
  <2>10. CASE CreateArchive(r)
    BY <2>10 DEF CreateArchive
  <2>11. CASE EndArchive(r)
    <3>1. pc[r] \in {"archive", "writing"} /\ slot[r] \in Slots /\ row = Absent
      BY <2>11 DEF EndArchive
    <3>2. \A k \in Slots : k <= slot[r] => Readable(archive'[k])
      <4>1. frames[r] \in [Sources -> Frames] /\ SourceOf(slot[r]) \in Sources
        BY <2>11, SlotArithmetic DEF EndArchive, FramesInv, Loaded
      <4>2. archive'[slot[r]] \in Frames
        BY <4>1, <2>11 DEF EndArchive
      <4>3. Readable(archive'[slot[r]])
        BY <4>2, DataAssumption
      <4>4. \A k \in Slots : k < slot[r] => archive'[k] = archive[k]
        BY <2>11 DEF EndArchive, Slots
      <4>5. QED
        BY <3>1, <4>3, <4>4, <2>11 DEF EndArchive, Slots
    <3>3. \A q \in Runners : q = r
      OBVIOUS
    <3>4. UNCHANGED <<results, row>>
      BY <2>11 DEF EndArchive
    <3>5. CASE slot[r] < 2 * S
      <4>1. slot'[r] = slot[r] + 1 /\ pc'[r] = "archive"
        BY <3>5, <2>11 DEF EndArchive, NextSlot
      <4>2. \A k \in Slots : k < slot[r] + 1 => k <= slot[r]
        BY <3>1, SizeAssumption DEF Slots
      <4>3. QED
        BY <3>1, <3>2, <3>3, <3>4, <4>1, <4>2
    <3>6. CASE ~(slot[r] < 2 * S)
      <4>1. pc'[r] = "compare"
        BY <3>6, <2>11 DEF EndArchive, NextSlot
      <4>2. \A k \in Slots : k <= slot[r]
        BY <3>1, <3>6, SizeAssumption DEF Slots
      <4>3. AllArchived'
        BY <3>2, <4>2, NormalizedSlots DEF NormalizedSlot
      <4>4. QED
        BY <3>1, <3>3, <3>4, <4>1, <4>3
    <3>7. QED
      BY <3>5, <3>6
  <2>12. CASE LookForResults(r)
    BY <2>12 DEF LookForResults
  <2>13. CASE CreateResults(r)
    BY <2>13 DEF CreateResults
  <2>14. CASE EndResults(r)
    <3>1. Readable(Result(r))
      BY <2>14, LoadedBars, Outcomes DEF EndResults, Loaded, Result
    <3>2. QED
      BY <3>1, <2>14 DEF EndResults
  <2>15. CASE LoseFile(r)
    BY <2>15 DEF LoseFile
  <2>16. CASE WriteFails(r)
    BY <2>16 DEF WriteFails, Fault, Leftover
  <2>17. CASE Persist(r)
    BY <2>17 DEF Persist
  <2>18. CASE Reread(r)
    BY <2>18 DEF Reread
  <2>19. CASE StepRaises(r)
    BY <2>19 DEF StepRaises, Fault
  <2>20. CASE Notify(r)
    BY <2>20 DEF Notify
  <2>21. CASE NotifyFailure(r)
    BY <2>21 DEF NotifyFailure
  <2>22. CASE WebhookFails(r)
    BY <2>22 DEF WebhookFails, Fault
  <2>23. CASE Exit(r)
    BY <2>23 DEF Exit, Nothing
  <2>24. CASE Crash(r)
    BY <2>24 DEF Crash, Fault, Nothing
  <2>25. QED
    BY <1>2, <2>1, <2>2, <2>3, <2>4, <2>5, <2>6, <2>7, <2>8, <2>9, <2>10, <2>11,
          <2>12, <2>13, <2>14, <2>15, <2>16, <2>17, <2>18, <2>19, <2>20, <2>21,
          <2>22, <2>23, <2>24 DEF Progress, Faults
<1>3. QED
  BY <1>1, <1>2 DEF Next, Rest

\* The results archive and the stored row are the outcome of the checkpoints.
LEMMA OutcomeStep == IInv /\ Solo /\ EvidenceInv /\ [Next]_vars => OutcomeInv'
<1> SUFFICES ASSUME IInv, Solo, EvidenceInv, [Next]_vars PROVE OutcomeInv'
  OBVIOUS
<1> USE DEF IInv, TypeOK, Solo, EvidenceInv, FileInv, OrderInv, OutcomeInv,
      AllArchived, Readable, Working, At, Goto, evidence, posts, Archived
<1>1. CASE UNCHANGED vars
  BY <1>1 DEF vars, memory, evidence, posts
<1>2. ASSUME NEW r \in Runners, Launch(r) \/ Progress(r) \/ Faults(r)
      PROVE  OutcomeInv'
  <2>1. CASE Launch(r)
    BY <2>1 DEF Launch
  <2>2. CASE Lookup(r)
    BY <2>2 DEF Lookup
  <2>3. CASE Probe(r)
    BY <2>3 DEF Probe, Archived
  <2>4. CASE \E s \in Sources : IngestSource(r, s)
    <3>1. PICK s \in Sources : IngestSource(r, s)
      BY <2>4
    <3>2. UNCHANGED <<archive, results, row, pc>>
      BY <3>1 DEF IngestSource
    <3>3. ASSUME AllArchived
          PROVE  UNCHANGED pinned
      BY <3>1, <3>3, ArchivedBars DEF IngestSource, Racing
    <3>4. QED
      BY <3>2, <3>3
  <2>5. CASE IngestReturns(r)
    BY <2>5 DEF IngestReturns
  <2>6. CASE IngestFails(r)
    BY <2>6 DEF IngestFails, Fault
  <2>7. CASE ReuseArchive(r)
    BY <2>7 DEF ReuseArchive, NextSlot
  <2>8. CASE FailOnTornArchive(r)
    BY <2>8 DEF FailOnTornArchive
  <2>9. CASE MissArchive(r)
    BY <2>9 DEF MissArchive
  <2>10. CASE CreateArchive(r)
    BY <2>10 DEF CreateArchive
  <2>11. CASE EndArchive(r)
    BY <2>11 DEF EndArchive, NextSlot
  <2>12. CASE LookForResults(r)
    BY <2>12 DEF LookForResults
  <2>13. CASE CreateResults(r)
    BY <2>13 DEF CreateResults
  <2>14. CASE EndResults(r)
    <3>1. Result(r) = Compare[pinned] /\ Readable(Result(r))
      BY <2>14, LoadedBars, Outcomes DEF EndResults, Loaded, Result
    <3>2. AllArchived /\ row = Absent /\ results' = Result(r)
      BY <2>14 DEF EndResults
    <3>3. QED
      BY <3>1, <3>2, <2>14 DEF EndResults
  <2>15. CASE LoseFile(r)
    BY <2>15 DEF LoseFile
  <2>16. CASE WriteFails(r)
    <3>1. Leftover = {Absent}
      BY DEF Leftover
    <3>2. \A q \in Runners : q = r
      OBVIOUS
    <3>3. CASE pc[r] = "writing"
      <4>1. UNCHANGED <<results, row, pinned>> /\ results # Torn
        BY <3>2, <3>3, <2>16 DEF WriteFails
      <4>2. ASSUME AllArchived PROVE AllArchived'
        BY <3>3, <4>2, NormalizedSlots, <2>16 DEF WriteFails
      <4>3. QED
        BY <4>1, <4>2
    <3>4. CASE pc[r] = "writingResults"
      BY <3>1, <3>2, <3>4, <2>16, DataAssumption DEF WriteFails
    <3>5. QED
      BY <3>3, <3>4, <2>16 DEF WriteFails, Writing
  <2>17. CASE Persist(r)
    <3>1. Result(r) = Compare[pinned]
      BY <2>17, LoadedBars DEF Persist, Loaded, Result
    <3>2. results = Compare[pinned] /\ row = Absent /\ Readable(results)
      BY <2>17 DEF Persist
    <3>3. row' = results /\ UNCHANGED evidence
      BY <3>1, <3>2, <2>17 DEF Persist
    <3>4. QED
      BY <3>2, <3>3
  <2>18. CASE Reread(r)
    BY <2>18 DEF Reread
  <2>19. CASE StepRaises(r)
    BY <2>19 DEF StepRaises, Fault
  <2>20. CASE Notify(r)
    BY <2>20 DEF Notify
  <2>21. CASE NotifyFailure(r)
    BY <2>21 DEF NotifyFailure
  <2>22. CASE WebhookFails(r)
    BY <2>22 DEF WebhookFails, Fault
  <2>23. CASE Exit(r)
    <3>1. pc[r] # "writingResults" /\ \A q \in Runners : q = r
      BY <2>23 DEF Exit, Ended
    <3>2. results # Torn
      BY <3>1
    <3>3. QED
      BY <3>2, <2>23 DEF Exit
  <2>24. CASE Crash(r)
    <3>1. pc[r] # "writingResults" /\ \A q \in Runners : q = r
      BY <2>24 DEF Crash, Writing
    <3>2. results # Torn
      BY <3>1
    <3>3. QED
      BY <3>2, <2>24 DEF Crash
  <2>25. QED
    BY <1>2, <2>1, <2>2, <2>3, <2>4, <2>5, <2>6, <2>7, <2>8, <2>9, <2>10, <2>11,
          <2>12, <2>13, <2>14, <2>15, <2>16, <2>17, <2>18, <2>19, <2>20, <2>21,
          <2>22, <2>23, <2>24 DEF Progress, Faults
<1>3. QED
  BY <1>1, <1>2 DEF Next, Rest

\* One attempt announces.
LEMMA MessageStep == IInv /\ Solo /\ EvidenceInv /\ [Next]_vars => MessageInv'
<1> SUFFICES ASSUME IInv, Solo, EvidenceInv, [Next]_vars PROVE MessageInv'
  OBVIOUS
<1> USE DEF IInv, TypeOK, AlarmInv, Solo, EvidenceInv, MessageInv, At, Goto,
      evidence, posts
<1>1. CASE UNCHANGED vars
  BY <1>1 DEF vars, memory, evidence, posts
<1>2. ASSUME NEW r \in Runners, Launch(r) \/ Progress(r) \/ Faults(r)
      PROVE  MessageInv'
  <2>1. CASE Launch(r)
    BY <2>1 DEF Launch
  <2>2. CASE Lookup(r)
    BY <2>2 DEF Lookup
  <2>3. CASE Probe(r)
    BY <2>3 DEF Probe, Archived
  <2>4. CASE \E s \in Sources : IngestSource(r, s)
    BY <2>4 DEF IngestSource
  <2>5. CASE IngestReturns(r)
    BY <2>5 DEF IngestReturns
  <2>6. CASE IngestFails(r)
    BY <2>6 DEF IngestFails, Fault
  <2>7. CASE ReuseArchive(r)
    BY <2>7 DEF ReuseArchive, NextSlot
  <2>8. CASE FailOnTornArchive(r)
    BY <2>8 DEF FailOnTornArchive
  <2>9. CASE MissArchive(r)
    BY <2>9 DEF MissArchive
  <2>10. CASE CreateArchive(r)
    BY <2>10 DEF CreateArchive
  <2>11. CASE EndArchive(r)
    BY <2>11 DEF EndArchive, NextSlot
  <2>12. CASE LookForResults(r)
    BY <2>12 DEF LookForResults
  <2>13. CASE CreateResults(r)
    BY <2>13 DEF CreateResults
  <2>14. CASE EndResults(r)
    BY <2>14 DEF EndResults
  <2>15. CASE LoseFile(r)
    BY <2>15 DEF LoseFile
  <2>16. CASE WriteFails(r)
    BY <2>16 DEF WriteFails, Fault, Leftover
  <2>17. CASE Persist(r)
    <3>1. row = Absent /\ breakPosts = 0
      BY <2>17, DataAssumption DEF Persist, OrderInv, Working
    <3>2. QED
      BY <3>1, <2>17 DEF Persist
  <2>18. CASE Reread(r)
    BY <2>18 DEF Reread
  <2>19. CASE StepRaises(r)
    BY <2>19 DEF StepRaises, Fault
  <2>20. CASE Notify(r)
    BY <2>20 DEF Notify
  <2>21. CASE NotifyFailure(r)
    BY <2>21 DEF NotifyFailure
  <2>22. CASE WebhookFails(r)
    BY <2>22 DEF WebhookFails, Fault
  <2>23. CASE Exit(r)
    BY <2>23 DEF Exit, Nothing
  <2>24. CASE Crash(r)
    BY <2>24 DEF Crash, Fault, Nothing
  <2>25. QED
    BY <1>2, <2>1, <2>2, <2>3, <2>4, <2>5, <2>6, <2>7, <2>8, <2>9, <2>10, <2>11,
          <2>12, <2>13, <2>14, <2>15, <2>16, <2>17, <2>18, <2>19, <2>20, <2>21,
          <2>22, <2>23, <2>24 DEF Progress, Faults
<1>3. QED
  BY <1>1, <1>2 DEF Next, Rest

\* The four evidence lemmas together.
LEMMA EvidenceStep == IInv /\ Solo /\ EvidenceInv /\ [Next]_vars => EvidenceInv'
BY FileStep, OrderStep, OutcomeStep, MessageStep DEF EvidenceInv

\* There is no evidence before the first launch, and nothing counts on any.
LEMMA EvidenceInit == Init => EvidenceInv
BY SizeAssumption, DataAssumption, SlotArithmetic
   DEF Init, EvidenceInv, FileInv, OrderInv, OutcomeInv, MessageInv, Nothing, Readable,
       Working

\* EvidenceInv holds in every reachable state of a solo runner whose writes are whole.
LEMMA EvidenceHolds == Solo => (Spec => []EvidenceInv)
<1> SUFFICES ASSUME Solo PROVE Spec => []EvidenceInv
  OBVIOUS
<1>1. IInv /\ EvidenceInv /\ [Next]_vars => EvidenceInv'
  BY EvidenceStep
<1>2. QED
  BY <1>1, EvidenceInit, InductiveInvariant, PTL DEF Spec

\* One process at a time with all-or-nothing writes: whatever was killed and retried, a
\* stored row equals its results archive and is what the run's rules give on the source archives.
THEOREM StoredRowHasEvidence == Solo => (Spec => []MatchingEvidence)
<1> SUFFICES ASSUME Solo PROVE Spec => []MatchingEvidence
  OBVIOUS
<1>1. IInv /\ EvidenceInv => MatchingEvidence
  BY ArchivedBars DEF EvidenceInv, OutcomeInv, AllArchived, MatchingEvidence
<1>2. QED
  BY <1>1, EvidenceHolds, InductiveInvariant, PTL

\* One process at a time never announces the breaks of a run twice.
THEOREM BreaksAreAnnouncedOnce == Solo => (Spec => []NoDuplicateAlarm)
<1> SUFFICES ASSUME Solo PROVE Spec => []NoDuplicateAlarm
  OBVIOUS
<1>1. EvidenceInv => NoDuplicateAlarm
  BY DEF EvidenceInv, MessageInv, NoDuplicateAlarm
<1>2. QED
  BY <1>1, EvidenceHolds, PTL
=============================================================================
