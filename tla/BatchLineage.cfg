\* One process, killed and failed at every step of main and of its ingestion.
CONSTANTS
    N = 2
    MaxWorkers = 2
    Versions = 2
    MaxLaunches = 3
    MaxFaults = 2
    TornWrites = TRUE
    v1 = v1
    v2 = v2
    b1 = b1
    b2 = b2
    Rejected = Rejected
    Absent = Absent
    Torn = Torn
    Payloads <- MCPayloads
    Bars <- MCBars
    Canonical <- MCCanonical
    Results <- MCResults
    BreakResults <- MCBreaks
    Compare <- MCCompare
SPECIFICATION FairSystem
INVARIANTS
    EvidenceChain ManifestTruth CountersAgree CompletedWorkIsRecorded
    OutcomeIsTraceable AlarmsOnce
PROPERTIES
    ArchivesImmutable SuccessIsFinal ImplementsContract ImplementsBatch
    CleanAttemptStores
