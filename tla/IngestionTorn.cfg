\* One kill in the middle of a write.
CONSTANTS
    N = 1
    MaxWorkers = 1
    Versions = 2
    MaxLaunches = 2
    MaxFaults = 1
    TornWrites = TRUE
    v1 = v1
    v2 = v2
    b1 = b1
    b2 = b2
    Rejected = Rejected
    Absent = Absent
    Torn = Torn
    Payloads <- MCPayloads
    Bars <- MCBars
    Canonical <- MCCanonical
SPECIFICATION FairSpec
PROPERTIES OneCleanAttemptSuffices
