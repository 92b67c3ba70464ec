\* Three controls over small frames.  A call ends when its results are returned.
CONSTANTS
    Absent = Absent
    Order <- MCOrder
    Observed <- MCObserved
    RawKeys <- MCRawKeys
    Canonical <- MCCanonical
    RollMap <- MCRollMap
    Rules <- MCRules
    Unit = 4
SPECIFICATION Spec
INVARIANTS JoinIsComplete MissingIsNamed CloserIsNotWorse SwapKeepsStatus
    SuccessMeansAgreement ExceptionsCoverBreaks
CHECK_DEADLOCK FALSE
