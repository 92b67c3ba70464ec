\* Both framings, payloads that are empty, at the limit and beyond it.  The caller stops.
CONSTANTS
    Absent = Absent
    Framings <- MCFramings
    Prefix = 2
    MaxFrame = 3
    MaxChunk = 4
    ReconnectAttempts = 2
    Sizes <- MCSizes
    MaxFrames = 3
SPECIFICATION FairSpec
INVARIANTS LimitIsExact
PROPERTIES ImplementsFrameStream WholeFramesSurvive ReceiveEnds
CHECK_DEADLOCK FALSE
