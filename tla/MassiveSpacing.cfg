\* Two threads read two lists of two pages each; every call may fail.
CONSTANTS
    t1 = t1
    t2 = t2
    None = None
    Threads <- MCThreads
    Interval = 3
    MaxLag = 1
    MaxRetries = 2
    LongestBackoff = 2
    RetryAfters <- MCRetryAfters
    Pages = 2
    MaxCalls = 2
SPECIFICATION FairSpec
PROPERTIES CallsAreSpaced ListsEnd
\* All lists have been read.
CHECK_DEADLOCK FALSE
