\* One fault around the notification, retries afterwards.
CONSTANTS
    f1 = f1
    f2 = f2
    r1 = r1
    r2 = r2
    Absent = Absent
    Torn = Torn
    S = 2
    Frames <- MCFrames
    Results <- MCResults
    BreakResults <- MCBreaks
    Compare <- MCCompare
    Runners <- OneRunner
    TornWrites = FALSE
    MaxLaunches = 3
    MaxFaults = 1
SPECIFICATION FairSpec
PROPERTY BreaksAreAnnounced
