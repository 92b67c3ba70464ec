\* Two processes run the same logical run at the same time; files may be left torn.
CONSTANTS
    f1 = f1
    f2 = f2
    r1 = r1
    r2 = r2
    Absent = Absent
    Torn = Torn
    S = 2
    Frames <- MCFrames
    Results <- MCResults
    BreakResults <- MCBreaks
    Compare <- MCCompare
    Runners <- TwoRunners
    TornWrites = TRUE
    MaxLaunches = 3
    MaxFaults = 1
SPECIFICATION Spec
INVARIANTS
    AlarmsAreTrue
PROPERTIES
    ImplementsLogicalRun
SYMMETRY Swap
