\* Three monitor processes after each other on one journal, a window of two numbers.
CONSTANTS
    Absent = Absent
    Streams = {s1}
    Numbers <- MCNumbers
    Window = 2
    MaxArrivals = 4
    MaxStarts = 3
SPECIFICATION Spec
INVARIANTS TrackerMatchesArrivals GapLedger OnlyRestartsHideLosses
