\* A monitor that is started again on the journal of the first one.
CONSTANTS
    Absent = Absent
    Streams = {s1}
    Numbers <- MCNumbers
    Window = 2
    MaxArrivals = 4
    MaxStarts = 2
SPECIFICATION Spec
INVARIANTS LossesAreJournaled
