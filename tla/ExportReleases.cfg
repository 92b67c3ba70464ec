\* Two clients share one or two slots; up to three releases, live or published.
CONSTANTS
    c1 = c1
    c2 = c2
    Rows <- MCRows
    Runs <- MCRuns
    Key <- TiedKey
    Clients <- MCClients
    Filters <- MCFilters
    Limit = 1
    ExportMax = 2
    MaxSlots = 2
    MaxReleases = 3
SPECIFICATION Spec
INVARIANTS OnlyRequestsHold WalkMissesOnlyTiedOrUncounted ExportIsWhole
PROPERTIES ImplementsReleasedView
SYMMETRY Symmetric
