\* Two symbols, three ticks, one process that ends, one stray message or failing poll; topics and
\* polls of two messages, so that a full poll may leave one that came meanwhile; three time units,
\* so that the clock runs past the stale limit and the window.
CONSTANTS
    Symbols = {AAPL, MSFT}
    AAPL = AAPL
    MSFT = MSFT
    Prices <- MCPrices
    Threshold = 40
    StaleAfter = 1
    Window = 1
    Refresh = 1
    MaxMessages = 2
    Capacity = 2
    None = None
    Invalid = Invalid
    MaxTime = 3
    MaxTicks = 3
    MaxStops = 1
    MaxFaults = 1
SYMMETRY MCSymmetry
SPECIFICATION Spec
INVARIANTS JournalExplains FreshWhenShown AnomaliesAreRecent
PROPERTIES ImplementsLossyFeed
CHECK_DEADLOCK FALSE
