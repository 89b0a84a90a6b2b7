SPECIFICATION Spec
CONSTANTS
    Tx = {x1, x2, x3}
    x1 = x1
    x2 = x2
    x3 = x3
    Arrival <- FeedArrival
    HistoricalFrom = {0, 2}
    BackfillRange <- Backfills
    Window = 2
    Overlap = 2
    Lookback = 1
    AuditWindow = 2
    AuditEnabled = TRUE
    Day = 9
    Margin = 1
    PageSize = 2
    TieSize = 3
    MaxPages = 2
    StartTime = 2
    MaxTime = 4
    MaxFaults = 1
SYMMETRY TxSymmetry
INVARIANTS
    CheckpointSound
    PollComplete
    BackfillComplete
PROPERTIES
    ProgressKept
