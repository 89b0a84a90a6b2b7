SPECIFICATION FairSpec
CONSTANTS
    Tx = {x1, x2}
    x1 = x1
    x2 = x2
    x3 = x3
    Arrival <- LiveArrival
    HistoricalFrom = {0, 3}
    BackfillRange = {}
    Window = 2
    Overlap = 1
    Lookback = 1
    AuditWindow = 2
    AuditEnabled = FALSE
    Day = 9
    Margin = 1
    PageSize = 1
    TieSize = 3
    MaxPages = 1
    StartTime = 2
    MaxTime = 5
    MaxFaults = 0
PROPERTIES
    PollCatchesUp
