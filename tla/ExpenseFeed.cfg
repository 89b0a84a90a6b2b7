SPECIFICATION FairSpec
CONSTANTS
    Expense = {good, bad}
    good = good
    bad = bad
    Unreadable = {bad}
    Approved = 2
    Final = 2
    History = 2
    PollWindow = 2
    AuditWindow = 2
    Overlap = 1
    Day = 1
    BatchSize = 1
    MaxAge = 4
    MaxLag = 1
    MaxFaults = 1
INVARIANTS
    NoExpenseSkipped
PROPERTIES
    ExpensesArrive
    UnfinishedSettles
