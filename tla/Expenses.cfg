SPECIFICATION FairSpec
CONSTANTS
    e1 = e1
    e2 = e2
    first = first
    second = second
    exe = exe
    Expense = {e1, e2}
    Receipt = {first, second, exe}
    ReceiptsOf <- Receipts
    Unsupported = {exe}
    BatchSize = 1
    MaxFaults = 1
INVARIANTS
    LinksAcknowledged
    NoReceiptForgotten
PROPERTIES
    ReceiptsArrive
