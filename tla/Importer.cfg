SPECIFICATION Spec
CONSTANTS
    t1 = t1
    a1 = a1
    a2 = a2
    v1 = v1
    Tx = {t1}
    Account = {a1, a2}
    Voucher = {v1}
    Payload <- TransferPayload
    NoPayload = NoPayload
    Policy <- Policies
    MaxRev = 2
    MaxAlloc = 1
INVARIANTS
    TypeOK
    OneSubmittedRow
    LegsMatchRows
    HeldRowsUnderReview
    OpenRowsAgree
    ClosedSourceComplete
    RowsHaveEvidence
PROPERTIES
    RowsNeverRewritten
    ImplementsLedger
