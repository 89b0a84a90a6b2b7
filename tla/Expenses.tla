------------------------------ MODULE Expenses ------------------------------
(***************************************************************************)
(* expense_record, upsert, receipts and receipt_batch of enrichment, and   *)
(* refresh_expense and link_expense of enrichment_api: one Revolut Expense *)
(* is written by the hourly job and by two kinds of requests.  All three   *)
(* take the connection lock, but the last write of a request is committed  *)
(* only after it has released the lock.  Until then the database shows     *)
(* others the old row, and makes their writes of that row wait.            *)
(*                                                                         *)
(* Which expenses a run records, and when, is module ExpenseFeed's.        *)
(***************************************************************************)
EXTENDS Sequences, Rotation

CONSTANTS
    Expense,        \* expenses of the connection
    Receipt,        \* receipt ids
    ReceiptsOf,     \* receipt_ids of each version that an expense has at the bank
    Unsupported,    \* receipts that cannot be saved, whatever is tried
    BatchSize,      \* limit_page_length of the receipt batch
    MaxFaults       \* bound: failed calls, dead workers, deleted files

ASSUME ReceiptAssumption ==
    /\ IsFiniteSet(Expense) /\ Unsupported \subseteq Receipt
    /\ ReceiptsOf \in [Expense -> Seq(SUBSET Receipt) \ {<<>>}]
ASSUME BoundAssumption == BatchSize \in Nat \ {0} /\ MaxFaults \in Nat

VARIABLES
    upstream,       \* the bank: version of each expense, 0 before there is one
    data,           \* version of each Revolut Expense, 0 when there is none
    linked,         \* linked_document is set
    flag,           \* accounting_review_required
    pending,        \* receipt_pending
    stored,         \* receipts in receipt_files
    files,          \* receipts whose private File exists
    order,          \* <<e, f>>: e's receipt_last_checked is before f's, or null
    sync,           \* sync_receipts
    uncommitted,    \* "none", or the request whose write of the row is not committed
    work,           \* what the lock's holder does
    batch,          \* rest of the receipt batch
    replay,         \* expenses of a page whose checkpoint a dead worker did not save
    faults,         \* bound counter
    acked,          \* history: the version that was linked or re-linked last
    crossed,        \* history: expenses that were read while a link was not committed
    torn            \* history: expenses left between the two commits of a record

row == <<data, linked, flag, pending, stored, files, order>>

history == <<acked, crossed, torn>>

vars == <<upstream, row, sync, uncommitted, work, batch, replay, faults, history>>

Step == {"none", "expenses", "upsert", "pending", "batch", "receipts"}

\* The work's holder is the job or a refresh; how tells whether the expense is
\* one of a page, which is read again after a crash, or is looked up.
NoWork == [holder |-> "free", step |-> "none", how |-> "lookup", sync |-> FALSE, expense |-> "none",
           got |-> 0, sawLink |-> FALSE, todo |-> {}, failed |-> FALSE]

LockFree == work = NoWork

\* What the lock's holder reads is only as new as the commits before.
Read(e) == crossed' = IF uncommitted[e] = "link" THEN crossed \cup {e} ELSE crossed

Fault == faults < MaxFaults /\ faults' = faults + 1

-----------------------------------------------------------------------------
(* The bank and the users *)

Upstream(e) ==
    /\ upstream[e] < Len(ReceiptsOf[e])
    /\ upstream' = [upstream EXCEPT ![e] = upstream[e] + 1]
    /\ UNCHANGED <<row, sync, uncommitted, work, batch, replay, faults, history>>

\* configure
SetSync(b) ==
    /\ LockFree
    /\ sync' = b
    /\ UNCHANGED <<upstream, row, uncommitted, work, batch, replay, faults, history>>

DeleteFile(e, r) ==
    /\ r \in files[e]
    /\ Fault
    /\ files' = [files EXCEPT ![e] = @ \ {r}]
    /\ UNCHANGED <<upstream, data, linked, flag, pending, stored, order, sync, uncommitted,
                   work, batch, replay, history>>

\* link_expense takes the lock, writes and releases it.
LinkExpense(e) ==
    /\ LockFree
    /\ data[e] > 0 /\ uncommitted[e] = "none"
    /\ uncommitted' = [uncommitted EXCEPT ![e] = "link"]
    /\ UNCHANGED <<upstream, row, sync, work, batch, replay, faults, history>>

CommitLink(e) ==
    /\ uncommitted[e] = "link"
    /\ uncommitted' = [uncommitted EXCEPT ![e] = "none"]
    /\ linked' = [linked EXCEPT ![e] = TRUE]
    /\ flag' = [flag EXCEPT ![e] = FALSE]
    /\ acked' = [acked EXCEPT ![e] = data[e]]
    /\ UNCHANGED <<upstream, data, pending, stored, files, order, sync, work, batch,
                   replay, faults, crossed, torn>>

\* refresh_expense: the last write, of a record whose receipts are all saved.
CommitRefresh(e) ==
    /\ uncommitted[e] = "refresh"
    /\ uncommitted' = [uncommitted EXCEPT ![e] = "none"]
    /\ pending' = [pending EXCEPT ![e] = FALSE]
    /\ UNCHANGED <<upstream, data, linked, flag, stored, files, order, sync, work, batch,
                   replay, faults, history>>

\* A request dies before it commits.
RequestDies(e) ==
    /\ uncommitted[e] # "none"
    /\ Fault
    /\ uncommitted' = [uncommitted EXCEPT ![e] = "none"]
    /\ UNCHANGED <<upstream, row, sync, work, batch, replay, history>>

-----------------------------------------------------------------------------
(* expense_record *)

\* The row is read first; its write waits until no request's is uncommitted.
BeginRecord(e, how) ==
    work' = [work EXCEPT !.step = "upsert", !.expense = e, !.got = upstream[e],
                         !.sawLink = linked[e], !.how = how]

\* Mutant: a changed expense does not tell.
FlaggedNever(e) == flag[e]

Flagged(e) == flag[e] \/ (data[e] # work.got /\ data[e] > 0 /\ work.sawLink)

Upsert ==
    LET e == work.expense
    IN  /\ work.step = "upsert" /\ uncommitted[e] = "none"
        /\ data' = [data EXCEPT ![e] = work.got]
        /\ flag' = [flag EXCEPT ![e] = Flagged(e)]
        /\ work' = [work EXCEPT !.step = "pending"]
        /\ UNCHANGED <<upstream, linked, pending, stored, files, order, sync, uncommitted,
                       batch, replay, faults, history>>

\* Mutant: an expense whose receipts were all saved is never pending again.
MissingUnknown(e) == IF stored[e] = {} THEN ReceiptsOf[e][work.got] ELSE {}

Missing(e) == ReceiptsOf[e][work.got] \ (stored[e] \cap files[e])

\* The second commit of a record.  A refresh goes on to the receipts.
MarkPending ==
    LET e == work.expense
    IN  /\ work.step = "pending" /\ uncommitted[e] = "none"
        /\ pending' = [pending EXCEPT ![e] = Missing(e) # {}]
        /\ work' = IF work.holder = "job" THEN [NoWork EXCEPT !.holder = "job",
                                                    !.step = "expenses", !.sync = work.sync]
                   ELSE IF work.sync THEN [work EXCEPT !.step = "receipts", !.todo = Missing(e)]
                   ELSE NoWork
        /\ replay' = replay \ {e}
        /\ torn' = torn \ {e}
        /\ UNCHANGED <<upstream, data, linked, flag, stored, files, order, sync, uncommitted,
                       batch, faults, acked, crossed>>

-----------------------------------------------------------------------------
(* receipts *)

\* Each receipt is committed on its own; a failure does not keep the others back.
SaveReceipt(r) ==
    LET e == work.expense
    IN  /\ work.step = "receipts" /\ uncommitted[e] = "none"
        /\ r \in work.todo \ Unsupported
        /\ stored' = [stored EXCEPT ![e] = @ \cup {r}]
        /\ files' = [files EXCEPT ![e] = @ \cup {r}]
        /\ work' = [work EXCEPT !.todo = @ \ {r}]
        /\ UNCHANGED <<upstream, data, linked, flag, pending, order, sync, uncommitted,
                       batch, replay, faults, history>>

Left(r) == work.todo \ {r}

ReceiptFails(r) ==
    /\ work.step = "receipts" /\ r \in work.todo
    /\ IF r \in Unsupported THEN UNCHANGED faults ELSE Fault
    /\ work' = [work EXCEPT !.todo = Left(r), !.failed = TRUE]
    /\ UNCHANGED <<upstream, row, sync, uncommitted, batch, replay, history>>

-----------------------------------------------------------------------------
(* refresh_expense *)

StartRefresh(e) ==
    /\ LockFree
    /\ data[e] > 0
    /\ work' = [NoWork EXCEPT !.holder = "refresh", !.step = "upsert", !.expense = e,
                              !.got = upstream[e], !.sawLink = linked[e], !.sync = sync]
    /\ Read(e)
    /\ UNCHANGED <<upstream, row, sync, uncommitted, batch, replay, faults, acked, torn>>

EndRefresh ==
    LET e == work.expense
    IN  /\ work.holder = "refresh" /\ work.step = "receipts" /\ work.todo = {}
        /\ IF work.failed THEN UNCHANGED uncommitted
           ELSE /\ uncommitted[e] = "none"
                /\ uncommitted' = [uncommitted EXCEPT ![e] = "refresh"]
        /\ work' = NoWork
        /\ UNCHANGED <<upstream, row, sync, batch, replay, faults, history>>

-----------------------------------------------------------------------------
(* The hourly job *)

StartJob ==
    /\ LockFree
    /\ work' = [NoWork EXCEPT !.holder = "job", !.step = "expenses", !.sync = sync]
    /\ UNCHANGED <<upstream, row, sync, uncommitted, batch, replay, faults, history>>

\* Windows come first, then lookups.
RecordExpense(e) ==
    /\ work.step = "expenses" /\ upstream[e] > 0
    /\ \/ BeginRecord(e, "page")
       \/ data[e] > 0 /\ replay = {} /\ BeginRecord(e, "lookup")
    /\ Read(e)
    /\ UNCHANGED <<upstream, row, sync, uncommitted, batch, replay, faults, acked, torn>>

PendingRows == {e \in Expense : data[e] > 0 /\ pending[e]}

\* A page that a dead worker left is read again before the phase ends.
EndExpenses ==
    /\ work.step = "expenses" /\ replay = {}
    /\ work' = [work EXCEPT !.step = "batch"]
    /\ IF work.sync THEN \E b \in SUBSET PendingRows : IsBatch(b, PendingRows, order, BatchSize) /\ batch' = b
       ELSE batch' = {}
    /\ UNCHANGED <<upstream, row, sync, uncommitted, replay, faults, history>>

BeginReceipts(e) ==
    /\ work.step = "batch"
    /\ First(e, batch, order)
    /\ batch' = batch \ {e}
    /\ work' = [work EXCEPT !.step = "receipts", !.expense = e, !.got = data[e],
                            !.todo = ReceiptsOf[e][data[e]] \ (stored[e] \cap files[e]),
                            !.failed = FALSE]
    /\ UNCHANGED <<upstream, row, sync, uncommitted, replay, faults, history>>

\* Mutant: an expense whose receipts failed keeps its place.
CheckedNever(e) == order

Checked(e) == Touched({e}, Expense, order)

EndReceipts ==
    LET e == work.expense
    IN  /\ work.holder = "job" /\ work.step = "receipts" /\ work.todo = {}
        /\ uncommitted[e] = "none"
        /\ pending' = [pending EXCEPT ![e] = pending[e] /\ work.failed]
        /\ order' = Checked(e)
        /\ work' = [work EXCEPT !.step = "batch"]
        /\ UNCHANGED <<upstream, data, linked, flag, stored, files, sync, uncommitted,
                       batch, replay, faults, history>>

EndJob ==
    /\ work.step = "batch" /\ batch = {}
    /\ work' = NoWork
    /\ UNCHANGED <<upstream, row, sync, uncommitted, batch, replay, faults, history>>

\* The lease of a dead worker's or a dead request's lock lapses: see Lease.
HolderDies ==
    /\ ~LockFree
    /\ Fault
    /\ work' = NoWork /\ batch' = {}
    /\ replay' = IF work.step \in {"upsert", "pending"} /\ work.how = "page"
                 THEN replay \cup {work.expense} ELSE replay
    /\ torn' = IF work.step = "pending" THEN torn \cup {work.expense} ELSE torn
    /\ UNCHANGED <<upstream, row, sync, uncommitted, acked, crossed>>

-----------------------------------------------------------------------------

Init ==
    /\ upstream = [e \in Expense |-> 0] /\ data = [e \in Expense |-> 0]
    /\ linked = [e \in Expense |-> FALSE] /\ flag = [e \in Expense |-> FALSE]
    /\ pending = [e \in Expense |-> FALSE]
    /\ stored = [e \in Expense |-> {}] /\ files = [e \in Expense |-> {}]
    /\ order = {} /\ sync = TRUE
    /\ uncommitted = [e \in Expense |-> "none"]
    /\ work = NoWork /\ batch = {} /\ replay = {}
    /\ faults = 0 /\ acked = [e \in Expense |-> 0] /\ crossed = {} /\ torn = {}

WorkStep ==
    \/ Upsert \/ MarkPending
    \/ \E r \in Receipt : SaveReceipt(r) \/ ReceiptFails(r)
    \/ EndRefresh \/ EndExpenses \/ EndReceipts \/ EndJob
    \/ \E e \in Expense : BeginReceipts(e)

Next ==
    \/ \E e \in Expense :
          \/ Upstream(e) \/ LinkExpense(e) \/ CommitLink(e) \/ CommitRefresh(e) \/ RequestDies(e)
          \/ StartRefresh(e) \/ RecordExpense(e)
          \/ \E r \in Receipt : DeleteFile(e, r)
    \/ \E b \in BOOLEAN : SetSync(b)
    \/ StartJob \/ WorkStep \/ HolderDies

Spec == Init /\ [][Next]_vars

\* The hourly job gets the lock in the end, works on and leaves no page out; a
\* request that wrote commits.  Users need not act.
FairSpec ==
    /\ Spec
    /\ SF_vars(StartJob) /\ WF_vars(WorkStep) /\ SF_vars(EndExpenses)
    /\ SF_vars(\E e \in replay : RecordExpense(e))
    /\ WF_vars(\E e \in Expense : CommitLink(e) \/ CommitRefresh(e))

-----------------------------------------------------------------------------
(* Properties *)

\* The receipts that belong to an expense as it is recorded.
Owed(e) == IF data[e] = 0 THEN {} ELSE ReceiptsOf[e][data[e]]

\* Every variable keeps its shape; only a row that exists is being written.
TypeOK ==
    /\ \A e \in Expense : /\ upstream[e] \in 0..Len(ReceiptsOf[e])
                          /\ {data[e], acked[e]} \subseteq 0..upstream[e]
    /\ linked \in [Expense -> BOOLEAN] /\ flag \in [Expense -> BOOLEAN]
    /\ pending \in [Expense -> BOOLEAN] /\ sync \in BOOLEAN
    /\ stored \in [Expense -> SUBSET Receipt] /\ files \in [Expense -> SUBSET Receipt]
    /\ \A e \in Expense : files[e] \subseteq stored[e] /\ (linked[e] => data[e] > 0)
    /\ order \subseteq Expense \X Expense
    /\ \A e, f \in Expense : <<e, f>> \in order => <<f, e>> \notin order
    /\ uncommitted \in [Expense -> {"none", "link", "refresh"}]
    /\ \A e \in Expense : uncommitted[e] # "none" => data[e] > 0
    /\ work.step \in Step /\ (work.holder = "free") = LockFree
    /\ work.step \in {"upsert", "pending", "receipts"} =>
          /\ work.expense \in Expense /\ work.got \in 1..upstream[work.expense]
          /\ work.todo \subseteq Receipt
    /\ batch \subseteq {e \in Expense : data[e] > 0}
    /\ replay \subseteq Expense /\ crossed \cup torn \subseteq Expense /\ faults \in 0..MaxFaults

\* What was linked is what is recorded, or the expense is flagged for review,
\* unless it was read before the link was committed.  (docs/sync-reference.md: "If
\* linked expense evidence changes, the expense is flagged for accounting review")
LinksAcknowledged ==
    \A e \in Expense \ crossed : linked[e] /\ ~flag[e] => data[e] = acked[e]

\* An expense that is not pending has every receipt of its version in its record,
\* unless a worker died between a record's commits.
ReceiptsRecorded(e) ==
    ~pending[e] /\ e \notin torn /\ ~(work.step = "pending" /\ work.expense = e)
        => Owed(e) \subseteq stored[e]

\* No receipt is forgotten: what is not recorded is pending; and the variables keep
\* their shape.
NoReceiptForgotten == TypeOK /\ \A e \in Expense : ReceiptsRecorded(e)

\* Every receipt that can be saved is in the end, whatever happens to its siblings
\* and to other expenses.
ReceiptsArrive ==
    <>[]sync =>
        \A e \in Expense : []<>(Owed(e) \ Unsupported \subseteq stored[e] \/ e \in torn)
=============================================================================
