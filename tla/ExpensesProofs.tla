--------------------------- MODULE ExpensesProofs ---------------------------
(***************************************************************************)
(* No link stands on what was not linked, and no receipt is forgotten, for *)
(* any number of expenses, versions, receipts and faults, save what was    *)
(* read before a link was committed, or left by a worker that died between *)
(* the two commits of a record.                                            *)
(***************************************************************************)
EXTENDS Expenses, TLAPS

\* What the proofs need of the types; the expense of a receipt batch is any.
Typed ==
    /\ upstream \in [Expense -> Nat] /\ data \in [Expense -> Nat] /\ acked \in [Expense -> Nat]
    /\ linked \in [Expense -> BOOLEAN] /\ flag \in [Expense -> BOOLEAN]
    /\ pending \in [Expense -> BOOLEAN]
    /\ stored \in [Expense -> SUBSET Receipt]
    /\ uncommitted \in [Expense -> {"none", "link", "refresh"}]
    /\ DOMAIN work = DOMAIN NoWork
    /\ work.sawLink \in BOOLEAN /\ work.failed \in BOOLEAN
    /\ work.step \in {"upsert", "pending"} => work.got \in Nat \ {0}

\* What was linked is recorded or flagged, and who is about to write saw the link.
LinkInv(e) ==
    /\ data[e] > 0 => upstream[e] > 0
    /\ linked[e] \/ uncommitted[e] = "link" => data[e] > 0
    /\ work.step = "upsert" /\ work.expense = e => upstream[e] > 0
    /\ e \notin crossed =>
          /\ linked[e] /\ ~flag[e] => data[e] = acked[e]
          /\ work.step = "upsert" /\ work.expense = e =>
                uncommitted[e] # "link" /\ work.sawLink = linked[e]

\* What is missing is pending, is being fetched, or is about to be marked.
ReceiptInv(e) ==
    /\ work.step = "pending" /\ work.expense = e => work.got = data[e]
    /\ work.step = "receipts" /\ work.expense = e /\ ~work.failed =>
          Owed(e) \subseteq stored[e] \cup work.todo
    /\ uncommitted[e] = "refresh" => Owed(e) \subseteq stored[e]
    /\ ReceiptsRecorded(e)

IInv == Typed /\ \A e \in Expense : LinkInv(e) /\ ReceiptInv(e)

\* The step after no work has the fields of work.
LEMMA NoWorkFields ==
    /\ NoWork.step = "none" /\ NoWork.sawLink = FALSE /\ NoWork.failed = FALSE
    /\ DOMAIN NoWork = {"holder", "step", "how", "sync", "expense", "got", "sawLink", "todo",
                        "failed"}
  BY DEF NoWork

LEMMA InitHolds == Init => IInv
<1> SUFFICES ASSUME Init PROVE IInv
  OBVIOUS
<1>1. Typed
  BY NoWorkFields DEF Init, Typed
<1>2. ASSUME NEW e \in Expense PROVE LinkInv(e) /\ ReceiptInv(e)
  BY NoWorkFields DEF Init, LinkInv, ReceiptInv, ReceiptsRecorded, Owed
<1> QED
  BY <1>1, <1>2 DEF IInv

\* A step that writes nothing of a row, and drops its work or keeps it.
LEMMA QuietStep ==
    ASSUME IInv, UNCHANGED <<upstream, data, linked, flag, pending, stored, uncommitted, acked>>,
           crossed' = crossed, torn \subseteq torn',
           \/ work' = work
           \/ /\ DOMAIN work' = DOMAIN NoWork
              /\ work'.sawLink \in BOOLEAN /\ work'.failed \in BOOLEAN
              /\ work'.step \notin {"upsert", "pending", "receipts"}
              /\ work.step = "pending" => work.expense \in torn'
    PROVE  IInv'
<1>1. Typed'
  BY DEF IInv, Typed
<1>2. ASSUME NEW e \in Expense PROVE LinkInv(e)' /\ ReceiptInv(e)'
  BY DEF IInv, LinkInv, ReceiptInv, ReceiptsRecorded, Owed
<1> QED
  BY <1>1, <1>2 DEF IInv

-----------------------------------------------------------------------------
(* The bank and the users *)

LEMMA UpstreamHolds == ASSUME IInv, NEW d \in Expense, Upstream(d) PROVE IInv'
<1>1. /\ upstream' = [upstream EXCEPT ![d] = upstream[d] + 1]
      /\ UNCHANGED <<data, linked, flag, pending, stored, uncommitted, acked>>
      /\ UNCHANGED <<work, crossed, torn>>
  BY DEF Upstream, row, history
<1>2. \A e \in Expense : upstream'[e] \in {upstream[e], upstream[e] + 1} /\ upstream[e] \in Nat
  BY <1>1 DEF IInv, Typed
<1>3. Typed'
  BY <1>1, <1>2 DEF IInv, Typed
<1>4. ASSUME NEW e \in Expense PROVE LinkInv(e)' /\ ReceiptInv(e)'
  BY <1>1, <1>2 DEF IInv, LinkInv, ReceiptInv, ReceiptsRecorded, Owed
<1> QED
  BY <1>3, <1>4 DEF IInv

\* What is not committed of an expense changes, and nothing else.
LEMMA UncommittedStep ==
    ASSUME IInv, NEW d \in Expense, NEW u \in {"none", "link", "refresh"},
           uncommitted' = [uncommitted EXCEPT ![d] = u],
           UNCHANGED <<upstream, data, linked, flag, pending, stored, acked, crossed, torn>>,
           work' = work \/ work' = NoWork,
           work' = NoWork => work.step # "pending",
           u = "link" => data[d] > 0 /\ work.step # "upsert",
           u = "refresh" => Owed(d) \subseteq stored[d]
    PROVE  IInv'
<1>1. /\ uncommitted' \in [Expense -> {"none", "link", "refresh"}] /\ uncommitted'[d] = u
      /\ \A e \in Expense \ {d} : uncommitted'[e] = uncommitted[e]
  BY DEF IInv, Typed
<1>2. Typed'
  BY <1>1, NoWorkFields DEF IInv, Typed
<1>3. ASSUME NEW e \in Expense PROVE LinkInv(e)' /\ ReceiptInv(e)'
  <2>1. LinkInv(e)'
    BY <1>1, NoWorkFields DEF IInv, LinkInv
  <2>2. ReceiptInv(e)'
    BY <1>1, NoWorkFields DEF IInv, ReceiptInv, ReceiptsRecorded, Owed
  <2> QED
    BY <2>1, <2>2
<1> QED
  BY <1>2, <1>3 DEF IInv

LEMMA LinkExpenseHolds == ASSUME IInv, NEW d \in Expense, LinkExpense(d) PROVE IInv'
<1>1. /\ work = NoWork /\ data[d] > 0 /\ uncommitted' = [uncommitted EXCEPT ![d] = "link"]
      /\ UNCHANGED <<upstream, data, linked, flag, pending, stored, acked, crossed, torn, work>>
  BY DEF LinkExpense, LockFree, row, history
<1> QED
  BY <1>1, NoWorkFields, UncommittedStep

LEMMA CommitLinkHolds == ASSUME IInv, NEW d \in Expense, CommitLink(d) PROVE IInv'
<1>1. /\ uncommitted[d] = "link"
      /\ uncommitted' = [uncommitted EXCEPT ![d] = "none"]
      /\ linked' = [linked EXCEPT ![d] = TRUE] /\ flag' = [flag EXCEPT ![d] = FALSE]
      /\ acked' = [acked EXCEPT ![d] = data[d]]
      /\ UNCHANGED <<upstream, data, pending, stored, work, crossed, torn>>
  BY DEF CommitLink
<1>2. Typed'
  BY <1>1 DEF IInv, Typed
<1>3. ASSUME NEW e \in Expense PROVE LinkInv(e)' /\ ReceiptInv(e)'
  <2>1. CASE e = d
    <3>1. uncommitted'[d] = "none" /\ linked'[d] /\ ~flag'[d] /\ acked'[d] = data[d]
      BY <1>1 DEF IInv, Typed
    <3> QED
      BY <1>1, <2>1, <3>1 DEF IInv, LinkInv, ReceiptInv, ReceiptsRecorded, Owed
  <2>2. CASE e # d
    <3>1. /\ uncommitted'[e] = uncommitted[e] /\ linked'[e] = linked[e] /\ flag'[e] = flag[e]
          /\ acked'[e] = acked[e]
      BY <1>1, <2>2 DEF IInv, Typed
    <3> QED
      BY <1>1, <3>1 DEF IInv, LinkInv, ReceiptInv, ReceiptsRecorded, Owed
  <2> QED
    BY <2>1, <2>2
<1> QED
  BY <1>2, <1>3 DEF IInv

LEMMA CommitRefreshHolds == ASSUME IInv, NEW d \in Expense, CommitRefresh(d) PROVE IInv'
<1>1. /\ uncommitted[d] = "refresh"
      /\ uncommitted' = [uncommitted EXCEPT ![d] = "none"]
      /\ pending' = [pending EXCEPT ![d] = FALSE]
      /\ UNCHANGED <<upstream, data, linked, flag, stored, work, acked, crossed, torn>>
  BY DEF CommitRefresh, history
<1>2. Typed'
  BY <1>1 DEF IInv, Typed
<1>3. ASSUME NEW e \in Expense PROVE LinkInv(e)' /\ ReceiptInv(e)'
  <2>1. CASE e = d
    <3>1. uncommitted'[d] = "none" /\ Owed(d) \subseteq stored[d]
      BY <1>1 DEF IInv, Typed, ReceiptInv
    <3> QED
      BY <1>1, <2>1, <3>1 DEF IInv, LinkInv, ReceiptInv, ReceiptsRecorded, Owed
  <2>2. CASE e # d
    <3>1. uncommitted'[e] = uncommitted[e] /\ pending'[e] = pending[e]
      BY <1>1, <2>2 DEF IInv, Typed
    <3> QED
      BY <1>1, <3>1 DEF IInv, LinkInv, ReceiptInv, ReceiptsRecorded, Owed
  <2> QED
    BY <2>1, <2>2
<1> QED
  BY <1>2, <1>3 DEF IInv

LEMMA RequestDiesHolds == ASSUME IInv, NEW d \in Expense, RequestDies(d) PROVE IInv'
<1>1. /\ uncommitted' = [uncommitted EXCEPT ![d] = "none"]
      /\ UNCHANGED <<upstream, data, linked, flag, pending, stored, acked, crossed, torn, work>>
  BY DEF RequestDies, row, history
<1> QED
  BY <1>1, NoWorkFields, UncommittedStep

LEMMA UserHolds ==
    ASSUME IInv, \/ \E b \in BOOLEAN : SetSync(b)
                 \/ \E e \in Expense, r \in Receipt : DeleteFile(e, r)
    PROVE  IInv'
<1>1. /\ UNCHANGED <<upstream, data, linked, flag, pending, stored, uncommitted, acked>>
      /\ UNCHANGED <<crossed, torn, work>>
  BY DEF SetSync, DeleteFile, row, history
<1> QED
  BY <1>1, QuietStep

-----------------------------------------------------------------------------
(* expense_record *)

\* Who begins to record an expense reads its row.
LEMMA ReadStep ==
    ASSUME IInv, NEW d \in Expense, upstream[d] > 0, Read(d),
           UNCHANGED <<upstream, row, uncommitted, acked, torn>>,
           work.step # "pending",
           DOMAIN work' = DOMAIN NoWork, work'.step = "upsert", work'.expense = d,
           work'.got = upstream[d], work'.sawLink = linked[d], work'.failed \in BOOLEAN
    PROVE  IInv'
<1>1. Typed'
  BY DEF IInv, Typed, row
<1>2. ASSUME NEW e \in Expense PROVE LinkInv(e)' /\ ReceiptInv(e)'
  <2>1. LinkInv(e)'
    BY DEF IInv, LinkInv, Read, row
  <2>2. ReceiptInv(e)'
    BY DEF IInv, ReceiptInv, ReceiptsRecorded, Owed, row
  <2> QED
    BY <2>1, <2>2
<1> QED
  BY <1>1, <1>2 DEF IInv

LEMMA StartRefreshHolds == ASSUME IInv, NEW d \in Expense, StartRefresh(d) PROVE IInv'
<1>1. /\ work = NoWork /\ data[d] > 0 /\ Read(d)
      /\ UNCHANGED <<upstream, row, uncommitted, acked, torn>>
      /\ work' = [NoWork EXCEPT !.holder = "refresh", !.step = "upsert", !.expense = d,
                                !.got = upstream[d], !.sawLink = linked[d], !.sync = sync]
  BY DEF StartRefresh, LockFree
<1>2. /\ DOMAIN work' = DOMAIN NoWork /\ work'.step = "upsert" /\ work'.expense = d
      /\ work'.got = upstream[d] /\ work'.sawLink = linked[d] /\ work'.failed = FALSE
  BY <1>1 DEF NoWork
<1>3. upstream[d] > 0
  BY <1>1 DEF IInv, LinkInv
<1> QED
  BY <1>1, <1>2, <1>3, NoWorkFields, ReadStep

LEMMA RecordExpenseHolds == ASSUME IInv, NEW d \in Expense, RecordExpense(d) PROVE IInv'
<1>1. /\ work.step = "expenses" /\ upstream[d] > 0 /\ Read(d)
      /\ UNCHANGED <<upstream, row, uncommitted, acked, torn>>
      /\ BeginRecord(d, "page") \/ BeginRecord(d, "lookup")
  BY DEF RecordExpense
<1>2. /\ DOMAIN work' = DOMAIN NoWork /\ work'.step = "upsert" /\ work'.expense = d
      /\ work'.got = upstream[d] /\ work'.sawLink = linked[d] /\ work'.failed \in BOOLEAN
  <2>1. /\ DOMAIN work = DOMAIN NoWork /\ work.failed \in BOOLEAN
        /\ \E how \in {"page", "lookup"} :
              work' = [work EXCEPT !.step = "upsert", !.expense = d, !.got = upstream[d],
                                   !.sawLink = linked[d], !.how = how]
    BY <1>1 DEF BeginRecord, IInv, Typed
  <2> QED
    BY <2>1, NoWorkFields
<1> QED
  BY <1>1, <1>2, ReadStep

LEMMA UpsertHolds == ASSUME IInv, Upsert PROVE IInv'
<1> DEFINE d == work.expense
<1>1. /\ work.step = "upsert" /\ uncommitted[d] = "none"
      /\ data' = [data EXCEPT ![d] = work.got] /\ flag' = [flag EXCEPT ![d] = Flagged(d)]
      /\ work' = [work EXCEPT !.step = "pending"]
      /\ UNCHANGED <<upstream, linked, pending, stored, uncommitted, acked, crossed, torn>>
  BY DEF Upsert, history
<1>2. /\ DOMAIN work' = DOMAIN NoWork /\ work'.step = "pending" /\ work'.expense = d
      /\ work'.got = work.got /\ work.got \in Nat \ {0}
      /\ work'.sawLink \in BOOLEAN /\ work'.failed \in BOOLEAN
  BY <1>1, NoWorkFields DEF IInv, Typed
<1>3. Flagged(d) \in BOOLEAN
  BY DEF Flagged
<1> HIDE DEF d
<1>4. /\ data' \in [Expense -> Nat] /\ flag' \in [Expense -> BOOLEAN]
      /\ \A e \in Expense : e # d => data'[e] = data[e] /\ flag'[e] = flag[e]
      /\ d \in Expense => data'[d] = work.got /\ flag'[d] = Flagged(d)
  BY <1>1, <1>2, <1>3 DEF IInv, Typed
<1>5. Typed'
  BY <1>1, <1>2, <1>4 DEF IInv, Typed
<1>6. ASSUME NEW e \in Expense PROVE LinkInv(e)' /\ ReceiptInv(e)'
  <2>1. CASE e # d
    BY <1>1, <1>2, <1>4, <2>1 DEF IInv, LinkInv, ReceiptInv, ReceiptsRecorded, Owed, d
  <2>2. CASE e = d
    <3>1. LinkInv(e) /\ work.expense = e
      BY <2>2 DEF IInv, d
    <3>2. /\ data'[e] = work.got /\ data'[e] > 0 /\ upstream'[e] > 0
      BY <1>1, <1>2, <1>4, <2>2, <3>1 DEF LinkInv
    <3>3. ASSUME e \notin crossed, linked[e], ~flag'[e]
          PROVE  data'[e] = acked[e]
      <4>1. ~Flagged(e) /\ work.sawLink = linked[e] /\ data[e] > 0
        BY <1>1, <1>4, <2>2, <3>1, <3>3 DEF LinkInv
      <4>2. ~flag[e] /\ data[e] = work.got
        BY <3>3, <4>1 DEF Flagged
      <4> QED
        BY <3>1, <3>2, <3>3, <4>2 DEF LinkInv
    <3>4. work'.step # "upsert" /\ work'.step = "pending" /\ work'.expense = e
      BY <1>2, <2>2
    <3>5. LinkInv(e)'
      BY <1>1, <3>2, <3>3, <3>4 DEF LinkInv
    <3>6. uncommitted'[e] = "none" /\ work'.got = data'[e]
      BY <1>1, <1>2, <2>2, <3>2
    <3>7. ReceiptInv(e)'
      BY <3>4, <3>6 DEF ReceiptInv, ReceiptsRecorded
    <3> QED
      BY <3>5, <3>7
  <2> QED
    BY <2>1, <2>2
<1> QED
  BY <1>5, <1>6 DEF IInv

LEMMA MarkPendingHolds == ASSUME IInv, MarkPending PROVE IInv'
<1> DEFINE d == work.expense
<1>1. /\ work.step = "pending" /\ pending' = [pending EXCEPT ![d] = Missing(d) # {}]
      /\ torn' = torn \ {d}
      /\ UNCHANGED <<upstream, data, linked, flag, stored, uncommitted, acked, crossed>>
  BY DEF MarkPending
<1>2. /\ DOMAIN work' = DOMAIN NoWork /\ work'.sawLink \in BOOLEAN /\ work'.failed \in BOOLEAN
      /\ work'.step \in {"none", "expenses", "receipts"}
      /\ work'.step = "receipts" => work'.expense = d /\ work'.todo = Missing(d)
  <2>1. CASE work.holder = "job"
    BY <2>1 DEF MarkPending, NoWork
  <2>2. CASE work.holder # "job" /\ work.sync
    BY <2>2, NoWorkFields DEF MarkPending, IInv, Typed
  <2>3. CASE work.holder # "job" /\ ~work.sync
    BY <2>3, NoWorkFields DEF MarkPending
  <2> QED
    BY <2>1, <2>2, <2>3
<1>3. ASSUME d \in Expense
      PROVE  /\ Owed(d) \subseteq stored[d] \cup Missing(d)
             /\ Missing(d) = {} => Owed(d) \subseteq stored[d]
  <2>1. work.got = data[d]
    BY <1>1, <1>3 DEF IInv, ReceiptInv
  <2> QED
    BY <2>1 DEF Missing, Owed
<1> HIDE DEF d
<1>4. /\ pending' \in [Expense -> BOOLEAN]
      /\ \A e \in Expense : e # d => pending'[e] = pending[e]
      /\ d \in Expense => pending'[d] = (Missing(d) # {})
  BY <1>1 DEF IInv, Typed
<1>5. Typed'
  BY <1>1, <1>2, <1>4 DEF IInv, Typed
<1>6. ASSUME NEW e \in Expense PROVE LinkInv(e)' /\ ReceiptInv(e)'
  <2>1. LinkInv(e)'
    BY <1>1, <1>2 DEF IInv, LinkInv
  <2>2. Owed(e)' = Owed(e) /\ (e = d => work.expense = e)
    BY <1>1 DEF Owed, d
  <2>3. CASE e # d
    <3>1. ReceiptsRecorded(e)'
      <4>1. work.expense # e /\ (e \notin torn' => e \notin torn)
        BY <1>1, <2>3 DEF d
      <4>2. ~pending'[e] => ~pending[e]
        BY <1>4, <2>3
      <4> QED
        BY <1>1, <2>2, <4>1, <4>2 DEF IInv, ReceiptInv, ReceiptsRecorded
    <3> QED
      BY <1>1, <1>2, <2>1, <2>2, <2>3, <3>1 DEF IInv, ReceiptInv
  <2>4. CASE e = d
    <3>1. /\ Owed(e) \subseteq stored[e] \cup Missing(d)
          /\ Missing(d) = {} => Owed(e) \subseteq stored[e]
      BY <1>3, <2>4
    <3>2. ~pending'[e] => Missing(d) = {}
      BY <1>4, <2>4
    <3>3. ReceiptsRecorded(e)'
      BY <1>1, <2>2, <3>1, <3>2 DEF ReceiptsRecorded
    <3>4. ReceiptInv(e)'
      BY <1>1, <1>2, <2>2, <3>1, <3>3 DEF IInv, ReceiptInv
    <3> QED
      BY <2>1, <3>4
  <2> QED
    BY <2>3, <2>4
<1> QED
  BY <1>5, <1>6 DEF IInv

-----------------------------------------------------------------------------
(* receipts *)

\* What stays of the rows and of the bank while receipts are fetched.
fetched == <<upstream, data, linked, flag, acked, crossed, torn>>

LEMMA SaveReceiptHolds == ASSUME IInv, NEW r \in Receipt, SaveReceipt(r) PROVE IInv'
<1> DEFINE d == work.expense
<1>1. /\ work.step = "receipts" /\ stored' = [stored EXCEPT ![d] = @ \cup {r}]
      /\ work' = [work EXCEPT !.todo = @ \ {r}]
      /\ UNCHANGED fetched /\ UNCHANGED <<pending, uncommitted>>
  BY DEF SaveReceipt, history, fetched
<1>2. /\ DOMAIN work' = DOMAIN NoWork /\ work'.step = "receipts" /\ work'.expense = d
      /\ work'.sawLink = work.sawLink /\ work'.failed = work.failed
      /\ work'.todo = work.todo \ {r}
  BY <1>1, NoWorkFields DEF IInv, Typed
<1>3. /\ stored' \in [Expense -> SUBSET Receipt]
      /\ \A e \in Expense : stored[e] \subseteq stored'[e]
      /\ d \in Expense => stored'[d] = stored[d] \cup {r}
  BY <1>1 DEF IInv, Typed
<1>4. Typed'
  BY <1>1, <1>2, <1>3 DEF IInv, Typed, fetched
<1>5. ASSUME NEW e \in Expense PROVE LinkInv(e)' /\ ReceiptInv(e)'
  <2>1. LinkInv(e)' /\ Owed(e)' = Owed(e)
    BY <1>1, <1>2 DEF IInv, LinkInv, Owed, fetched
  <2>2. e = d => stored'[e] \cup work'.todo = stored[e] \cup work.todo \cup {r}
    BY <1>2, <1>3
  <2>3. ReceiptInv(e)'
    BY <1>1, <1>2, <1>3, <2>1, <2>2 DEF IInv, ReceiptInv, ReceiptsRecorded, fetched
  <2> QED
    BY <2>1, <2>3
<1> QED
  BY <1>4, <1>5 DEF IInv

LEMMA ReceiptFailsHolds == ASSUME IInv, NEW r \in Receipt, ReceiptFails(r) PROVE IInv'
<1>1. /\ work.step = "receipts" /\ work' = [work EXCEPT !.todo = Left(r), !.failed = TRUE]
      /\ UNCHANGED fetched /\ UNCHANGED <<pending, uncommitted, stored>>
  BY DEF ReceiptFails, row, history, fetched
<1>2. /\ DOMAIN work' = DOMAIN NoWork /\ work'.step = "receipts"
      /\ work'.sawLink = work.sawLink /\ work'.failed = TRUE
  BY <1>1, NoWorkFields DEF IInv, Typed
<1>3. Typed'
  BY <1>1, <1>2 DEF IInv, Typed, fetched
<1>4. ASSUME NEW e \in Expense PROVE LinkInv(e)' /\ ReceiptInv(e)'
  BY <1>1, <1>2 DEF IInv, LinkInv, ReceiptInv, ReceiptsRecorded, Owed, fetched
<1> QED
  BY <1>3, <1>4 DEF IInv

LEMMA EndRefreshHolds == ASSUME IInv, EndRefresh PROVE IInv'
<1> DEFINE d == work.expense
<1>1. /\ work.step = "receipts" /\ work.todo = {} /\ work' = NoWork
      /\ UNCHANGED fetched /\ UNCHANGED <<pending, stored>>
      /\ IF work.failed THEN UNCHANGED uncommitted
         ELSE uncommitted' = [uncommitted EXCEPT ![d] = "refresh"]
  BY DEF EndRefresh, row, history, fetched
<1>2. CASE UNCHANGED uncommitted
  BY <1>1, <1>2, NoWorkFields, QuietStep DEF fetched
<1>3. CASE d \in Expense /\ ~work.failed
  <2>1. Owed(d) \subseteq stored[d]
    BY <1>1, <1>3 DEF IInv, ReceiptInv
  <2> HIDE DEF d
  <2> QED
    BY <1>1, <1>3, <2>1, NoWorkFields, UncommittedStep DEF fetched
<1>4. CASE d \notin Expense /\ ~work.failed
  <2>1. uncommitted' = uncommitted
    BY <1>1, <1>4 DEF IInv, Typed
  <2> QED
    BY <1>2, <2>1
<1> QED
  BY <1>1, <1>2, <1>3, <1>4

-----------------------------------------------------------------------------
(* The hourly job *)

LEMMA JobHolds == ASSUME IInv, StartJob \/ EndExpenses \/ EndJob PROVE IInv'
<1>1. /\ UNCHANGED <<upstream, data, linked, flag, pending, stored, uncommitted, acked>>
      /\ UNCHANGED <<crossed, torn>> /\ work.step # "pending"
      /\ \/ work' = [NoWork EXCEPT !.holder = "job", !.step = "expenses", !.sync = sync]
         \/ work' = [work EXCEPT !.step = "batch"] \/ work' = NoWork
  BY NoWorkFields DEF StartJob, LockFree, EndExpenses, EndJob, row, history
<1>2. /\ DOMAIN work' = DOMAIN NoWork /\ work'.sawLink \in BOOLEAN /\ work'.failed \in BOOLEAN
      /\ work'.step \in {"none", "expenses", "batch"}
  <2>1. CASE work' = [NoWork EXCEPT !.holder = "job", !.step = "expenses", !.sync = sync]
    BY <2>1 DEF NoWork
  <2>2. CASE work' = [work EXCEPT !.step = "batch"]
    BY <2>2, NoWorkFields DEF IInv, Typed
  <2> QED
    BY <1>1, <2>1, <2>2, NoWorkFields
<1> QED
  BY <1>1, <1>2, QuietStep

LEMMA BeginReceiptsHolds == ASSUME IInv, NEW d \in Expense, BeginReceipts(d) PROVE IInv'
<1> DEFINE missing == ReceiptsOf[d][data[d]] \ (stored[d] \cap files[d])
<1>1. /\ work.step = "batch"
      /\ work' = [work EXCEPT !.step = "receipts", !.expense = d, !.got = data[d],
                              !.todo = missing, !.failed = FALSE]
      /\ UNCHANGED fetched /\ UNCHANGED <<pending, uncommitted, stored>>
  BY DEF BeginReceipts, row, history, fetched
<1>2. Owed(d) \subseteq stored[d] \cup missing
  BY DEF Owed
<1> HIDE DEF missing
<1>3. /\ DOMAIN work' = DOMAIN NoWork /\ work'.step = "receipts" /\ work'.expense = d
      /\ work'.sawLink = work.sawLink /\ work'.failed = FALSE /\ work'.todo = missing
  BY <1>1, NoWorkFields DEF IInv, Typed
<1>4. Typed'
  BY <1>1, <1>3 DEF IInv, Typed, fetched
<1>5. ASSUME NEW e \in Expense PROVE LinkInv(e)' /\ ReceiptInv(e)'
  <2>1. LinkInv(e)' /\ Owed(e)' = Owed(e)
    BY <1>1, <1>3 DEF IInv, LinkInv, Owed, fetched
  <2>2. ReceiptInv(e)'
    BY <1>1, <1>2, <1>3, <2>1 DEF IInv, ReceiptInv, ReceiptsRecorded, fetched
  <2> QED
    BY <2>1, <2>2
<1> QED
  BY <1>4, <1>5 DEF IInv

LEMMA EndReceiptsHolds == ASSUME IInv, EndReceipts PROVE IInv'
<1> DEFINE d == work.expense
<1>1. /\ work.step = "receipts" /\ work.todo = {}
      /\ pending' = [pending EXCEPT ![d] = pending[d] /\ work.failed]
      /\ work' = [work EXCEPT !.step = "batch"]
      /\ UNCHANGED fetched /\ UNCHANGED <<uncommitted, stored>>
  BY DEF EndReceipts, history, fetched
<1>2. /\ DOMAIN work' = DOMAIN NoWork /\ work'.step = "batch"
      /\ work'.sawLink = work.sawLink /\ work'.failed = work.failed
  BY <1>1, NoWorkFields DEF IInv, Typed
<1>3. ASSUME NEW e \in Expense, ~pending'[e]
      PROVE  ~pending[e] \/ (e = d /\ ~work.failed)
  BY <1>1, <1>3 DEF IInv, Typed
<1>4. (pending[d] /\ work.failed) \in BOOLEAN
  OBVIOUS
<1>5. pending' \in [Expense -> BOOLEAN]
  BY <1>1, <1>4 DEF IInv, Typed
<1>6. Typed'
  BY <1>1, <1>2, <1>5 DEF IInv, Typed, fetched
<1>7. ASSUME NEW e \in Expense PROVE LinkInv(e)' /\ ReceiptInv(e)'
  <2>1. LinkInv(e)' /\ Owed(e)' = Owed(e)
    BY <1>1, <1>2 DEF IInv, LinkInv, Owed, fetched
  <2>2. ReceiptsRecorded(e)'
    BY <1>1, <1>3, <2>1 DEF IInv, ReceiptInv, ReceiptsRecorded, fetched
  <2>3. ReceiptInv(e)'
    BY <1>1, <1>2, <2>1, <2>2 DEF IInv, ReceiptInv
  <2> QED
    BY <2>1, <2>3
<1> QED
  BY <1>6, <1>7 DEF IInv

LEMMA HolderDiesHolds == ASSUME IInv, HolderDies PROVE IInv'
<1>1. /\ UNCHANGED <<upstream, data, linked, flag, pending, stored, uncommitted, acked>>
      /\ crossed' = crossed /\ torn \subseteq torn' /\ work' = NoWork
      /\ work.step = "pending" => work.expense \in torn'
  BY DEF HolderDies, row
<1> QED
  BY <1>1, NoWorkFields, QuietStep

-----------------------------------------------------------------------------
(* Theorems *)

LEMMA StepHolds == IInv /\ [Next]_vars => IInv'
<1> SUFFICES ASSUME IInv, [Next]_vars PROVE IInv'
  OBVIOUS
<1>1. CASE \E e \in Expense : Upstream(e) \/ LinkExpense(e) \/ CommitLink(e)
  BY <1>1, UpstreamHolds, LinkExpenseHolds, CommitLinkHolds
<1>2. CASE \E e \in Expense : CommitRefresh(e) \/ RequestDies(e)
  BY <1>2, CommitRefreshHolds, RequestDiesHolds
<1>3. CASE \E e \in Expense : StartRefresh(e) \/ RecordExpense(e)
  BY <1>3, StartRefreshHolds, RecordExpenseHolds
<1>4. CASE \/ \E b \in BOOLEAN : SetSync(b)
           \/ \E e \in Expense, r \in Receipt : DeleteFile(e, r)
  BY <1>4, UserHolds
<1>5. CASE WorkStep
  BY <1>5, UpsertHolds, MarkPendingHolds, SaveReceiptHolds, ReceiptFailsHolds, EndRefreshHolds,
     JobHolds, BeginReceiptsHolds, EndReceiptsHolds DEF WorkStep
<1>6. CASE StartJob \/ HolderDies
  BY <1>6, JobHolds, HolderDiesHolds
<1>7. CASE UNCHANGED vars
  BY <1>7, QuietStep DEF vars, row, history
<1>8. CASE Next
  BY <1>1, <1>2, <1>3, <1>4, <1>5, <1>6, <1>8, Zenon DEF Next
<1> QED
  BY <1>7, <1>8

\* The inductive invariant of expenses and of the work on them.
THEOREM ExpensesInvariant == Spec => []IInv
  BY InitHolds, StepHolds, PTL DEF Spec

\* What was linked is what is recorded, or the expense is flagged, unless it was
\* read before the link was committed.
THEOREM NoStaleLink == Spec => []LinksAcknowledged
<1>1. IInv => LinksAcknowledged
  BY DEF IInv, LinkInv, LinksAcknowledged
<1> QED
  BY <1>1, ExpensesInvariant, PTL

\* An expense that is not pending has all its receipts, unless a worker died
\* between the two commits of its record.
THEOREM NoReceiptLost == Spec => [](\A e \in Expense : ReceiptsRecorded(e))
<1>1. IInv => \A e \in Expense : ReceiptsRecorded(e)
  BY DEF IInv, ReceiptInv
<1> QED
  BY <1>1, ExpensesInvariant, PTL

-----------------------------------------------------------------------------
(* Types *)

\* The versions, and what the users and the receipts have of a row.
RowShape ==
    /\ \A e \in Expense : /\ upstream[e] <= Len(ReceiptsOf[e])
                          /\ data[e] <= upstream[e] /\ acked[e] <= upstream[e]
    /\ files \in [Expense -> SUBSET Receipt]
    /\ \A e \in Expense : files[e] \subseteq stored[e]
    /\ \A e \in Expense : uncommitted[e] # "none" => data[e] > 0

\* The expenses by their last check: a strict order.
OrderShape ==
    /\ order \subseteq Expense \X Expense
    /\ \A e, f \in Expense : <<e, f>> \in order => <<f, e>> \notin order
    /\ \A e, f, g \in Expense : <<e, f>> \in order /\ <<f, g>> \in order => <<e, g>> \in order

\* The work is on an expense, of the version that was read or is recorded.
WorkShape ==
    /\ work.step \in Step /\ work.todo \subseteq Receipt
    /\ work.holder = "free" => work = NoWork
    /\ work.step \in {"upsert", "pending", "receipts"} => work.expense \in Expense
    /\ work.step = "upsert" => work.got \in 1..upstream[work.expense]
    /\ work.step \in {"pending", "receipts"} =>
          work.got = data[work.expense] /\ data[work.expense] > 0

\* What remains.
RestShape ==
    /\ sync \in BOOLEAN /\ faults \in 0..MaxFaults
    /\ batch \subseteq {e \in Expense : data[e] > 0}
    /\ replay \subseteq Expense /\ crossed \subseteq Expense /\ torn \subseteq Expense

Shape == RowShape /\ OrderShape /\ WorkShape /\ RestShape

\* Every version that is at the bank has its receipts.
LEMMA ReceiptsTyped ==
    ASSUME NEW e \in Expense
    PROVE  /\ Len(ReceiptsOf[e]) \in Nat
           /\ \A v \in 1..Len(ReceiptsOf[e]) : ReceiptsOf[e][v] \subseteq Receipt
<1>1. ReceiptsOf[e] \in Seq(SUBSET Receipt)
  BY ReceiptAssumption
<1> QED
  BY <1>1

\* A row that was just checked is the last of all.
LEMMA CheckedLast ==
    ASSUME OrderShape, NEW e \in Expense, order' = Checked(e)
    PROVE  OrderShape'
<1>1. /\ order' \subseteq Expense \X Expense
      /\ \A f \in Expense : <<e, f>> \notin order'
      /\ \A f \in Expense \ {e} : <<f, e>> \in order'
      /\ \A f, g \in Expense \ {e} : <<f, g>> \in order' <=> <<f, g>> \in order
  BY DEF OrderShape, Checked, Touched, Without
<1> QED
  BY <1>1 DEF OrderShape

\* What Typed and Shape say of every row and of the work.
LEMMA ShapeFacts ==
    ASSUME IInv, Shape
    PROVE  /\ \A e \in Expense : /\ upstream[e] \in Nat /\ data[e] \in Nat /\ acked[e] \in Nat
                                 /\ Len(ReceiptsOf[e]) \in Nat
                                 /\ stored[e] \subseteq Receipt
           /\ DOMAIN work = {"holder", "step", "how", "sync", "expense", "got", "sawLink", "todo",
                             "failed"}
           /\ work.step \in {"upsert", "pending", "receipts"} =>
                 /\ work.expense \in Expense /\ work.got \in Nat \ {0}
                 /\ work.got \in 1..Len(ReceiptsOf[work.expense])
<1>1. \A e \in Expense : /\ upstream[e] \in Nat /\ data[e] \in Nat /\ acked[e] \in Nat
                         /\ Len(ReceiptsOf[e]) \in Nat
                         /\ stored[e] \subseteq Receipt
  BY ReceiptsTyped DEF IInv, Typed
<1>2. ASSUME work.step \in {"upsert", "pending", "receipts"}
      PROVE  /\ work.expense \in Expense /\ work.got \in Nat \ {0}
             /\ work.got \in 1..Len(ReceiptsOf[work.expense])
  <2>1. work.expense \in Expense
    BY <1>2 DEF Shape, WorkShape
  <2> QED
    BY <1>1, <1>2, <2>1 DEF Shape, WorkShape, RowShape
<1> QED
  BY <1>1, <1>2, NoWorkFields DEF IInv, Typed

\* No record goes away, and the versions at the bank do not go down.
LEMMA Grows ==
    ASSUME IInv, Shape, [Next]_vars
    PROVE  \A e \in Expense : data[e] > 0 => data'[e] > 0
<1>1. CASE Upsert
  <2>1. data' = [data EXCEPT ![work.expense] = work.got] /\ work.got > 0
    BY <1>1, ShapeFacts DEF Upsert
  <2> QED
    BY <2>1 DEF IInv, Typed
<1>2. CASE UNCHANGED data
  BY <1>2
<1>3. CASE ~Upsert /\ Next
  BY <1>2, <1>3 DEF Next, WorkStep, Upstream, LinkExpense, CommitLink, CommitRefresh, RequestDies,
     StartRefresh, RecordExpense, DeleteFile, SetSync, StartJob, HolderDies, MarkPending, SaveReceipt,
     ReceiptFails, EndRefresh, EndExpenses, BeginReceipts, EndReceipts, EndJob, row
<1> QED
  BY <1>1, <1>2, <1>3 DEF vars, row

LEMMA StepOrder == IInv /\ Shape /\ [Next]_vars => OrderShape'
<1> SUFFICES ASSUME IInv, Shape, [Next]_vars PROVE OrderShape'
  OBVIOUS
<1>1. CASE EndReceipts
  <2>1. work.expense \in Expense /\ order' = Checked(work.expense)
    BY <1>1, ShapeFacts DEF EndReceipts
  <2> QED
    BY <2>1, CheckedLast DEF Shape
<1>2. CASE UNCHANGED order
  BY <1>2 DEF Shape, OrderShape
<1>3. CASE ~EndReceipts /\ Next
  BY <1>2, <1>3 DEF Next, WorkStep, Upstream, LinkExpense, CommitLink, CommitRefresh, RequestDies,
     StartRefresh, RecordExpense, DeleteFile, SetSync, StartJob, HolderDies, Upsert, MarkPending,
     SaveReceipt, ReceiptFails, EndRefresh, EndExpenses, BeginReceipts, EndJob, row
<1> QED
  BY <1>1, <1>2, <1>3 DEF vars, row

LEMMA StepRest == IInv /\ Shape /\ [Next]_vars => RestShape'
<1> SUFFICES ASSUME IInv, Shape, [Next]_vars PROVE RestShape'
  OBVIOUS
<1>0. /\ RestShape /\ \A e \in Expense : data[e] > 0 => data'[e] > 0
      /\ work.step \in {"upsert", "pending", "receipts"} => work.expense \in Expense
  BY Grows, ShapeFacts DEF Shape
<1>1. Fault => faults' \in 0..MaxFaults
  BY <1>0, BoundAssumption DEF Fault, RestShape
<1>2. CASE \E b \in BOOLEAN : SetSync(b)
  BY <1>0, <1>2 DEF SetSync, RestShape, row, history
<1>3. CASE \/ \E e \in Expense : StartRefresh(e) \/ RecordExpense(e)
           \/ \E e \in Expense : Upstream(e) \/ LinkExpense(e) \/ CommitLink(e) \/ CommitRefresh(e)
           \/ Upsert \/ MarkPending \/ EndRefresh \/ EndReceipts \/ EndJob \/ StartJob
           \/ \E r \in Receipt : SaveReceipt(r)
           \/ UNCHANGED vars
  <2>1. UNCHANGED <<sync, faults, batch>>
    BY <1>3 DEF StartRefresh, RecordExpense, Upstream, LinkExpense, CommitLink, CommitRefresh,
       Upsert, MarkPending, EndRefresh, EndReceipts, EndJob, StartJob, SaveReceipt, vars
  <2>2. replay' \subseteq replay /\ torn' \subseteq torn /\ crossed' \subseteq Expense
    BY <1>0, <1>3 DEF StartRefresh, RecordExpense, Read, Upstream, LinkExpense, CommitLink,
       CommitRefresh, Upsert, MarkPending, EndRefresh, EndReceipts, EndJob, StartJob, SaveReceipt,
       vars, history, RestShape
  <2> QED
    BY <1>0, <2>1, <2>2 DEF RestShape
<1>4. CASE \/ \E e \in Expense : RequestDies(e) \/ \E r \in Receipt : DeleteFile(e, r)
           \/ \E r \in Receipt : ReceiptFails(r)
  <2>1. UNCHANGED <<sync, batch, replay, history>> /\ faults' \in 0..MaxFaults
    BY <1>0, <1>1, <1>4 DEF RequestDies, DeleteFile, ReceiptFails, RestShape
  <2> QED
    BY <1>0, <2>1 DEF RestShape, history
<1>5. CASE EndExpenses
  <2>1. batch' \subseteq PendingRows /\ UNCHANGED <<row, sync, faults, replay, history>>
    BY <1>5 DEF EndExpenses
  <2> QED
    BY <1>0, <2>1 DEF RestShape, PendingRows, row, history
<1>6. CASE \E e \in Expense : BeginReceipts(e)
  BY <1>0, <1>6 DEF BeginReceipts, RestShape, row, history
<1>7. CASE HolderDies
  <2>1. replay' \subseteq Expense /\ torn' \subseteq Expense
    BY <1>0, <1>7 DEF HolderDies, RestShape
  <2> QED
    BY <1>0, <1>1, <1>7, <2>1 DEF HolderDies, RestShape, row
<1> QED
  BY <1>2, <1>3, <1>4, <1>5, <1>6, <1>7, Zenon DEF Next, WorkStep

\* What is recorded and acknowledged has been at the bank; a file belongs to a
\* stored receipt, and a request writes a row that exists.
LEMMA StepRow == IInv /\ Shape /\ [Next]_vars => RowShape'
<1> SUFFICES ASSUME IInv, Shape, [Next]_vars PROVE RowShape'
  OBVIOUS
<1>0. /\ RowShape /\ \A e \in Expense : data[e] > 0 => data'[e] > 0
      /\ \A e \in Expense : upstream[e] \in Nat /\ data[e] \in Nat /\ acked[e] \in Nat
      /\ \A e \in Expense : Len(ReceiptsOf[e]) \in Nat
      /\ upstream \in [Expense -> Nat] /\ data \in [Expense -> Nat] /\ acked \in [Expense -> Nat]
      /\ stored \in [Expense -> SUBSET Receipt] /\ files \in [Expense -> SUBSET Receipt]
      /\ uncommitted \in [Expense -> {"none", "link", "refresh"}]
  BY Grows, ShapeFacts DEF Shape, RowShape, IInv, Typed
<1>1. CASE \E e \in Expense : Upstream(e)
  <2>1. PICK e \in Expense : Upstream(e)
    BY <1>1
  <2>2. /\ upstream[e] < Len(ReceiptsOf[e]) /\ upstream' = [upstream EXCEPT ![e] = upstream[e] + 1]
        /\ UNCHANGED <<data, acked, files, stored, uncommitted>>
    BY <2>1 DEF Upstream, row, history
  <2>3. upstream'[e] = upstream[e] + 1 /\ \A f \in Expense \ {e} : upstream'[f] = upstream[f]
    BY <1>0, <2>2
  <2>4. ASSUME NEW f \in Expense
        PROVE  /\ upstream'[f] <= Len(ReceiptsOf[f])
               /\ data'[f] <= upstream'[f] /\ acked'[f] <= upstream'[f]
    <3>1. CASE f = e
      BY <1>0, <2>2, <2>3, <3>1 DEF RowShape
    <3>2. CASE f # e
      BY <1>0, <2>2, <2>3, <3>2 DEF RowShape
    <3> QED
      BY <3>1, <3>2
  <2> QED
    BY <1>0, <2>2, <2>4 DEF RowShape
<1>2. CASE \E e \in Expense : CommitLink(e)
  <2>1. PICK e \in Expense : CommitLink(e)
    BY <1>2
  <2>2. /\ acked' = [acked EXCEPT ![e] = data[e]] /\ UNCHANGED <<upstream, data, files, stored>>
        /\ uncommitted' = [uncommitted EXCEPT ![e] = "none"]
    BY <2>1 DEF CommitLink
  <2> QED
    BY <1>0, <2>2 DEF RowShape
<1>3. CASE Upsert
  <2> DEFINE e == work.expense
  <2>1. /\ data' = [data EXCEPT ![e] = work.got]
        /\ UNCHANGED <<upstream, acked, files, stored, uncommitted>>
    BY <1>3 DEF Upsert, history
  <2>2. e \in Expense /\ work.got \in Nat /\ work.got <= upstream[e]
    BY <1>0, <1>3, ShapeFacts DEF Upsert, Shape, WorkShape
  <2> HIDE DEF e
  <2>3. data'[e] = work.got /\ \A f \in Expense \ {e} : data'[f] = data[f]
    BY <1>0, <2>1, <2>2
  <2> QED
    BY <1>0, <2>1, <2>2, <2>3 DEF RowShape
<1>4. CASE \E e \in Expense : LinkExpense(e) \/ CommitRefresh(e) \/ RequestDies(e)
  <2>1. PICK e \in Expense : LinkExpense(e) \/ CommitRefresh(e) \/ RequestDies(e)
    BY <1>4
  <2>2. UNCHANGED <<upstream, data, acked, files, stored>>
    BY <2>1 DEF LinkExpense, CommitRefresh, RequestDies, row, history
  <2>3. \/ uncommitted' = [uncommitted EXCEPT ![e] = "none"]
        \/ uncommitted' = [uncommitted EXCEPT ![e] = "link"] /\ data[e] > 0
    BY <2>1 DEF LinkExpense, CommitRefresh, RequestDies
  <2>4. \A f \in Expense : uncommitted'[f] # "none" => data[f] > 0
    BY <1>0, <2>3 DEF RowShape
  <2> QED
    BY <1>0, <2>2, <2>4 DEF RowShape
<1>5. CASE EndRefresh
  <2> DEFINE e == work.expense
  <2>1. UNCHANGED <<upstream, data, acked, files, stored>>
    BY <1>5 DEF EndRefresh, row, history
  <2>2. \/ uncommitted' = uncommitted
        \/ uncommitted' = [uncommitted EXCEPT ![e] = "refresh"]
    BY <1>5 DEF EndRefresh
  <2>3. e \in Expense /\ data[e] > 0
    BY <1>5 DEF EndRefresh, Shape, WorkShape
  <2> HIDE DEF e
  <2>4. \A f \in Expense : uncommitted'[f] # "none" => data[f] > 0
    BY <1>0, <2>2, <2>3 DEF RowShape
  <2> QED
    BY <1>0, <2>1, <2>4 DEF RowShape
<1>6. CASE \E e \in Expense, r \in Receipt : DeleteFile(e, r)
  <2>1. PICK e \in Expense, r \in Receipt : DeleteFile(e, r)
    BY <1>6
  <2>2. /\ files' = [files EXCEPT ![e] = @ \ {r}]
        /\ UNCHANGED <<upstream, data, acked, stored, uncommitted>>
    BY <2>1 DEF DeleteFile, history
  <2>3. files' \in [Expense -> SUBSET Receipt] /\ \A f \in Expense : files'[f] \subseteq files[f]
    BY <1>0, <2>2
  <2> QED
    BY <1>0, <2>2, <2>3 DEF RowShape
<1>7. CASE \E r \in Receipt : SaveReceipt(r)
  <2> DEFINE e == work.expense
  <2>1. PICK r \in Receipt : SaveReceipt(r)
    BY <1>7
  <2>2. /\ files' = [files EXCEPT ![e] = @ \cup {r}] /\ stored' = [stored EXCEPT ![e] = @ \cup {r}]
        /\ UNCHANGED <<upstream, data, acked, uncommitted>> /\ e \in Expense
    BY <2>1, ShapeFacts DEF SaveReceipt, history
  <2> HIDE DEF e
  <2>3. /\ files' \in [Expense -> SUBSET Receipt]
        /\ files'[e] = files[e] \cup {r} /\ stored'[e] = stored[e] \cup {r}
        /\ \A f \in Expense \ {e} : files'[f] = files[f] /\ stored'[f] = stored[f]
    BY <1>0, <2>2
  <2>4. \A f \in Expense : files'[f] \subseteq stored'[f]
    BY <2>3 DEF Shape, RowShape
  <2> QED
    BY <1>0, <2>2, <2>3, <2>4 DEF RowShape
<1>8. CASE UNCHANGED <<upstream, data, acked, files, stored, uncommitted>>
  BY <1>8 DEF Shape, RowShape
<1>9. CASE \/ \E e \in Expense : StartRefresh(e) \/ RecordExpense(e) \/ BeginReceipts(e)
           \/ \E b \in BOOLEAN : SetSync(b)
           \/ \E r \in Receipt : ReceiptFails(r)
           \/ StartJob \/ HolderDies \/ MarkPending \/ EndExpenses \/ EndReceipts \/ EndJob
           \/ UNCHANGED vars
  BY <1>8, <1>9 DEF StartRefresh, RecordExpense, BeginReceipts, SetSync, ReceiptFails, StartJob,
     HolderDies, MarkPending, EndExpenses, EndReceipts, EndJob, vars, row, history
<1> QED
  BY <1>1, <1>2, <1>3, <1>4, <1>5, <1>6, <1>7, <1>9, Zenon DEF Next, WorkStep

\* No work, and a job that has just begun, have the shape of work.
LEMMA IdleShape ==
    ASSUME work' = NoWork \/ \E b \in BOOLEAN :
               work' = [NoWork EXCEPT !.holder = "job", !.step = "expenses", !.sync = b]
    PROVE  WorkShape'
<1>1. CASE work' = NoWork
  <2>1. work'.step = "none" /\ work'.todo = {}
    BY <1>1 DEF NoWork
  <2> QED
    BY <1>1, <2>1 DEF WorkShape, Step
<1>2. ASSUME NEW b \in BOOLEAN,
             work' = [NoWork EXCEPT !.holder = "job", !.step = "expenses", !.sync = b]
      PROVE  WorkShape'
  <2>1. work'.step = "expenses" /\ work'.todo = {} /\ work'.holder = "job"
    BY <1>2 DEF NoWork
  <2> QED
    BY <2>1 DEF WorkShape, Step
<1> QED
  BY <1>1, <1>2

\* Who works holds the lock, on what was read or is recorded.
LEMMA StepWork == IInv /\ Shape /\ [Next]_vars => WorkShape'
<1> SUFFICES ASSUME IInv, Shape, [Next]_vars PROVE WorkShape'
  OBVIOUS
<1>0. /\ WorkShape /\ RowShape /\ NoWork.step = "none" /\ NoWork.holder = "free"
      /\ DOMAIN work = {"holder", "step", "how", "sync", "expense", "got", "sawLink", "todo",
                        "failed"}
      /\ \A e \in Expense : /\ upstream[e] \in Nat /\ data[e] \in Nat
                            /\ data[e] <= upstream[e] /\ upstream[e] <= Len(ReceiptsOf[e])
                            /\ Len(ReceiptsOf[e]) \in Nat
                            /\ \A v \in 1..Len(ReceiptsOf[e]) : ReceiptsOf[e][v] \subseteq Receipt
      /\ upstream \in [Expense -> Nat] /\ data \in [Expense -> Nat]
  BY ShapeFacts, ReceiptsTyped DEF Shape, RowShape, NoWork, IInv, Typed
<1>1. work.step # "none" => work.holder # "free"
  BY <1>0 DEF WorkShape
<1>2. CASE UNCHANGED <<upstream, data, work>>
  BY <1>0, <1>2 DEF WorkShape
<1>3. CASE \E e \in Expense : Upstream(e)
  <2>1. PICK e \in Expense : Upstream(e)
    BY <1>3
  <2>2. upstream' = [upstream EXCEPT ![e] = upstream[e] + 1] /\ UNCHANGED <<data, work>>
    BY <2>1 DEF Upstream, row
  <2>3. \A f \in Expense : upstream'[f] \in Nat /\ upstream[f] <= upstream'[f]
    BY <1>0, <2>2
  <2>4. ASSUME work.step = "upsert" PROVE work.got \in 1..upstream'[work.expense]
    <3>1. work.expense \in Expense /\ work.got \in 1..upstream[work.expense]
      BY <2>4, <1>0 DEF WorkShape
    <3>2. upstream'[work.expense] \in Nat /\ upstream[work.expense] <= upstream'[work.expense]
      BY <2>3, <3>1
    <3> QED
      BY <1>0, <3>1, <3>2
  <2> QED
    BY <1>0, <2>2, <2>4 DEF WorkShape
<1>4. CASE \E e \in Expense : StartRefresh(e)
  <2>1. PICK e \in Expense : StartRefresh(e)
    BY <1>4
  <2>2. /\ data[e] > 0 /\ UNCHANGED <<upstream, data>>
        /\ work' = [NoWork EXCEPT !.holder = "refresh", !.step = "upsert", !.expense = e,
                                  !.got = upstream[e], !.sawLink = linked[e], !.sync = sync]
    BY <2>1 DEF StartRefresh, row
  <2>3. /\ work'.holder = "refresh" /\ work'.step = "upsert" /\ work'.expense = e
        /\ work'.got = upstream[e] /\ work'.todo = {}
    BY <2>2 DEF NoWork
  <2>4. upstream[e] \in 1..upstream[e]
    BY <1>0, <2>2
  <2> QED
    BY <2>2, <2>3, <2>4 DEF WorkShape, Step
<1>5. CASE \E e \in Expense : RecordExpense(e)
  <2>1. PICK e \in Expense : RecordExpense(e)
    BY <1>5
  <2>2. /\ work.step = "expenses" /\ upstream[e] > 0 /\ UNCHANGED <<upstream, data>>
        /\ \E how \in {"page", "lookup"} :
              work' = [work EXCEPT !.step = "upsert", !.expense = e, !.got = upstream[e],
                                   !.sawLink = linked[e], !.how = how]
    BY <2>1 DEF RecordExpense, BeginRecord, row
  <2>3. /\ work'.holder = work.holder /\ work'.step = "upsert" /\ work'.expense = e
        /\ work'.got = upstream[e] /\ work'.todo = work.todo
    BY <1>0, <2>2
  <2>4. upstream[e] \in 1..upstream[e] /\ work.holder # "free"
    BY <1>0, <1>1, <2>2
  <2> QED
    BY <1>0, <2>2, <2>3, <2>4 DEF WorkShape, Step
<1>6. CASE Upsert
  <2> DEFINE e == work.expense
  <2>1. /\ work.step = "upsert" /\ data' = [data EXCEPT ![e] = work.got]
        /\ work' = [work EXCEPT !.step = "pending"]
    BY <1>6 DEF Upsert
  <2>2. e \in Expense /\ work.got \in Nat \ {0}
    BY <2>1, ShapeFacts
  <2>3. /\ work'.holder = work.holder /\ work'.step = "pending" /\ work'.expense = e
        /\ work'.got = work.got /\ work'.todo = work.todo
    BY <1>0, <2>1
  <2> HIDE DEF e
  <2>4. data'[e] = work.got
    BY <1>0, <2>1, <2>2
  <2> QED
    BY <1>0, <1>1, <2>1, <2>2, <2>3, <2>4 DEF WorkShape, Step
<1>7. CASE MarkPending
  <2> DEFINE e == work.expense
  <2>1. work.step = "pending" /\ UNCHANGED <<upstream, data>>
    BY <1>7 DEF MarkPending
  <2>2. CASE work.holder = "job" \/ ~work.sync
    <3>1. \/ work' = NoWork
          \/ work' = [NoWork EXCEPT !.holder = "job", !.step = "expenses", !.sync = work.sync]
      BY <1>7, <2>2 DEF MarkPending
    <3>2. CASE work' = [NoWork EXCEPT !.holder = "job", !.step = "expenses", !.sync = work.sync]
      <4>1. work'.step = "expenses" /\ work'.todo = {} /\ work'.holder = "job"
        BY <3>2 DEF NoWork
      <4> QED
        BY <4>1 DEF WorkShape, Step
    <3> QED
      BY <3>1, <3>2, IdleShape
  <2>3. CASE work.holder # "job" /\ work.sync
    <3>1. work' = [work EXCEPT !.step = "receipts", !.todo = Missing(e)]
      BY <1>7, <2>3 DEF MarkPending
    <3>2. Missing(e) \subseteq Receipt
      BY <1>0, <2>1, ShapeFacts DEF Missing
    <3>3. /\ work'.holder = work.holder /\ work'.step = "receipts" /\ work'.expense = e
          /\ work'.got = work.got /\ work'.todo = Missing(e)
      BY <1>0, <3>1
    <3> HIDE DEF e
    <3>4. e \in Expense /\ work.got = data[e] /\ data[e] > 0
      BY <1>0, <2>1 DEF WorkShape, e
    <3> QED
      BY <1>1, <2>1, <3>2, <3>3, <3>4 DEF WorkShape, Step
  <2> QED
    BY <2>2, <2>3
<1>8. CASE \E r \in Receipt : SaveReceipt(r) \/ ReceiptFails(r)
  <2>1. PICK r \in Receipt : SaveReceipt(r) \/ ReceiptFails(r)
    BY <1>8
  <2>2. /\ work.step = "receipts" /\ UNCHANGED <<upstream, data>>
        /\ work' \in {[work EXCEPT !.todo = @ \ {r}],
                      [work EXCEPT !.todo = work.todo \ {r}, !.failed = TRUE]}
    BY <2>1 DEF SaveReceipt, ReceiptFails, Left, row
  <2>3. /\ work'.holder = work.holder /\ work'.step = "receipts" /\ work'.expense = work.expense
        /\ work'.got = work.got /\ work'.todo = work.todo \ {r}
    BY <1>0, <2>2
  <2> QED
    BY <1>0, <1>1, <2>2, <2>3 DEF WorkShape, Step
<1>9. CASE \E e \in Expense : BeginReceipts(e)
  <2>1. PICK e \in Expense : BeginReceipts(e)
    BY <1>9
  <2> DEFINE missing == ReceiptsOf[e][data[e]] \ (stored[e] \cap files[e])
  <2>2. data[e] > 0
    BY <2>1 DEF BeginReceipts, First, Shape, RestShape
  <2>3. missing \subseteq Receipt
    BY <1>0, <2>2
  <2>4. /\ work.step = "batch" /\ UNCHANGED <<upstream, data>>
        /\ work' = [work EXCEPT !.step = "receipts", !.expense = e, !.got = data[e],
                                !.todo = missing, !.failed = FALSE]
    BY <2>1 DEF BeginReceipts, row
  <2> HIDE DEF missing
  <2>5. /\ work'.holder = work.holder /\ work'.step = "receipts" /\ work'.expense = e
        /\ work'.got = data[e] /\ work'.todo = missing
    BY <1>0, <2>4
  <2> QED
    BY <1>1, <2>2, <2>3, <2>4, <2>5 DEF WorkShape, Step
<1>10. CASE EndExpenses \/ EndReceipts
  <2>1. work.step \in {"expenses", "receipts"} /\ work' = [work EXCEPT !.step = "batch"]
    BY <1>10 DEF EndExpenses, EndReceipts
  <2>2. work'.step = "batch" /\ work'.todo = work.todo /\ work'.holder = work.holder
    BY <1>0, <2>1
  <2> QED
    BY <1>0, <1>1, <2>1, <2>2 DEF WorkShape, Step
<1>11. CASE StartJob \/ HolderDies \/ EndRefresh \/ EndJob
  <2>1. sync \in BOOLEAN
    BY DEF Shape, RestShape
  <2> QED
    BY <1>11, <2>1, IdleShape DEF StartJob, HolderDies, EndRefresh, EndJob
<1>12. CASE \/ \E e \in Expense : \/ LinkExpense(e) \/ CommitLink(e) \/ CommitRefresh(e)
                                  \/ RequestDies(e) \/ \E r \in Receipt : DeleteFile(e, r)
            \/ \E b \in BOOLEAN : SetSync(b)
            \/ UNCHANGED vars
  BY <1>2, <1>12 DEF LinkExpense, CommitLink, CommitRefresh, RequestDies, DeleteFile, SetSync, vars,
     row
<1> QED
  BY <1>3, <1>4, <1>5, <1>6, <1>7, <1>8, <1>9, <1>10, <1>11, <1>12, Zenon DEF Next, WorkStep

LEMMA InitShape == Init => Shape
<1> SUFFICES ASSUME Init PROVE Shape
  OBVIOUS
<1>1. RowShape
  BY ReceiptsTyped DEF Init, RowShape
<1>2. OrderShape
  BY DEF Init, OrderShape
<1>3. WorkShape
  <2>1. NoWork.step = "none" /\ NoWork.todo = {}
    BY DEF NoWork
  <2> QED
    BY <2>1 DEF Init, WorkShape, Step
<1>4. RestShape
  BY BoundAssumption DEF Init, RestShape
<1> QED
  BY <1>1, <1>2, <1>3, <1>4 DEF Shape

\* Every variable keeps its shape.
THEOREM ExpensesTyped == Spec => []TypeOK
<1>1. Init => IInv /\ Shape
  BY InitHolds, InitShape
<1>2. (IInv /\ Shape) /\ [Next]_vars => (IInv /\ Shape)'
  BY StepHolds, StepRow, StepOrder, StepWork, StepRest DEF Shape
<1>3. IInv /\ Shape => TypeOK
  <2> SUFFICES ASSUME IInv, Shape PROVE TypeOK
    OBVIOUS
  <2>1. \A e \in Expense : /\ upstream[e] \in 0..Len(ReceiptsOf[e])
                           /\ {data[e], acked[e]} \subseteq 0..upstream[e]
    BY ShapeFacts DEF Shape, RowShape
  <2>2. \A e \in Expense : files[e] \subseteq stored[e] /\ (linked[e] => data[e] > 0)
    BY DEF Shape, RowShape, IInv, LinkInv
  <2>3. (work.holder = "free") = LockFree
    <3>1. NoWork.holder = "free"
      BY DEF NoWork
    <3> QED
      BY <3>1 DEF Shape, WorkShape, LockFree
  <2>4. work.step \in {"upsert", "pending", "receipts"} =>
          /\ work.expense \in Expense /\ work.got \in 1..upstream[work.expense]
          /\ work.todo \subseteq Receipt
    BY ShapeFacts DEF Shape, WorkShape, RowShape
  <2> QED
    BY <2>1, <2>2, <2>3, <2>4 DEF TypeOK, IInv, Typed, Shape, RowShape, OrderShape, WorkShape,
       RestShape
<1> QED
  BY <1>1, <1>2, <1>3, PTL DEF Spec

\* Every variable keeps its shape, and no receipt is forgotten: an expense that
\* is not pending has all its receipts, unless a worker died between the two
\* commits of its record.
THEOREM NothingForgotten == Spec => []NoReceiptForgotten
  BY ExpensesTyped, NoReceiptLost, PTL DEF NoReceiptForgotten
=============================================================================
