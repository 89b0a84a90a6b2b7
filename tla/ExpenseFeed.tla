----------------------------- MODULE ExpenseFeed -----------------------------
(***************************************************************************)
(* enrichment.expenses and expense_window: which expenses are read, and    *)
(* when.  A run polls from a cursor, audits a slice of the past once a     *)
(* day, and looks up unfinished expenses one by one.  The two windows are  *)
(* frozen and resumed as FeedSync's are; their pages are abstracted to     *)
(* the day they reach down to.                                             *)
(*                                                                         *)
(* Times are ages: ticks between the time and now, 0..MaxAge, where MaxAge *)
(* stands for any more.  What expense_record stores is module Expenses'.   *)
(***************************************************************************)
EXTENDS Rotation

CONSTANTS
    Expense,        \* expenses of the connection
    Approved,       \* versions from here on are approved or rejected
    Final,          \* number of versions: those after Approved are edits
    Unreadable,     \* those that GET /expenses/<id> refuses, say deleted ones
    History,        \* age of historical_from at the start
    PollWindow,     \* 7 days
    AuditWindow,    \* 30 days
    Overlap,        \* 1 hour
    Day,            \* 24 hours: between audits, and between lookups
    BatchSize,      \* limit_page_length of the lookups
    MaxLag,         \* bound: oldest expense_date that is listed
    MaxAge,         \* bound of ages
    MaxFaults       \* bound: failed calls and dead workers

ASSUME ExpenseAssumption == IsFiniteSet(Expense) /\ Unreadable \subseteq Expense
ASSUME NumberAssumption ==
    /\ {Approved, Final, History, PollWindow, AuditWindow, Overlap, Day, BatchSize}
           \subseteq Nat \ {0}
    /\ Approved <= Final /\ History <= MaxAge /\ Day <= MaxAge /\ Day <= AuditWindow
    /\ {MaxAge, MaxLag, MaxFaults} \subseteq Nat

VARIABLES
    upstream,       \* the bank: version of each expense, 0 before it is listed
    age,            \* of each expense's expense_date
    recorded,       \* version of each Revolut Expense, 0 when there is none
    seen,           \* age of last_seen_at, up to Day
    order,          \* <<e, f>>: e's last_seen_at is before f's
    earliest,       \* age of historical_from
    cursor,         \* age of expense_cursor; historical_from before there is one
    auditCursor,    \* age of expense_audit_cursor, likewise
    lastAudit,      \* age of last_expense_audit_at, up to Day
    window,         \* the frozen window of each phase
    phase,          \* of the run: "idle", "poll", "audit" or "lookup"
    batch,          \* expenses still to be looked up
    faults,         \* bound counter
    punctual        \* history: expenses that were listed within the overlap

bank == <<upstream, age, punctual>>

records == <<recorded, seen, order>>

cursors == <<earliest, cursor, auditCursor, lastAudit>>

vars == <<bank, records, cursors, window, phase, batch, faults>>

Closed == [from |-> 0, end |-> 0, to |-> 0]

Higher(x, y) == IF x > y THEN x ELSE y

-----------------------------------------------------------------------------
(* The bank and the clock *)

List(e, a) ==
    /\ upstream[e] = 0
    /\ a <= Lower(earliest, MaxLag)
    /\ upstream' = [upstream EXCEPT ![e] = 1]
    /\ age' = [age EXCEPT ![e] = a]
    /\ punctual' = IF a <= Overlap THEN punctual \cup {e} ELSE punctual
    /\ UNCHANGED <<records, cursors, window, phase, batch, faults>>

Edit(e) ==
    /\ upstream[e] \in 1..(Final - 1)
    /\ upstream' = [upstream EXCEPT ![e] = upstream[e] + 1]
    /\ UNCHANGED <<age, punctual, records, cursors, window, phase, batch, faults>>

Older(a) == Lower(a + 1, MaxAge)

Aged(w) ==
    IF w = Closed THEN Closed
    ELSE [from |-> Older(w.from), end |-> Older(w.end), to |-> Older(w.to)]

\* A run's budget of ten minutes is less than a tick.  Bound: the connection is
\* not left alone until a cursor is MaxAge old, which stands for older than any;
\* the audit's is waited for when an audit is due.
Tick ==
    /\ phase = "idle"
    /\ {cursor, window["poll"].to} \subseteq 0..(MaxAge - 2)
    /\ lastAudit = Day => {auditCursor, window["audit"].to} \subseteq 0..(MaxAge - 2)
    /\ age' = [e \in Expense |-> IF upstream[e] = 0 THEN age[e] ELSE Older(age[e])]
    /\ seen' = [e \in Expense |-> Lower(seen[e] + 1, Day)]
    /\ earliest' = Older(earliest)
    /\ cursor' = cursor + 1 /\ auditCursor' = auditCursor + 1
    /\ lastAudit' = Lower(lastAudit + 1, Day)
    /\ window' = [kind \in {"poll", "audit"} |-> Aged(window[kind])]
    /\ UNCHANGED <<upstream, punctual, recorded, order, phase, batch, faults>>

-----------------------------------------------------------------------------
(* The ranges of the two windows, as ages *)

\* Mutant: the poll starts at the cursor.
PollStartAtCursor == Lower(earliest, cursor)

PollStart == Lower(earliest, cursor + Overlap)

\* The cursor of an audit lies at least a day back when the next one is due.
AuditStart == IF auditCursor = 0 THEN earliest ELSE auditCursor

Start(kind) == IF kind = "poll" THEN PollStart ELSE AuditStart

End(kind) ==
    IF kind = "poll" THEN Higher(cursor - PollWindow, 0)
    ELSE Higher(AuditStart - AuditWindow, 0)

Wanted(kind) == (kind = "poll" \/ lastAudit = Day) /\ Start(kind) > End(kind)

-----------------------------------------------------------------------------
(* A run *)

\* last_seen_at becomes now.
Moved(es) ==
    /\ seen' = [e \in Expense |-> IF e \in es THEN 0 ELSE seen[e]]
    /\ order' = Touched(es, Expense, order)

Record(es) ==
    /\ recorded' = [e \in Expense |-> IF e \in es THEN upstream[e] ELSE recorded[e]]
    /\ Moved(es)

\* Mutant: a lookup that failed leaves last_seen_at alone.
TouchNone(e) == UNCHANGED <<seen, order>>

Touch(e) == Moved({e})

StartRun ==
    /\ phase = "idle"
    /\ phase' = "poll"
    /\ UNCHANGED <<bank, records, cursors, window, batch, faults>>

\* The unfinished expenses that were not seen for a day.
Unfinished == {e \in Expense : recorded[e] \in 1..(Approved - 1) /\ seen[e] = Day}

\* After the audit come those not seen the longest.
After(kind) ==
    \/ kind = "poll" /\ phase' = "audit" /\ UNCHANGED batch
    \/ /\ kind = "audit" /\ phase' = "lookup"
       /\ batch' \in {b \in SUBSET Unfinished : IsBatch(b, Unfinished, order, BatchSize)}

Skip(kind) ==
    /\ phase = kind
    /\ ~Wanted(kind)
    /\ After(kind)
    /\ UNCHANGED <<bank, records, cursors, window, faults>>

OpenWindow(kind) ==
    /\ phase = kind
    /\ Wanted(kind) /\ window[kind] = Closed
    /\ window' = [window EXCEPT ![kind] =
                     [from |-> Start(kind), end |-> End(kind), to |-> End(kind)]]
    /\ UNCHANGED <<bank, records, cursors, phase, batch, faults>>

Between(kind, reach) ==
    {e \in Expense : upstream[e] > 0 /\ age[e] > window[kind].to /\ age[e] <= reach}

\* A page, saved before the checkpoint moves down to its oldest expense.
ReadPage(kind) ==
    /\ phase = kind
    /\ Wanted(kind)
    /\ \E reach \in (window[kind].to + 1)..window[kind].from :
          /\ Record(Between(kind, reach))
          /\ window' = [window EXCEPT ![kind].to = reach]
    /\ UNCHANGED <<bank, cursors, phase, batch, faults>>

\* Mutant: the window that was read stays frozen.
ClosedNever(kind) == window

Cleared(kind) == [window EXCEPT ![kind] = Closed]

CloseWindow(kind) ==
    /\ phase = kind
    /\ Wanted(kind)
    /\ window[kind] # Closed /\ window[kind].to = window[kind].from
    /\ window' = Cleared(kind)
    /\ IF kind = "poll"
       THEN cursor' = window[kind].end /\ UNCHANGED <<auditCursor, lastAudit>>
       ELSE auditCursor' = window[kind].end /\ lastAudit' = 0 /\ UNCHANGED cursor
    /\ After(kind)
    /\ UNCHANGED <<bank, records, earliest, faults>>

\* An answer that is refused, the end of the time budget or a dead worker: some
\* expenses of the page are saved, the checkpoint is not, and nothing follows.
PageFails(kind) ==
    /\ phase = kind
    /\ faults < MaxFaults /\ faults' = faults + 1
    /\ \E es \in SUBSET Between(kind, window[kind].from) : Record(es)
    /\ phase' = "idle"
    /\ UNCHANGED <<bank, cursors, window, batch>>

Lookup(e) ==
    /\ phase = "lookup" /\ First(e, batch, order)
    /\ e \notin Unreadable
    /\ Record({e})
    /\ batch' = batch \ {e}
    /\ UNCHANGED <<bank, cursors, window, phase, faults>>

\* The first failure ends the run.
LookupFails(e) ==
    /\ phase = "lookup" /\ First(e, batch, order)
    /\ IF e \in Unreadable THEN UNCHANGED faults
       ELSE faults < MaxFaults /\ faults' = faults + 1
    /\ Touch(e)
    /\ phase' = "idle" /\ batch' = {}
    /\ UNCHANGED <<bank, recorded, cursors, window>>

EndRun ==
    /\ phase = "lookup" /\ batch = {}
    /\ phase' = "idle"
    /\ UNCHANGED <<bank, records, cursors, window, batch, faults>>

-----------------------------------------------------------------------------

Init ==
    /\ upstream = [e \in Expense |-> 0] /\ age = [e \in Expense |-> 0]
    /\ recorded = [e \in Expense |-> 0] /\ seen = [e \in Expense |-> 0]
    /\ order = {}
    /\ earliest = History /\ cursor = History /\ auditCursor = History /\ lastAudit = Day
    /\ window = [kind \in {"poll", "audit"} |-> Closed]
    /\ phase = "idle" /\ batch = {}
    /\ faults = 0 /\ punctual = {}

RunStep ==
    \/ \E kind \in {"poll", "audit"} :
          Skip(kind) \/ OpenWindow(kind) \/ ReadPage(kind) \/ CloseWindow(kind)
    \/ \E e \in Expense : Lookup(e) \/ LookupFails(e)
    \/ EndRun

Next ==
    \/ \E e \in Expense : Edit(e) \/ \E a \in 0..MaxAge : List(e, a)
    \/ Tick
    \/ StartRun \/ RunStep
    \/ \E kind \in {"poll", "audit"} : PageFails(kind)

Spec == Init /\ [][Next]_vars

\* Time passes between the runs of the hourly job, which starts and ends.
FairSpec == Spec /\ SF_vars(Tick) /\ WF_vars(StartRun) /\ WF_vars(RunStep)

-----------------------------------------------------------------------------
(* Properties *)

\* Every variable keeps its shape, and a frozen window lies within its phase's
\* past: it ends at or after its checkpoint, and before it starts.
TypeOK ==
    /\ upstream \in [Expense -> 0..Final] /\ age \in [Expense -> 0..MaxAge]
    /\ recorded \in [Expense -> 0..Final] /\ seen \in [Expense -> 0..Day]
    /\ order \subseteq Expense \X Expense
    /\ \A e, f \in Expense : <<e, f>> \in order => <<f, e>> \notin order
    /\ {earliest, cursor} \subseteq 0..MaxAge
    /\ lastAudit \in 0..Day /\ auditCursor \in 0..(MaxAge + lastAudit)
    /\ \A kind \in {"poll", "audit"} :
          window[kind].end <= window[kind].to /\ window[kind].to <= window[kind].from
    /\ phase \in {"idle", "poll", "audit", "lookup"} /\ batch \subseteq Expense
    /\ faults \in 0..MaxFaults /\ punctual \subseteq Expense

\* No expense is skipped: one that the bank lists within the overlap is there
\* before the poll ceases to look back at its date, whatever failed on the way; and
\* windows keep their shape.
NoExpenseSkipped ==
    /\ TypeOK
    /\ \A e \in punctual : age[e] > cursor + Overlap => recorded[e] > 0

\* An expense that is listed in time is recorded in the end.
ExpensesArrive == \A e \in Expense : (e \in punctual) ~> (recorded[e] > 0)

\* An expense that was recorded unfinished is recorded as finished some time
\* after it was approved or rejected, even if others cannot be looked up at all.
UnfinishedSettles ==
    \A e \in Expense \ Unreadable :
        (recorded[e] > 0 /\ upstream[e] >= Approved) ~> (recorded[e] >= Approved)
=============================================================================
