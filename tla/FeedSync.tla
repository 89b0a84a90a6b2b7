------------------------------ MODULE FeedSync ------------------------------
(***************************************************************************)
(* sync.py and core.iter_transactions: how a run of the sync job reads the *)
(* transaction list of one connection, newest first, in windows that are   *)
(* frozen and checkpointed in the database, so that no transaction is      *)
(* missed whatever run fails or worker dies.                               *)
(*                                                                         *)
(* Time is a number of ticks, a tick standing for the microsecond of the   *)
(* API's timestamps.  Runs of a connection exclude each other (the         *)
(* connection lock), so there is one job.  Between the poll and the        *)
(* backfill a run also fetches single transactions (webhook inbox, pending *)
(* recheck); they only add to what is imported and are not modelled here.  *)
(***************************************************************************)
EXTENDS Integers, FiniteSets

CONSTANTS
    Tx,             \* transactions of the connection
    Arrival,        \* when one may be created and when the API first lists it
    HistoricalFrom, \* values the administrator gives to historical_from
    BackfillRange,  \* ranges the administrator asks to backfill
    Window,         \* window_days
    Overlap,        \* poll_overlap_minutes
    Lookback,       \* lookback_days
    AuditWindow,    \* audit_window_days
    AuditEnabled,   \* audit_enabled
    Day,            \* 24 hours: the pause between audits, and between rechecks
    Margin,         \* the 5 seconds a run stays behind the clock
    PageSize,       \* page_size
    TieSize,        \* tie_size: a full answer to a one-timestamp probe
    MaxPages,       \* max_pages of one run
    StartTime,      \* when the connection is set up
    MaxTime,        \* bound: the clock
    MaxFaults       \* bound: failed calls and dead workers

Time == 0..MaxTime

ASSUME TxAssumption == IsFiniteSet(Tx)
ASSUME ArrivalAssumption ==
    \A a \in Arrival : a.created \in Nat /\ a.shown \in Nat /\ a.created <= a.shown
ASSUME RangeAssumption ==
    /\ HistoricalFrom \subseteq Nat
    /\ \A b \in BackfillRange : b.from \in Nat /\ b.to \in Nat
ASSUME SizeAssumption ==
    /\ {Window, AuditWindow, Lookback, PageSize, TieSize, MaxPages} \subseteq Nat \ {0}
    /\ {Overlap, Margin, Day, StartTime, MaxTime, MaxFaults} \subseteq Nat
    /\ AuditEnabled \in BOOLEAN /\ StartTime <= MaxTime

\* The phases of a run that read the list, each with a window of its own.
Phase == {"poll", "backfill", "audit", "recent"}

NoTime == -1

NoWindow == [start |-> NoTime, end |-> NoTime, to |-> NoTime, at |-> NoTime]

NoBackfill == [next |-> NoTime, end |-> NoTime]

NoRequest == [from |-> NoTime, end |-> NoTime, at |-> NoTime]

NoJob == [phase |-> "none", step |-> "none", cutoff |-> NoTime, low |-> NoTime,
          high |-> NoTime, end |-> NoTime, todo |-> {}, next |-> NoTime,
          last |-> FALSE, pages |-> 0]

VARIABLES
    now,            \* the clock
    arrival,        \* of each transaction; what the API lists follows from it
    imported,       \* transactions whose ingest has committed
    earliest,       \* historical_from
    pollCursor,     \* poll_cursor
    auditCursor,    \* audit_cursor
    lastAudit,      \* last_audit_at
    lastRecent,     \* last_recent_at
    backfill,       \* backfill_next and backfill_end
    window,         \* each phase's frozen window; at: history, when frozen
    job,            \* the running job's local state
    faults,         \* bound counter
    floor,          \* history: the latest value historical_from has had
    request         \* history: the last backfill asked for, and when

durable == <<imported, earliest, pollCursor, auditCursor, lastAudit, lastRecent,
             backfill, window>>

history == <<floor, request>>

vars == <<now, arrival, durable, job, faults, history>>

-----------------------------------------------------------------------------
(* The transaction list of the API *)

Lower(x, y) == IF x < y THEN x ELSE y

Higher(x, y) == IF x > y THEN x ELSE y

Created(x) == arrival[x].created

Listed(from, to) ==
    {x \in Tx : arrival[x].shown <= now /\ from <= Created(x) /\ Created(x) < to}

\* An answer holds the newest PageSize; equal timestamps come in any order.
IsPage(page, from, to) ==
    /\ page \subseteq Listed(from, to)
    /\ Cardinality(page) = Lower(PageSize, Cardinality(Listed(from, to)))
    /\ \A x \in page, y \in Listed(from, to) \ page : Created(y) <= Created(x)

-----------------------------------------------------------------------------
(* Which window a phase works on *)

Cursor == IF pollCursor = NoTime THEN earliest ELSE pollCursor

\* Mutant: the poll resumes at its cursor, without an overlap.
PollStartAtCursor == Higher(earliest, Cursor)

PollStart == Higher(earliest, Cursor - Overlap)

PollEnd == Lower(Cursor + Window, job.cutoff)

AuditStart ==
    LET start == IF auditCursor = NoTime THEN earliest ELSE Higher(earliest, auditCursor)
    IN  IF start >= job.cutoff THEN earliest ELSE start

Due(p) ==
    CASE p = "poll" -> TRUE
      [] p = "backfill" -> backfill # NoBackfill
      [] p = "audit" -> AuditEnabled /\ (lastAudit = NoTime \/ lastAudit <= now - Day)
      [] p = "recent" -> lastRecent = NoTime \/ lastRecent <= now - Day

WindowStart(p) ==
    CASE p = "poll" -> PollStart
      [] p = "backfill" -> backfill.next
      [] p = "audit" -> AuditStart
      [] p = "recent" -> Higher(earliest, job.cutoff - Lookback)

WindowEnd(p) ==
    CASE p = "poll" -> PollEnd
      [] p = "backfill" -> Lower(backfill.next + Window, backfill.end)
      [] p = "audit" -> Lower(AuditStart + AuditWindow, job.cutoff)
      [] p = "recent" -> job.cutoff

Wanted(p) == Due(p) /\ WindowStart(p) < WindowEnd(p)

-----------------------------------------------------------------------------
(* A run *)

Running == job # NoJob

At(step) == Running /\ job.step = step

Opening(p, cutoff) == [NoJob EXCEPT !.phase = p, !.step = "open", !.cutoff = cutoff]

\* The job goes on to its next phase, or ends; what it held is dropped.
NextPhase ==
    \/ job.phase = "poll" /\ job' = Opening("backfill", job.cutoff)
    \/ job.phase = "backfill" /\ job' = Opening("audit", job.cutoff)
    \/ job.phase = "audit" /\ job' = Opening("recent", job.cutoff)
    \/ job.phase = "recent" /\ job' = NoJob

BeginRun ==
    /\ ~Running
    /\ job' = Opening("poll", now - Margin)
    /\ UNCHANGED <<now, arrival, durable, faults, history>>

SkipPhase ==
    /\ At("open")
    /\ ~Wanted(job.phase)
    /\ NextPhase
    /\ UNCHANGED <<now, arrival, durable, faults, history>>

\* Mutant: each run freezes a window of its own.
FrozenAnew(p) ==
    [start |-> WindowStart(p), end |-> WindowEnd(p), to |-> WindowEnd(p), at |-> now]

\* A window left by an earlier run is resumed whatever is wanted now.
Frozen(p) ==
    IF window[p] # NoWindow THEN window[p]
    ELSE [start |-> WindowStart(p), end |-> WindowEnd(p), to |-> WindowEnd(p), at |-> now]

OpenWindow ==
    /\ At("open")
    /\ Wanted(job.phase)
    /\ LET w == Frozen(job.phase)
       IN  /\ window' = [window EXCEPT ![job.phase] = w]
           /\ job' = [job EXCEPT !.step = "page", !.low = w.start, !.high = w.to, !.end = w.end]
    /\ UNCHANGED <<now, arrival, imported, earliest, pollCursor, auditCursor, lastAudit,
                   lastRecent, backfill, faults, history>>

MorePages == At("page") /\ job.pages < MaxPages

\* A short page is the whole rest of the window.
FetchShort(page) ==
    /\ Cardinality(page) < PageSize
    /\ job' = [job EXCEPT !.step = "save", !.todo = page, !.next = job.low, !.last = TRUE]

\* Mutant: a full page is taken as it is, ties at its end are not looked for.
FetchFullNoTies(page, boundary) ==
    /\ Cardinality(page) = PageSize
    /\ \E x \in page : Created(x) = boundary
    /\ \A x \in page : Created(x) >= boundary
    /\ job' = [job EXCEPT !.step = "save", !.todo = page, !.next = boundary]

\* Of a full page only what is newer than its oldest timestamp is taken; that
\* timestamp is asked for again on its own.
FetchFull(page, boundary) ==
    /\ Cardinality(page) = PageSize
    /\ \E x \in page : Created(x) = boundary
    /\ \A x \in page : Created(x) >= boundary
    /\ job' = [job EXCEPT !.step = "ties", !.next = boundary,
                          !.todo = {x \in page : Created(x) > boundary}]

FetchPage ==
    /\ MorePages /\ job.low < job.high
    /\ \E page \in SUBSET Listed(job.low, job.high) :
          /\ IsPage(page, job.low, job.high)
          /\ FetchShort(page) \/ \E boundary \in Time : FetchFull(page, boundary)
    /\ UNCHANGED <<now, arrival, durable, faults, history>>

Ties == Listed(job.next, job.next + 1)

FetchTies ==
    /\ At("ties")
    /\ Cardinality(Ties) < TieSize
    /\ job' = [job EXCEPT !.step = "save", !.todo = job.todo \cup Ties]
    /\ UNCHANGED <<now, arrival, durable, faults, history>>

\* _persist_transaction commits each transaction on its own.
Persist(x) ==
    /\ At("save")
    /\ x \in job.todo
    /\ imported' = imported \cup {x}
    /\ job' = [job EXCEPT !.todo = job.todo \ {x}]
    /\ UNCHANGED <<now, arrival, earliest, pollCursor, auditCursor, lastAudit, lastRecent,
                   backfill, window, faults, history>>

\* Mutants: the checkpoint does not wait for the page; it is not written.
CheckpointEarly ==
    /\ At("save")
    /\ window' = [window EXCEPT ![job.phase].to = job.next]
    /\ job' = [job EXCEPT !.step = IF job.last THEN "close" ELSE "page",
                          !.high = job.next, !.pages = @ + 1]
    /\ UNCHANGED <<now, arrival, imported, earliest, pollCursor, auditCursor, lastAudit,
                   lastRecent, backfill, faults, history>>

CheckpointForgotten ==
    /\ At("save")
    /\ job.todo = {}
    /\ job' = [job EXCEPT !.step = IF job.last THEN "close" ELSE "page",
                          !.high = job.next, !.pages = @ + 1]
    /\ UNCHANGED <<now, arrival, durable, faults, history>>

Checkpoint ==
    /\ At("save")
    /\ job.todo = {}
    /\ window' = [window EXCEPT ![job.phase].to = job.next]
    /\ job' = [job EXCEPT !.step = IF job.last THEN "close" ELSE "page",
                          !.high = job.next, !.pages = @ + 1]
    /\ UNCHANGED <<now, arrival, imported, earliest, pollCursor, auditCursor, lastAudit,
                   lastRecent, backfill, faults, history>>

ReachLow ==
    /\ MorePages /\ job.low >= job.high
    /\ job' = [job EXCEPT !.step = "close"]
    /\ UNCHANGED <<now, arrival, durable, faults, history>>

\* Mutant: a backfill that reached its end is asked for again.
BackfillAgain == [backfill EXCEPT !.next = job.end]

BackfillAfter ==
    IF job.end < backfill.end THEN [backfill EXCEPT !.next = job.end] ELSE NoBackfill

\* The window is dropped and the phase's cursor moved in one commit.
MoveCursor ==
    \/ /\ job.phase = "poll"
       /\ pollCursor' = job.end
       /\ UNCHANGED <<auditCursor, lastAudit, lastRecent, backfill>>
    \/ /\ job.phase = "backfill"
       /\ backfill' = BackfillAfter
       /\ UNCHANGED <<pollCursor, auditCursor, lastAudit, lastRecent>>
    \/ /\ job.phase = "audit"
       /\ auditCursor' = IF job.end < job.cutoff THEN job.end ELSE earliest
       /\ lastAudit' = now
       /\ UNCHANGED <<pollCursor, lastRecent, backfill>>
    \/ /\ job.phase = "recent"
       /\ lastRecent' = now
       /\ UNCHANGED <<pollCursor, auditCursor, lastAudit, backfill>>

CloseWindow ==
    /\ At("close")
    /\ window' = [window EXCEPT ![job.phase] = NoWindow]
    /\ MoveCursor
    /\ NextPhase
    /\ UNCHANGED <<now, arrival, imported, earliest, faults, history>>

\* pagination_page_limit and pagination_tie_saturated end the phase.
GiveUp ==
    /\ \/ At("page") /\ job.pages >= MaxPages
       \/ At("ties") /\ Cardinality(Ties) >= TieSize
    /\ NextPhase
    /\ UNCHANGED <<now, arrival, durable, faults, history>>

Fault == faults < MaxFaults /\ faults' = faults + 1

\* An API call or an ingest raises: the phase's open work is rolled back.
PhaseFails ==
    /\ At("page") \/ At("ties") \/ (At("save") /\ job.todo # {})
    /\ Fault
    /\ NextPhase
    /\ UNCHANGED <<now, arrival, durable, history>>

\* The worker dies, or the run's first calls fail.
RunDies ==
    /\ Running
    /\ Fault
    /\ job' = NoJob
    /\ UNCHANGED <<now, arrival, durable, history>>

-----------------------------------------------------------------------------
(* The administrator and the clock *)

\* The connection form, while the connection is disabled and no run holds the
\* lock; the connection is enabled again afterwards.
EditHistoricalFrom(d) ==
    /\ ~Running
    /\ d # earliest /\ d <= now
    /\ earliest' = d
    /\ floor' = Higher(floor, d)
    /\ UNCHANGED <<now, arrival, imported, pollCursor, auditCursor, lastAudit, lastRecent,
                   backfill, window, job, faults, request>>

StartBackfill(range) ==
    LET end == Lower(range.to, now)
    IN  /\ ~Running
        /\ backfill = NoBackfill
        /\ range.from < end
        /\ range.from >= earliest
        /\ backfill' = [next |-> range.from, end |-> end]
        /\ request' = [from |-> range.from, end |-> end, at |-> now]
        /\ UNCHANGED <<now, arrival, imported, earliest, pollCursor, auditCursor, lastAudit,
                       lastRecent, window, job, faults, floor>>

Tick ==
    /\ now < MaxTime
    /\ now' = now + 1
    /\ UNCHANGED <<arrival, durable, job, faults, history>>

-----------------------------------------------------------------------------

Init ==
    /\ now = StartTime
    /\ arrival \in [Tx -> Arrival]
    /\ imported = {}
    /\ earliest \in {d \in HistoricalFrom : d <= StartTime}
    /\ pollCursor = NoTime /\ auditCursor = NoTime
    /\ lastAudit = NoTime /\ lastRecent = NoTime
    /\ backfill = NoBackfill
    /\ window = [p \in Phase |-> NoWindow]
    /\ job = NoJob
    /\ faults = 0
    /\ floor = earliest
    /\ request = NoRequest

RunStep ==
    \/ BeginRun \/ SkipPhase \/ OpenWindow \/ FetchPage \/ FetchTies
    \/ \E x \in Tx : Persist(x)
    \/ Checkpoint \/ ReachLow \/ CloseWindow \/ GiveUp

Next ==
    \/ RunStep
    \/ PhaseFails \/ RunDies
    \/ \E d \in HistoricalFrom : EditHistoricalFrom(d)
    \/ \E range \in BackfillRange : StartBackfill(range)
    \/ Tick

Spec == Init /\ [][Next]_vars

\* The scheduler starts a run every quarter of an hour and a running worker
\* goes on; the clock does not stop.  Nothing is asked of the administrator,
\* and no fault has to happen or to stop happening (MaxFaults bounds them).
FairSpec == Spec /\ WF_vars(RunStep) /\ WF_vars(Tick)

-----------------------------------------------------------------------------
(* Properties *)

IsTime(x) == x \in Nat \cup {NoTime}

\* Every variable keeps its shape, and a job works inside its frozen window.
TypeOK ==
    /\ now \in Time /\ arrival \in [Tx -> Arrival] /\ imported \subseteq Tx
    /\ earliest \in HistoricalFrom /\ floor \in Nat /\ faults \in 0..MaxFaults
    /\ IsTime(pollCursor) /\ IsTime(auditCursor) /\ IsTime(lastAudit) /\ IsTime(lastRecent)
    /\ backfill # NoBackfill =>
          backfill.next \in Nat /\ backfill.end \in Nat /\ backfill.next < backfill.end
    /\ \A p \in Phase : window[p] # NoWindow =>
          /\ {window[p].start, window[p].end, window[p].to, window[p].at} \subseteq Nat
          /\ window[p].start <= window[p].to /\ window[p].to <= window[p].end
    /\ Running => job.phase \in Phase /\ job.todo \subseteq Tx /\ job.pages \in 0..MaxPages

\* Checkpoints are honest: of the transactions listed when the window was
\* frozen, those at or above the checkpoint have been imported, so that the
\* next run may go on below it.
CheckpointSound ==
    \A p \in Phase, x \in Tx :
        /\ window[p] # NoWindow
        /\ arrival[x].shown <= window[p].at
        /\ window[p].to <= Created(x) /\ Created(x) < window[p].end
        => x \in imported

\* Within the safety margin every transaction below the poll cursor has been
\* imported; one that the API lists late has been once the overlap is past it.
\* Transactions before the latest historical_from are not promised.
PollComplete ==
    \A x \in Tx :
        /\ Created(x) >= floor
        /\ \/ Created(x) < pollCursor /\ arrival[x].shown <= Created(x) + Margin
           \/ /\ Created(x) + Overlap < pollCursor
              /\ arrival[x].shown <= Created(x) + Overlap + Margin
        => x \in imported

\* A backfill works upwards and skips nothing that was listed when it was
\* asked for; when it is over the whole range is imported.  Windows, cursors and
\* the job keep their shape.
BackfillComplete ==
    LET done == IF backfill = NoBackfill THEN request.end ELSE backfill.next
    IN  /\ TypeOK
        /\ \A x \in Tx :
              /\ request.from <= Created(x) /\ Created(x) < done
              /\ arrival[x].shown <= request.at
              => x \in imported

\* Progress is not undone: the poll cursor never moves back, and while a
\* window is open its checkpoint only goes down.
ProgressKept ==
    [][/\ pollCursor' >= pollCursor
       /\ \A p \in Phase :
            window[p] # NoWindow /\ window'[p] # NoWindow =>
                /\ window'[p].to <= window[p].to
                /\ [window'[p] EXCEPT !.to = 0] = [window[p] EXCEPT !.to = 0]]_vars

\* However runs fail, once the administrator leaves historical_from alone the
\* poll catches up: it reaches the end of time, less the margin.
PollCatchesUp ==
    (\E d \in HistoricalFrom : <>[](earliest = d)) => <>[](pollCursor = MaxTime - Margin)

\* An accepted backfill ends.
BackfillEnds == backfill # NoBackfill ~> backfill = NoBackfill
=============================================================================
