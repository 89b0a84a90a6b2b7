-------------------------------- MODULE Inbox --------------------------------
(***************************************************************************)
(* webhooks.receive, sync._inbox, sync._pending and sync.cleanup: how the  *)
(* bank's notifications are kept in a durable inbox and worked off, next   *)
(* to the periodic recheck of transactions that are not final, by a job    *)
(* that is queued, runs under the connection lock and may fail or die.     *)
(*                                                                         *)
(* A transaction goes through versions 1..Final at the bank, of which only *)
(* the last is final.  The clock is a countdown in ticks of 15 minutes     *)
(* until an event or a transaction is due; what next_attempt_at and        *)
(* last_checked say of the order of those that are due is kept apart, as a *)
(* relation.  What ingest makes of a version is module Importer's.         *)
(***************************************************************************)
EXTENDS Rotation

CONSTANTS
    Tx,             \* transactions of the connection
    Final,          \* number of versions of a transaction
    Told,           \* bound: the versions that the bank tells of
    Poison,         \* those whose final version cannot be booked: ingest raises
    BatchSize,      \* limit_page_length of both queues
    MaxDoubling,    \* attempts beyond which the backoff no longer grows
    MaxWait,        \* longest backoff, in ticks
    MaxFaults       \* bound: failed calls, dead workers, lost queues

ASSUME TxAssumption ==
    /\ IsFiniteSet(Tx) /\ Poison \subseteq Tx
    /\ \A x \in Tx : Told[x] \subseteq 1..Final
ASSUME NumberAssumption ==
    /\ {Final, BatchSize, MaxDoubling, MaxWait} \subseteq Nat \ {0}
    /\ MaxFaults \in Nat

\* A notification says that a transaction has reached a version.
Event == [tx : Tx, version : 1..Final]

Status == {"none", "Pending", "Retry", "Done"}

VARIABLES
    upstream,       \* the bank: version of each transaction, 0 before it exists
    enabled,        \* the connection is enabled, and its webhook
    imported,       \* version of each source transaction, 0 when there is none
    status,         \* of each event's inbox row
    attempts,       \* of each event; MaxDoubling stands for any more
    wait,           \* ticks until next_attempt_at
    before,         \* order of the open events by next_attempt_at
    rest,           \* ticks until a transaction's last_checked is 15 minutes old
    older,          \* order of the source transactions by last_checked
    queued,         \* a job waits in the Redis queue
    lock,           \* "free", "run" (held by the job) or "dead" (by a dead one)
    job,            \* the running job's local state
    faults,         \* bound counter
    accepted        \* history: events that were answered "accepted"

bank == <<upstream, enabled>>

events == <<status, attempts, wait, before>>

sources == <<imported, rest, older>>

vars == <<bank, events, sources, queued, lock, job, faults, accepted>>

NoEvent == [tx |-> "none", version |-> 0]

NoJob == [phase |-> "none", step |-> "none", todo |-> {}, item |-> NoEvent, got |-> 0, rows |-> {}]

-----------------------------------------------------------------------------
(* The two queues *)

Open(e) == status[e] \in {"Pending", "Retry"}

Due == {e \in Event : Open(e) /\ wait[e] = 0}

\* Sources in state created or pending, last checked more than 15 minutes ago.
Recheckable == {x \in Tx : imported[x] \in 1..(Final - 1) /\ rest[x] = 0}

\* Event e gets a next_attempt_at that many ticks from now.
Placed(e, ticks) ==
    LET others == {f \in Event \ {e} : Open(f)}
    IN  Without({e}, before)
        \cup {<<f, e>> : f \in {g \in others : wait[g] = 0 \/ wait[g] < ticks}}
        \cup {<<e, f>> : f \in {g \in others : wait[g] > ticks}}

Backoff(tries) == Lower(2 ^ tries, MaxWait)

\* Mutant: an event that failed keeps its next_attempt_at.
RescheduleNever(e) ==
    /\ status' = [status EXCEPT ![e] = "Retry"]
    /\ attempts' = [attempts EXCEPT ![e] = Lower(attempts[e] + 1, MaxDoubling)]
    /\ UNCHANGED <<wait, before>>

Reschedule(e) ==
    LET tries == Lower(attempts[e] + 1, MaxDoubling)
    IN  /\ status' = [status EXCEPT ![e] = "Retry"]
        /\ attempts' = [attempts EXCEPT ![e] = tries]
        /\ wait' = [wait EXCEPT ![e] = Backoff(tries)]
        /\ before' = Placed(e, Backoff(tries))

\* last_checked becomes now.
Checked(x) ==
    /\ rest' = [rest EXCEPT ![x] = 1]
    /\ older' = Touched({x}, {y \in Tx : imported[y] > 0}, older)

-----------------------------------------------------------------------------
(* What ingest makes of a version *)

Raises(x, version) == x \in Poison /\ version = Final

\* A version that is older than the source's changes nothing, not even
\* last_checked; while the lock keeps imports apart there is none.
Ingest(x, version) ==
    IF version < imported[x] THEN UNCHANGED sources
    ELSE imported' = [imported EXCEPT ![x] = version] /\ Checked(x)

-----------------------------------------------------------------------------
(* The bank and the web server *)

Upstream(x) ==
    /\ upstream[x] < Final
    /\ upstream' = [upstream EXCEPT ![x] = upstream[x] + 1]
    /\ UNCHANGED <<enabled, events, sources, queued, lock, job, faults, accepted>>

\* enqueue_connection drops a job while one with its id is queued or running;
\* the worker of a dead one may not have been missed yet.
Enqueued == IF lock = "run" THEN {queued} ELSE IF lock = "dead" THEN {queued, TRUE} ELSE {TRUE}

\* Mutant: an event is known by its transaction, whatever it says of it.
KnownByTx(e) == \E f \in Event : f.tx = e.tx /\ status[f] # "none"

\* The row's name is a digest of the body: a redelivery finds its row.
Known(e) == status[e] # "none"

\* receive: the bank sends an event once, again, late, or never.  The row is
\* committed before the job is queued, which may fail unnoticed.
Receive(e) ==
    /\ e.version <= upstream[e.tx] /\ e.version \in Told[e.tx]
    /\ enabled
    /\ IF Known(e) THEN UNCHANGED events
       ELSE /\ status' = [status EXCEPT ![e] = "Pending"]
            /\ attempts' = [attempts EXCEPT ![e] = 0]
            /\ wait' = [wait EXCEPT ![e] = 0]
            /\ before' = Placed(e, 0)
    /\ accepted' = accepted \cup {e}
    /\ queued' \in Enqueued \cup {queued}
    /\ UNCHANGED <<bank, sources, lock, job, faults>>

\* activate and pause, while no job holds the lock; activate queues a job.
SetEnabled(b) ==
    /\ lock = "free"
    /\ enabled' = b
    /\ IF b THEN queued' \in Enqueued ELSE UNCHANGED queued
    /\ UNCHANGED <<upstream, events, sources, lock, job, faults, accepted>>

-----------------------------------------------------------------------------
(* The scheduler and the clock *)

\* Every quarter of an hour, and sync_now.
Schedule ==
    /\ enabled
    /\ queued' \in Enqueued
    /\ UNCHANGED <<bank, events, sources, lock, job, faults, accepted>>

Minus1(f) == [k \in DOMAIN f |-> IF f[k] = 0 THEN 0 ELSE f[k] - 1]

Tick ==
    /\ wait' = Minus1(wait)
    /\ rest' = Minus1(rest)
    /\ UNCHANGED <<bank, status, attempts, before, imported, older, queued, lock, job,
                   faults, accepted>>

\* cleanup deletes events that have been Done for long.
Cleanup(e) ==
    /\ status[e] = "Done"
    /\ status' = [status EXCEPT ![e] = "none"]
    /\ UNCHANGED <<bank, attempts, wait, before, sources, queued, lock, job, faults, accepted>>

-----------------------------------------------------------------------------
(* A run of the job *)

At(phase, step) == job.phase = phase /\ job.step = step

Enter(phase) == job' = [NoJob EXCEPT !.phase = phase, !.step = "list"]

\* The job finds the lock taken, the connection disabled, or goes to work.
StartRun ==
    /\ queued
    /\ queued' = FALSE
    /\ \/ /\ lock = "free" /\ enabled
          /\ lock' = "run"
          /\ Enter("poll")
       \/ /\ lock = "dead" \/ (lock = "free" /\ ~enabled)
          /\ UNCHANGED <<lock, job>>
    /\ UNCHANGED <<bank, events, sources, faults, accepted>>

\* poll, and backfill, audit and recent recheck: see FeedSync.  Reading and
\* importing are one step: nobody else imports meanwhile.
ReadFeed(x) ==
    /\ job.phase \in {"poll", "rest"}
    /\ upstream[x] > 0 /\ ~Raises(x, upstream[x])
    /\ Ingest(x, upstream[x])
    /\ UNCHANGED <<bank, events, queued, lock, job, faults, accepted>>

EndPoll ==
    /\ job.phase = "poll"
    /\ Enter("inbox")
    /\ UNCHANGED <<bank, events, sources, queued, lock, faults, accepted>>

ListInbox ==
    /\ At("inbox", "list")
    /\ \E batch \in SUBSET Due :
          /\ IsBatch(batch, Due, before, BatchSize)
          /\ job' = [job EXCEPT !.step = "fetch", !.todo = batch]
    /\ UNCHANGED <<bank, events, sources, queued, lock, faults, accepted>>

FetchEvent ==
    /\ At("inbox", "fetch")
    /\ \E e \in job.todo :
          /\ First(e, job.todo, before)
          /\ job' = [job EXCEPT !.step = "save", !.item = e, !.got = upstream[e.tx]]
    /\ UNCHANGED <<bank, events, sources, queued, lock, faults, accepted>>

PersistEvent ==
    /\ At("inbox", "save")
    /\ ~Raises(job.item.tx, job.got)
    /\ Ingest(job.item.tx, job.got)
    /\ job' = [job EXCEPT !.step = "mark"]
    /\ UNCHANGED <<bank, events, queued, lock, faults, accepted>>

\* Done is a commit of its own, after the import's.
MarkDone ==
    /\ At("inbox", "mark")
    /\ status' = [status EXCEPT ![job.item] = "Done"]
    /\ before' = Without({job.item}, before)
    /\ job' = [NoJob EXCEPT !.phase = "inbox", !.step = "fetch", !.todo = job.todo \ {job.item}]
    /\ UNCHANGED <<bank, attempts, wait, sources, queued, lock, faults, accepted>>

Fault == faults < MaxFaults /\ faults' = faults + 1

\* A failure defers the event and ends the phase.
EventFails ==
    /\ job.phase = "inbox" /\ job.step \in {"save", "mark"}
    /\ \/ job.step = "save" /\ Raises(job.item.tx, job.got) /\ UNCHANGED faults
       \/ Fault
    /\ Reschedule(job.item)
    /\ Enter("pending")
    /\ UNCHANGED <<bank, sources, queued, lock, accepted>>

EndInbox ==
    /\ At("inbox", "fetch") /\ job.todo = {}
    /\ Enter("pending")
    /\ UNCHANGED <<bank, events, sources, queued, lock, faults, accepted>>

ListPending ==
    /\ At("pending", "list")
    /\ \E batch \in SUBSET Recheckable :
          /\ IsBatch(batch, Recheckable, older, BatchSize)
          /\ job' = [job EXCEPT !.step = "recheck", !.rows = batch]
    /\ UNCHANGED <<bank, events, sources, queued, lock, faults, accepted>>

\* Mutant: a recheck that failed leaves last_checked alone.
RotateNever(x) == UNCHANGED sources

Rotate(x) == Checked(x) /\ UNCHANGED imported

\* Fetching and importing are one step, as in ReadFeed; a failure does not end
\* the phase.
Recheck(x) ==
    /\ At("pending", "recheck")
    /\ First(x, job.rows, older)
    /\ job' = [job EXCEPT !.rows = job.rows \ {x}]
    /\ \/ ~Raises(x, upstream[x]) /\ Ingest(x, upstream[x]) /\ UNCHANGED faults
       \/ Raises(x, upstream[x]) /\ Rotate(x) /\ UNCHANGED faults
       \/ Fault /\ Rotate(x)
    /\ UNCHANGED <<bank, events, queued, lock, accepted>>

EndPending ==
    /\ At("pending", "recheck") /\ job.rows = {}
    /\ Enter("rest")
    /\ UNCHANGED <<bank, events, sources, queued, lock, faults, accepted>>

\* Mutant: the lock is not released in the end.
EndRunLocked ==
    /\ job.phase = "rest"
    /\ job' = NoJob
    /\ UNCHANGED <<bank, events, sources, queued, lock, faults, accepted>>

EndRun ==
    /\ job.phase = "rest"
    /\ job' = NoJob
    /\ lock' = "free"
    /\ UNCHANGED <<bank, events, sources, queued, faults, accepted>>

\* The token, the accounts or the maps: the run ends before its first phase.
RunFails ==
    /\ job.phase = "poll"
    /\ Fault
    /\ job' = NoJob
    /\ lock' = "free"
    /\ UNCHANGED <<bank, events, sources, queued, accepted>>

\* What the worker has not committed is gone; its lock stays.
RunDies ==
    /\ lock = "run"
    /\ Fault
    /\ job' = NoJob
    /\ lock' = "dead"
    /\ UNCHANGED <<bank, events, sources, queued, accepted>>

\* Mutant: the lock is taken without a timeout.
LeaseNever ==
    /\ lock = "dead" /\ ~enabled
    /\ lock' = "free"
    /\ UNCHANGED <<bank, events, sources, queued, job, faults, accepted>>

LeaseExpires ==
    /\ lock = "dead"
    /\ lock' = "free"
    /\ UNCHANGED <<bank, events, sources, queued, job, faults, accepted>>

LoseQueue ==
    /\ queued
    /\ Fault
    /\ queued' = FALSE
    /\ UNCHANGED <<bank, events, sources, lock, job, accepted>>

-----------------------------------------------------------------------------

Init ==
    /\ upstream = [x \in Tx |-> 0] /\ enabled = TRUE
    /\ status = [e \in Event |-> "none"] /\ attempts = [e \in Event |-> 0]
    /\ wait = [e \in Event |-> 0] /\ before = {}
    /\ imported = [x \in Tx |-> 0] /\ rest = [x \in Tx |-> 0] /\ older = {}
    /\ queued = FALSE /\ lock = "free" /\ job = NoJob
    /\ faults = 0 /\ accepted = {}

RunStep ==
    \/ EndPoll
    \/ ListInbox \/ FetchEvent \/ PersistEvent \/ MarkDone \/ EventFails \/ EndInbox
    \/ ListPending \/ EndPending \/ EndRun
    \/ \E x \in Tx : Recheck(x)

Next ==
    \/ \E x \in Tx : Upstream(x) \/ ReadFeed(x)
    \/ \E e \in Event : Receive(e) \/ Cleanup(e)
    \/ \E b \in BOOLEAN : SetEnabled(b)
    \/ Schedule \/ StartRun \/ RunStep
    \/ RunFails \/ RunDies \/ LeaseExpires \/ LoseQueue
    \/ Tick

Spec == Init /\ [][Next]_vars

\* The scheduler and the workers keep going, time passes and leases expire.
\* The bank need not notify, and no administrator need act.
FairSpec ==
    /\ Spec
    /\ WF_vars(Schedule) /\ WF_vars(StartRun) /\ WF_vars(RunStep)
    /\ WF_vars(LeaseExpires) /\ WF_vars(Tick)

-----------------------------------------------------------------------------
(* Properties *)

\* Every variable keeps its shape; both queues are ordered, and the lock is
\* held by a job exactly when one runs.
TypeOK ==
    /\ upstream \in [Tx -> 0..Final] /\ enabled \in BOOLEAN
    /\ status \in [Event -> Status]
    /\ attempts \in [Event -> 0..MaxDoubling] /\ wait \in [Event -> 0..MaxWait]
    /\ before \subseteq Event \X Event /\ older \subseteq Tx \X Tx
    /\ \A e, f \in Event : <<e, f>> \in before => Open(e) /\ Open(f) /\ <<f, e>> \notin before
    /\ imported \in [Tx -> 0..Final] /\ rest \in [Tx -> 0..1]
    /\ queued \in BOOLEAN /\ lock \in {"free", "run", "dead"} /\ faults \in 0..MaxFaults
    /\ (lock = "run") = (job # NoJob)
    /\ job.todo \subseteq Event /\ job.rows \subseteq Tx
    /\ job.step \in {"save", "mark"} => job.item \in job.todo /\ Open(job.item)

\* An accepted event is never lost: until what it tells of has been imported
\* (or something later), its row is there to be retried, whatever fails.
AcceptedKept ==
    \A e \in accepted : Open(e) \/ imported[e.tx] >= e.version

\* An accepted event is worked off even if others fail time and again; only
\* what cannot be booked at all stays in the inbox.
EventsWorkedOff ==
    <>[]enabled => \A e \in Event : (Open(e) /\ e.tx \notin Poison) ~> ~Open(e)

\* Without any notification, a transaction that was imported while pending is
\* imported as final once the bank is through with it.
PendingSettles ==
    <>[]enabled =>
        \A x \in Tx \ Poison :
            (imported[x] > 0 /\ upstream[x] = Final) ~> (imported[x] = Final)
=============================================================================
