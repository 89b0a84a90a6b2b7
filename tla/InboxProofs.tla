----------------------------- MODULE InboxProofs -----------------------------
(***************************************************************************)
(* Theorems about Inbox for every set of transactions and events, batch    *)
(* size and backoff, and any number of faults.                             *)
(***************************************************************************)
EXTENDS Inbox, FiniteSetTheorems, TLAPS

JobType ==
    [phase : {"none", "poll", "inbox", "pending", "rest"},
     step : {"none", "list", "fetch", "save", "mark", "recheck"},
     todo : SUBSET Event, item : Event \cup {NoEvent}, got : 0..Final, rows : SUBSET Tx]

\* What the proofs need of the types.
Typed ==
    /\ upstream \in [Tx -> 0..Final] /\ imported \in [Tx -> 0..Final]
    /\ status \in [Event -> Status]
    /\ accepted \subseteq Event
    /\ job \in JobType

\* Only what the bank has reached is accepted, and only accepted events have rows.
AcceptedReached ==
    /\ \A e \in accepted : e.version <= upstream[e.tx]
    /\ \A e \in Event : status[e] # "none" => e \in accepted

\* The job works on open events, and what it has fetched or imported is what
\* the event tells of, or later.
JobInv ==
    /\ \A e \in job.todo : Open(e)
    /\ job.step \in {"save", "mark"} => job.item \in job.todo
    /\ job.step = "save" => job.got \in job.item.version..Final
    /\ job.step = "mark" => imported[job.item.tx] >= job.item.version

InboxInv == Typed /\ AcceptedReached /\ JobInv /\ AcceptedKept

-----------------------------------------------------------------------------

\* Transactions and versions of events are what they should be.
LEMMA EventFields ==
    ASSUME NEW e \in Event
    PROVE  e.tx \in Tx /\ e.version \in 1..Final /\ e.version \in Int
  BY NumberAssumption DEF Event

\* A job that enters a phase, or is over, holds nothing.
LEMMA EntersEmpty ==
    /\ NoJob \in JobType /\ NoJob.todo = {} /\ NoJob.step = "none"
    /\ \A phase \in {"poll", "inbox", "pending", "rest"} :
          Enter(phase) => job' \in JobType /\ job'.todo = {} /\ job'.step = "list"
<1>1. NoJob \in JobType
  BY NumberAssumption DEF NoJob, JobType
<1>2. ASSUME NEW phase \in {"poll", "inbox", "pending", "rest"}, Enter(phase)
      PROVE  job' \in JobType /\ job'.todo = {} /\ job'.step = "list"
  <2>1. NoJob.todo = {}
    BY DEF NoJob
  <2> QED
    BY <1>1, <1>2, <2>1 DEF Enter, JobType
<1>3. NoJob.todo = {} /\ NoJob.step = "none"
  BY DEF NoJob
<1> QED
  BY <1>1, <1>2, <1>3

\* Importing never takes a transaction back.
LEMMA IngestRaises ==
    ASSUME Typed, NEW x \in Tx, NEW version \in 0..Final, Ingest(x, version)
    PROVE  /\ imported' \in [Tx -> 0..Final]
           /\ \A y \in Tx : imported'[y] >= imported[y]
           /\ imported'[x] >= version
<1>1. Final \in Nat
  BY NumberAssumption
<1>2. CASE version < imported[x]
  BY <1>1, <1>2 DEF Ingest, sources, Typed
<1>3. CASE ~(version < imported[x])
  BY <1>1, <1>3 DEF Ingest, Typed
<1> QED
  BY <1>2, <1>3

\* A step that starts no work on an event, and keeps rows and the bank, keeps
\* the invariant as long as imports only grow.
LEMMA QuietStep ==
    ASSUME InboxInv, UNCHANGED <<upstream, status, accepted>>,
           imported' \in [Tx -> 0..Final],
           \A y \in Tx : imported'[y] >= imported[y],
           job' \in JobType,
           \/ job' = job
           \/ job'.todo \subseteq job.todo /\ job'.step \notin {"save", "mark"}
    PROVE  InboxInv'
<1>1. Typed' /\ AcceptedReached'
  BY DEF InboxInv, Typed, AcceptedReached
<1>2. AcceptedKept'
  <2> SUFFICES ASSUME NEW e \in accepted, ~Open(e)
               PROVE  imported'[e.tx] >= e.version
    BY DEF AcceptedKept, Open
  <2>1. e.tx \in Tx /\ e.version \in Int /\ imported[e.tx] >= e.version
    BY EventFields DEF InboxInv, Typed, AcceptedKept
  <2>2. imported[e.tx] \in Int /\ imported'[e.tx] \in Int
    BY <2>1, NumberAssumption DEF InboxInv, Typed
  <2> QED
    BY <2>1, <2>2
<1>3. JobInv'
  <2>1. CASE job' = job
    <3>1. job.step = "mark" => imported'[job.item.tx] >= job.item.version
      <4> SUFFICES ASSUME job.step = "mark" PROVE imported'[job.item.tx] >= job.item.version
        OBVIOUS
      <4>1. job.item \in Event /\ imported[job.item.tx] >= job.item.version
        BY DEF InboxInv, JobInv, Typed, JobType
      <4>2. job.item.tx \in Tx /\ job.item.version \in Int
        BY <4>1, EventFields
      <4>3. imported[job.item.tx] \in Int /\ imported'[job.item.tx] \in Int
        BY <4>2, NumberAssumption DEF InboxInv, Typed
      <4> QED
        BY <4>1, <4>2, <4>3
    <3> QED
      BY <2>1, <3>1 DEF InboxInv, JobInv, Open
  <2>2. CASE job'.todo \subseteq job.todo /\ job'.step \notin {"save", "mark"}
    BY <2>2 DEF InboxInv, JobInv, Open
  <2> QED
    BY <2>1, <2>2
<1> QED
  BY <1>1, <1>2, <1>3 DEF InboxInv

\* An import that is no event's.
LEMMA ImportStep ==
    ASSUME InboxInv, NEW x \in Tx, Ingest(x, upstream[x]),
           UNCHANGED <<upstream, status, accepted>>, job' \in JobType,
           \/ job' = job
           \/ job'.todo \subseteq job.todo /\ job'.step \notin {"save", "mark"}
    PROVE  InboxInv'
<1>1. Typed /\ upstream[x] \in 0..Final
  BY DEF InboxInv, Typed
<1> QED
  BY <1>1, IngestRaises, QuietStep

\* A step of the job that leaves every record alone.
LEMMA IdleStep ==
    ASSUME InboxInv, UNCHANGED <<upstream, status, accepted, imported>>,
           job' \in JobType,
           \/ job' = job
           \/ job'.todo \subseteq job.todo /\ job'.step \notin {"save", "mark"}
    PROVE  InboxInv'
<1>1. imported \in [Tx -> 0..Final] /\ Final \in Nat
  BY NumberAssumption DEF InboxInv, Typed
<1>2. \A y \in Tx : imported'[y] >= imported[y]
  BY <1>1
<1> QED
  BY <1>1, <1>2, QuietStep

-----------------------------------------------------------------------------
(* Working off an event *)

\* The inbox hands out open events.
LEMMA ListInboxStep == InboxInv /\ ListInbox => InboxInv'
<1> SUFFICES ASSUME InboxInv, ListInbox PROVE InboxInv'
  OBVIOUS
<1>1. PICK batch \in SUBSET Due : job' = [job EXCEPT !.step = "fetch", !.todo = batch]
  BY DEF ListInbox
<1>2. UNCHANGED <<upstream, imported, status, accepted>>
  BY DEF ListInbox, bank, events, sources
<1>3. job' \in JobType /\ job'.todo = batch /\ job'.step = "fetch"
  BY <1>1 DEF InboxInv, Typed, JobType, Due
<1>4. Typed' /\ JobInv'
  BY <1>2, <1>3 DEF InboxInv, Typed, JobInv, Due, Open
<1>5. AcceptedReached' /\ AcceptedKept'
  BY <1>2 DEF InboxInv, AcceptedReached, AcceptedKept, Open
<1> QED
  BY <1>4, <1>5 DEF InboxInv

\* What is fetched is what the event tells of, or later.
LEMMA FetchEventStep == InboxInv /\ FetchEvent => InboxInv'
<1> SUFFICES ASSUME InboxInv, FetchEvent PROVE InboxInv'
  OBVIOUS
<1>1. PICK e \in job.todo :
          job' = [job EXCEPT !.step = "save", !.item = e, !.got = upstream[e.tx]]
  BY DEF FetchEvent
<1>2. UNCHANGED <<upstream, imported, status, accepted>>
  BY DEF FetchEvent, bank, events, sources
<1>3. e \in Event /\ e \in accepted
  BY DEF InboxInv, Typed, JobType, JobInv, AcceptedReached, Open
<1>4. /\ job' \in JobType
      /\ job'.todo = job.todo /\ job'.step = "save" /\ job'.item = e /\ job'.got = upstream[e.tx]
  <2>1. upstream[e.tx] \in 0..Final
    BY <1>3, EventFields DEF InboxInv, Typed
  <2> QED
    BY <1>1, <1>3, <2>1 DEF InboxInv, Typed, JobType
<1>5. upstream[e.tx] \in e.version..Final
  <2>1. e.tx \in Tx /\ e.version \in Int
    BY <1>3, EventFields
  <2>2. upstream[e.tx] \in 0..Final /\ e.version <= upstream[e.tx]
    BY <1>3, <2>1 DEF InboxInv, Typed, AcceptedReached
  <2> QED
    BY <2>1, <2>2, NumberAssumption
<1>6. Typed' /\ JobInv'
  BY <1>2, <1>4, <1>5 DEF InboxInv, Typed, JobInv, Open
<1>7. AcceptedReached' /\ AcceptedKept'
  BY <1>2 DEF InboxInv, AcceptedReached, AcceptedKept, Open
<1> QED
  BY <1>6, <1>7 DEF InboxInv

\* What has been fetched is imported.
LEMMA PersistEventStep == InboxInv /\ PersistEvent => InboxInv'
<1> SUFFICES ASSUME InboxInv, PersistEvent PROVE InboxInv'
  OBVIOUS
<1> DEFINE e == job.item
<1>1. /\ job.step = "save" /\ Ingest(e.tx, job.got)
      /\ UNCHANGED <<upstream, status, accepted>>
  BY DEF PersistEvent, At, bank, events
<1>2. /\ e \in job.todo /\ e \in Event /\ job.got \in e.version..Final
      /\ e.tx \in Tx /\ e.version \in 1..Final
  BY <1>1, EventFields DEF InboxInv, Typed, JobType, JobInv
<1>3. Final \in Nat /\ job.got \in 0..Final /\ job.got >= e.version
  BY <1>2, NumberAssumption
<1>4. /\ imported' \in [Tx -> 0..Final] /\ imported'[e.tx] >= job.got
      /\ \A y \in Tx : imported'[y] >= imported[y]
  BY <1>1, <1>2, <1>3, IngestRaises DEF InboxInv
<1>5. job' \in JobType /\ job'.todo = job.todo /\ job'.step = "mark" /\ job'.item = e
  BY DEF PersistEvent, InboxInv, Typed, JobType
<1>6. imported'[e.tx] >= e.version
  <2>1. imported'[e.tx] \in Int /\ e.version \in Int /\ job.got \in Int
    BY <1>2, <1>3, <1>4
  <2> QED
    BY <1>3, <1>4, <2>1
<1>7. AcceptedKept'
  <2> SUFFICES ASSUME NEW f \in accepted, ~Open(f)
               PROVE  imported'[f.tx] >= f.version
    BY <1>1 DEF AcceptedKept, Open
  <2>1. f.tx \in Tx /\ f.version \in Int /\ imported[f.tx] >= f.version
    BY EventFields DEF InboxInv, Typed, AcceptedKept
  <2>2. imported[f.tx] \in Int /\ imported'[f.tx] \in Int
    BY <1>3, <1>4, <2>1 DEF InboxInv, Typed
  <2> QED
    BY <1>4, <2>1, <2>2
<1>8. Typed' /\ AcceptedReached'
  BY <1>1, <1>4, <1>5 DEF InboxInv, Typed, AcceptedReached
<1>9. JobInv'
  BY <1>1, <1>2, <1>5, <1>6 DEF InboxInv, JobInv, Open
<1> QED
  BY <1>7, <1>8, <1>9 DEF InboxInv

\* An event that is done has been imported.
LEMMA MarkDoneStep == InboxInv /\ MarkDone => InboxInv'
<1> SUFFICES ASSUME InboxInv, MarkDone PROVE InboxInv'
  OBVIOUS
<1> DEFINE e == job.item
<1>1. /\ job.step = "mark" /\ status' = [status EXCEPT ![e] = "Done"]
      /\ UNCHANGED <<upstream, imported, accepted>>
  BY DEF MarkDone, At, bank, sources
<1>2. e \in job.todo /\ e \in Event /\ Open(e) /\ imported[e.tx] >= e.version
  BY <1>1 DEF InboxInv, Typed, JobType, JobInv
<1>3. job' \in JobType /\ job'.todo = job.todo \ {e} /\ job'.step = "fetch"
  <2>1. job.todo \subseteq Event
    BY DEF InboxInv, Typed, JobType
  <2> QED
    BY <2>1, EntersEmpty DEF MarkDone, JobType
<1>4. /\ status' \in [Event -> Status]
      /\ \A f \in Event \ {e} : status'[f] = status[f]
      /\ e \in accepted
  BY <1>1, <1>2 DEF InboxInv, Typed, Status, Open, AcceptedReached
<1>5. Typed' /\ AcceptedReached'
  BY <1>1, <1>3, <1>4 DEF InboxInv, Typed, AcceptedReached
<1>6. JobInv'
  BY <1>3, <1>4 DEF InboxInv, Typed, JobType, JobInv, Open
<1>7. AcceptedKept'
  BY <1>1, <1>2, <1>4 DEF InboxInv, Typed, AcceptedKept, Open
<1> QED
  BY <1>5, <1>6, <1>7 DEF InboxInv

\* An event that fails stays open.
LEMMA EventFailsStep == InboxInv /\ EventFails => InboxInv'
<1> SUFFICES ASSUME InboxInv, EventFails PROVE InboxInv'
  OBVIOUS
<1> DEFINE e == job.item
<1>1. /\ job.step \in {"save", "mark"} /\ status' = [status EXCEPT ![e] = "Retry"]
      /\ Enter("pending")
      /\ UNCHANGED <<upstream, imported, accepted>>
  BY DEF EventFails, Reschedule, bank, sources
<1>2. e \in Event /\ Open(e)
  BY <1>1 DEF InboxInv, Typed, JobType, JobInv
<1>3. /\ status' \in [Event -> Status]
      /\ \A f \in Event : Open(f) => status'[f] \in {"Pending", "Retry"}
      /\ \A f \in Event : status'[f] # "none" => status[f] # "none"
  BY <1>1, <1>2 DEF InboxInv, Typed, Status, Open
<1>4. job' \in JobType /\ job'.todo = {} /\ job'.step = "list"
  BY <1>1, EntersEmpty
<1>5. Typed' /\ AcceptedReached' /\ JobInv'
  BY <1>1, <1>3, <1>4 DEF InboxInv, Typed, AcceptedReached, JobInv
<1>6. AcceptedKept'
  BY <1>1, <1>3 DEF InboxInv, Typed, AcceptedKept, Open
<1> QED
  BY <1>5, <1>6 DEF InboxInv

-----------------------------------------------------------------------------
(* The bank, the web server and the cleanup *)

\* The bank moves on; what was fetched or accepted stays reached.
LEMMA UpstreamStep == \A x \in Tx : InboxInv /\ Upstream(x) => InboxInv'
<1> SUFFICES ASSUME NEW x \in Tx, InboxInv, Upstream(x) PROVE InboxInv'
  OBVIOUS
<1>1. /\ upstream[x] < Final /\ upstream' = [upstream EXCEPT ![x] = upstream[x] + 1]
      /\ UNCHANGED <<imported, status, accepted, job>>
  BY DEF Upstream, events, sources
<1>2. upstream' \in [Tx -> 0..Final] /\ \A y \in Tx : upstream'[y] >= upstream[y]
  BY <1>1, NumberAssumption DEF InboxInv, Typed
<1>3. Typed' /\ JobInv' /\ AcceptedKept'
  BY <1>1, <1>2 DEF InboxInv, Typed, JobInv, AcceptedKept, Open
<1>4. AcceptedReached'
  <2>1. ASSUME NEW e \in accepted PROVE e.version <= upstream'[e.tx]
    <3>1. e.tx \in Tx /\ e.version \in Int /\ e.version <= upstream[e.tx]
      BY EventFields DEF InboxInv, Typed, AcceptedReached
    <3>2. upstream[e.tx] \in Int /\ upstream'[e.tx] \in Int
      BY <1>2, <3>1, NumberAssumption DEF InboxInv, Typed
    <3> QED
      BY <1>2, <3>1, <3>2
  <2> QED
    BY <1>1, <2>1 DEF InboxInv, AcceptedReached
<1> QED
  BY <1>3, <1>4 DEF InboxInv

\* An accepted event is open, or its row is known and it was accepted before.
LEMMA ReceiveStep == \A e \in Event : InboxInv /\ Receive(e) => InboxInv'
<1> SUFFICES ASSUME NEW e \in Event, InboxInv, Receive(e) PROVE InboxInv'
  OBVIOUS
<1>1. /\ e.version <= upstream[e.tx] /\ accepted' = accepted \cup {e}
      /\ UNCHANGED <<upstream, imported, job>>
  BY DEF Receive, bank, sources
<1>2. CASE Known(e)
  <2>1. e \in accepted /\ status' = status
    BY <1>2 DEF Receive, events, Known, InboxInv, AcceptedReached
  <2>2. accepted' = accepted
    BY <1>1, <2>1
  <2>3. job' \in JobType
    BY <1>1 DEF InboxInv, Typed
  <2> QED
    BY <1>1, <2>1, <2>2, <2>3, IdleStep
<1>3. CASE ~Known(e)
  <2>1. status' = [status EXCEPT ![e] = "Pending"]
    BY <1>3 DEF Receive
  <2>2. /\ status' \in [Event -> Status] /\ status'[e] = "Pending"
        /\ \A f \in Event \ {e} : status'[f] = status[f]
    BY <2>1 DEF InboxInv, Typed, Status
  <2>3. Typed' /\ AcceptedReached'
    BY <1>1, <2>2 DEF InboxInv, Typed, AcceptedReached
  <2>4. JobInv'
    BY <1>1, <2>2 DEF InboxInv, Typed, JobType, JobInv, Open
  <2>5. AcceptedKept'
    BY <1>1, <2>2 DEF InboxInv, Typed, AcceptedKept, Open
  <2> QED
    BY <2>3, <2>4, <2>5 DEF InboxInv
<1> QED
  BY <1>2, <1>3

\* Only what is done, thus imported, is forgotten.
LEMMA CleanupStep == \A e \in Event : InboxInv /\ Cleanup(e) => InboxInv'
<1> SUFFICES ASSUME NEW e \in Event, InboxInv, Cleanup(e) PROVE InboxInv'
  OBVIOUS
<1>1. /\ status[e] = "Done" /\ status' = [status EXCEPT ![e] = "none"]
      /\ UNCHANGED <<upstream, imported, accepted, job>>
  BY DEF Cleanup, bank, sources
<1>2. /\ status' \in [Event -> Status] /\ ~Open(e) /\ status'[e] = "none"
      /\ \A f \in Event \ {e} : status'[f] = status[f]
  BY <1>1 DEF InboxInv, Typed, Status, Open
<1>3. Typed' /\ AcceptedReached'
  BY <1>1, <1>2 DEF InboxInv, Typed, AcceptedReached
<1>4. JobInv'
  BY <1>1, <1>2 DEF InboxInv, Typed, JobType, JobInv, Open
<1>5. AcceptedKept'
  BY <1>1, <1>2 DEF InboxInv, Typed, AcceptedKept, Open
<1> QED
  BY <1>3, <1>4, <1>5 DEF InboxInv

-----------------------------------------------------------------------------
(* The theorems *)

\* Nothing is known when the connection is set up.
LEMMA InitInbox == Init => InboxInv
  BY NumberAssumption, EntersEmpty DEF Init, InboxInv, Typed, AcceptedReached, JobInv, AcceptedKept,
     Status, Open

\* Every step of the bank, the web server and the job keeps the invariant.
LEMMA StepInbox == InboxInv /\ [Next]_vars => InboxInv'
<1> SUFFICES ASSUME InboxInv, [Next]_vars PROVE InboxInv'
  OBVIOUS
<1>0. job \in JobType
  BY DEF InboxInv, Typed
<1>1. ASSUME NEW x \in Tx, ReadFeed(x) PROVE InboxInv'
  BY <1>0, <1>1, ImportStep DEF ReadFeed, bank, events
<1>2. ASSUME NEW x \in Tx, Recheck(x) PROVE InboxInv'
  <2>1. /\ job' \in JobType /\ job'.todo \subseteq job.todo /\ job'.step \notin {"save", "mark"}
        /\ UNCHANGED <<upstream, status, accepted>>
    BY <1>0, <1>2 DEF Recheck, At, bank, events, JobType
  <2>2. CASE Ingest(x, upstream[x])
    BY <2>1, <2>2, ImportStep
  <2>3. CASE Rotate(x)
    BY <2>1, <2>3, IdleStep DEF Rotate
  <2> QED
    BY <1>2, <2>2, <2>3 DEF Recheck
<1>3. ASSUME NEW b \in BOOLEAN, SetEnabled(b) PROVE InboxInv'
  BY <1>0, <1>3, IdleStep DEF SetEnabled, events, sources
<1>4. CASE Schedule \/ Tick \/ LeaseExpires \/ LoseQueue
  BY <1>0, <1>4, IdleStep DEF Schedule, Tick, LeaseExpires, LoseQueue, bank, events, sources
<1>5. CASE StartRun
  BY <1>0, <1>5, IdleStep, EntersEmpty DEF StartRun, bank, events, sources
<1>6. CASE EndPoll \/ EndInbox \/ EndPending
  BY <1>0, <1>6, IdleStep, EntersEmpty DEF EndPoll, EndInbox, EndPending, bank, events, sources
<1>7. CASE EndRun \/ RunFails \/ RunDies
  BY <1>0, <1>7, IdleStep, EntersEmpty DEF EndRun, RunFails, RunDies, bank, events, sources
<1>8. CASE ListPending
  <2>1. job' \in JobType /\ job'.todo \subseteq job.todo /\ job'.step \notin {"save", "mark"}
    BY <1>0, <1>8 DEF ListPending, Recheckable, JobType
  <2> QED
    BY <1>8, <2>1, IdleStep DEF ListPending, bank, events, sources
<1>9. CASE UNCHANGED vars
  BY <1>0, <1>9, IdleStep DEF vars, bank, events, sources
<1> QED
  BY <1>1, <1>2, <1>3, <1>4, <1>5, <1>6, <1>7, <1>8, <1>9, ListInboxStep, FetchEventStep,
     PersistEventStep, MarkDoneStep, EventFailsStep, UpstreamStep, ReceiveStep, CleanupStep
     DEF Next, RunStep

\* The inductive invariant holds throughout.
THEOREM InboxInvariant == Spec => []InboxInv
<1> QED
  BY InitInbox, StepInbox, PTL DEF Spec

\* No accepted event is lost, whatever fails and however often: its row is
\* open until what it tells of has been imported.
THEOREM NoEventLost == Spec => []AcceptedKept
<1>1. InboxInv => AcceptedKept
  BY DEF InboxInv
<1> QED
  BY <1>1, InboxInvariant, PTL

-----------------------------------------------------------------------------
(* The lock, the countdowns and the order of the two queues *)

\* The switches and the lock.
LockTyped ==
    /\ enabled \in BOOLEAN /\ queued \in BOOLEAN
    /\ lock \in {"free", "run", "dead"} /\ faults \in 0..MaxFaults

\* A job runs exactly while the lock is its own.
LockInv ==
    /\ (lock = "run") = (job # NoJob)
    /\ job.phase = "none" => job = NoJob

\* What is to be rechecked has been imported, and thus exists at the bank.
RowsInv ==
    /\ \A x \in job.rows : imported[x] > 0
    /\ \A x \in Tx : imported[x] <= upstream[x]
    /\ job.step = "save" => job.got <= upstream[job.item.tx]

\* The open events are ordered by the time of their next attempt: the order is
\* strict and transitive, never against the countdowns, and it decides between
\* any two events whose countdowns differ.
BeforeInv ==
    /\ before \subseteq Event \X Event
    /\ \A e, f \in Event :
          <<e, f>> \in before => Open(e) /\ Open(f) /\ <<f, e>> \notin before /\ wait[e] <= wait[f]
    /\ \A e, f \in Event : Open(e) /\ Open(f) /\ wait[e] < wait[f] => <<e, f>> \in before
    /\ \A e, f, g \in Event : <<e, f>> \in before /\ <<f, g>> \in before => <<e, g>> \in before

Kept == {x \in Tx : imported[x] > 0}

\* The source transactions are totally ordered by the time of their last check.
OlderInv ==
    /\ older \subseteq Kept \X Kept
    /\ \A x, y \in Tx : <<x, y>> \in older => <<y, x>> \notin older /\ rest[x] <= rest[y]
    /\ \A x, y \in Kept : x # y => <<x, y>> \in older \/ <<y, x>> \in older
    /\ \A x, y, z \in Tx : <<x, y>> \in older /\ <<y, z>> \in older => <<x, z>> \in older

EventQueueInv ==
    /\ attempts \in [Event -> 0..MaxDoubling] /\ wait \in [Event -> 0..MaxWait]
    /\ BeforeInv

SourceQueueInv == rest \in [Tx -> 0..1] /\ OlderInv

QueueInv == RowsInv /\ LockTyped /\ LockInv /\ EventQueueInv /\ SourceQueueInv

-----------------------------------------------------------------------------
(* The job and its lock *)

\* What a job that begins, enters a phase or ends has of rows, and which phase.
LEMMA EntersPhase ==
    /\ NoJob.rows = {} /\ NoJob.phase = "none"
    /\ \A phase \in {"poll", "inbox", "pending", "rest"} :
          Enter(phase) => job'.rows = {} /\ job'.phase = phase /\ job' # NoJob
<1>1. NoJob.rows = {} /\ NoJob.phase = "none"
  BY DEF NoJob
<1>2. ASSUME NEW phase \in {"poll", "inbox", "pending", "rest"}, Enter(phase)
      PROVE  job'.rows = {} /\ job'.phase = phase
  BY <1>2 DEF Enter, NoJob
<1> QED
  BY <1>1, <1>2

\* What the job has read of an event exists at the bank.
LEMMA ItemExists ==
    ASSUME InboxInv, job.step = "save"
    PROVE  job.item \in Event /\ job.item.tx \in Tx /\ job.got \in 1..Final
<1>1. job.item \in Event /\ job.got \in job.item.version..Final
  BY DEF InboxInv, Typed, JobType, JobInv
<1>2. job.item.tx \in Tx /\ job.item.version \in 1..Final
  BY <1>1, EventFields
<1> QED
  BY <1>1, <1>2, NumberAssumption

\* The job imports and rechecks only what exists.
LEMMA StepRows == InboxInv /\ RowsInv /\ [Next]_vars => RowsInv'
<1> SUFFICES ASSUME InboxInv, RowsInv, [Next]_vars PROVE RowsInv'
  OBVIOUS
<1>0. /\ job \in JobType /\ Final \in Nat
      /\ \A y \in Tx : upstream[y] \in 0..Final /\ imported[y] \in 0..Final
      /\ upstream \in [Tx -> 0..Final] /\ imported \in [Tx -> 0..Final]
  BY NumberAssumption DEF InboxInv, Typed
<1>1. ASSUME NEW x \in Tx, NEW version \in 1..upstream[x], Ingest(x, version),
             UNCHANGED upstream, job'.rows \subseteq job.rows, job'.step # "save"
      PROVE  RowsInv'
  <2>1. CASE version < imported[x]
    BY <1>1, <2>1 DEF Ingest, sources, RowsInv
  <2>2. CASE ~(version < imported[x])
    <3>1. imported' = [imported EXCEPT ![x] = version]
      BY <1>1, <2>2 DEF Ingest
    <3>2. imported'[x] = version /\ \A y \in Tx \ {x} : imported'[y] = imported[y]
      BY <1>0, <3>1
    <3>3. \A y \in job.rows : y \in Tx
      BY <1>0 DEF JobType
    <3> QED
      BY <1>0, <1>1, <3>2, <3>3 DEF RowsInv
  <2> QED
    BY <2>1, <2>2
<1>2. /\ UNCHANGED <<upstream, imported, job>> => RowsInv'
      /\ UNCHANGED <<upstream, imported>> /\ job'.rows \subseteq job.rows /\ job'.step # "save"
            => RowsInv'
  BY DEF RowsInv
<1>3. ASSUME NEW x \in Tx, Upstream(x) PROVE RowsInv'
  <2>1. /\ upstream' = [upstream EXCEPT ![x] = upstream[x] + 1]
        /\ UNCHANGED <<imported, job>>
    BY <1>3 DEF Upstream, sources
  <2>2. \A y \in Tx : upstream'[y] \in Int /\ upstream'[y] >= upstream[y]
    BY <1>0, <2>1
  <2>3. job.step = "save" => job.item.tx \in Tx /\ job.got \in Int
    BY ItemExists
  <2> QED
    BY <1>0, <2>1, <2>2, <2>3 DEF RowsInv
<1>4. ASSUME NEW x \in Tx, ReadFeed(x) PROVE RowsInv'
  <2>1. /\ upstream[x] > 0 /\ Ingest(x, upstream[x]) /\ UNCHANGED <<upstream, job>>
        /\ job.phase \in {"poll", "rest"}
    BY <1>4 DEF ReadFeed, bank
  <2>2. CASE upstream[x] < imported[x]
    BY <1>2, <2>1, <2>2 DEF Ingest, sources
  <2>3. CASE ~(upstream[x] < imported[x])
    <3>1. imported' = [imported EXCEPT ![x] = upstream[x]]
      BY <2>1, <2>3 DEF Ingest
    <3>2. imported'[x] = upstream[x] /\ \A y \in Tx \ {x} : imported'[y] = imported[y]
      BY <1>0, <3>1
    <3>3. \A y \in job.rows : y \in Tx
      BY <1>0 DEF JobType
    <3> QED
      BY <1>0, <2>1, <3>2, <3>3 DEF RowsInv
  <2> QED
    BY <2>2, <2>3
<1>5. ASSUME NEW x \in Tx, Recheck(x) PROVE RowsInv'
  <2>1. x \in job.rows /\ upstream[x] \in 1..upstream[x]
    BY <1>0, <1>5 DEF Recheck, First, RowsInv
  <2>2. /\ job'.rows \subseteq job.rows /\ job'.step # "save" /\ UNCHANGED upstream
    BY <1>0, <1>5 DEF Recheck, At, bank, JobType
  <2>3. CASE Ingest(x, upstream[x])
    BY <1>1, <2>1, <2>2, <2>3
  <2>4. CASE Rotate(x)
    BY <1>2, <2>2, <2>4 DEF Rotate
  <2> QED
    BY <1>5, <2>3, <2>4 DEF Recheck
<1>6. CASE PersistEvent
  <2>1. /\ job.step = "save" /\ Ingest(job.item.tx, job.got) /\ UNCHANGED upstream
        /\ job' = [job EXCEPT !.step = "mark"]
    BY <1>6 DEF PersistEvent, At, bank
  <2>2. job.item.tx \in Tx /\ job.got \in 1..upstream[job.item.tx]
    BY <1>0, <2>1, ItemExists DEF RowsInv
  <2>3. job'.rows = job.rows /\ job'.step = "mark"
    BY <1>0, <2>1 DEF JobType
  <2> QED
    BY <1>1, <2>1, <2>2, <2>3
<1>7. CASE FetchEvent
  <2>1. PICK e \in job.todo :
            job' = [job EXCEPT !.step = "save", !.item = e, !.got = upstream[e.tx]]
    BY <1>7 DEF FetchEvent
  <2>2. e \in Event /\ e.tx \in Tx
    BY <1>0, EventFields DEF JobType
  <2>3. job'.rows = job.rows /\ job'.got = upstream[e.tx] /\ job'.item = e
    BY <1>0, <2>1 DEF JobType
  <2>4. UNCHANGED <<upstream, imported>>
    BY <1>7 DEF FetchEvent, bank, sources
  <2> QED
    BY <1>0, <2>2, <2>3, <2>4 DEF RowsInv
<1>8. CASE ListPending
  <2>1. PICK batch \in SUBSET Recheckable : job' = [job EXCEPT !.step = "recheck", !.rows = batch]
    BY <1>8 DEF ListPending
  <2>2. job'.rows = batch /\ job'.step = "recheck" /\ UNCHANGED <<upstream, imported>>
    BY <1>0, <1>8, <2>1 DEF ListPending, bank, sources, JobType
  <2>3. \A x \in Recheckable : x \in Tx /\ imported[x] > 0
    BY <1>0 DEF Recheckable
  <2> QED
    BY <2>2, <2>3 DEF RowsInv
<1>9. CASE ListInbox
  BY <1>0, <1>2, <1>9 DEF ListInbox, bank, sources, JobType
<1>10. CASE EndPoll \/ EndInbox \/ EndPending \/ EventFails
  BY <1>2, <1>10, EntersPhase, EntersEmpty DEF EndPoll, EndInbox, EndPending, EventFails, bank, sources
<1>11. CASE EndRun \/ RunFails \/ RunDies \/ MarkDone
  <2>1. CASE MarkDone
    BY <1>2, <2>1, EntersPhase DEF MarkDone, bank, sources, NoJob
  <2>2. CASE EndRun \/ RunFails \/ RunDies
    BY <1>2, <2>2, EntersPhase, EntersEmpty DEF EndRun, RunFails, RunDies, bank, sources
  <2> QED
    BY <1>11, <2>1, <2>2
<1>12. CASE StartRun
  BY <1>2, <1>12, EntersPhase, EntersEmpty DEF StartRun, bank, sources
<1>13. ASSUME \/ \E e \in Event : Receive(e) \/ Cleanup(e)
              \/ \E b \in BOOLEAN : SetEnabled(b)
              \/ Schedule \/ LeaseExpires \/ LoseQueue \/ Tick \/ UNCHANGED vars
       PROVE  RowsInv'
  BY <1>2, <1>13 DEF Receive, Cleanup, SetEnabled, Schedule, LeaseExpires, LoseQueue, Tick, vars,
     bank, sources
<1> QED
  BY <1>3, <1>4, <1>5, <1>6, <1>7, <1>8, <1>9, <1>10, <1>11, <1>12, <1>13 DEF Next, RunStep

\* A job runs exactly while the lock is its own, whatever else happens.
LEMMA StepLock == LockTyped /\ LockInv /\ InboxInv /\ [Next]_vars => LockTyped' /\ LockInv'
<1> SUFFICES ASSUME LockTyped, LockInv, InboxInv, [Next]_vars PROVE LockTyped' /\ LockInv'
  OBVIOUS
<1>0. job \in JobType /\ NoJob.phase = "none" /\ NoJob.step = "none"
  BY EntersPhase, EntersEmpty DEF InboxInv, Typed
<1>1. Enqueued \subseteq BOOLEAN
  BY DEF Enqueued, LockTyped
<1>2. ASSUME Fault PROVE faults' \in 0..MaxFaults
  BY <1>2, NumberAssumption DEF Fault, LockTyped
<1>3. ASSUME lock' = lock, job.phase # "none", job'.phase # "none" PROVE LockInv'
  BY <1>0, <1>3 DEF LockInv
<1>4. ASSUME UNCHANGED <<lock, job>> PROVE LockInv'
  BY <1>4 DEF LockInv
<1>5. ASSUME \/ \E x \in Tx : Upstream(x) \/ ReadFeed(x)
             \/ \E e \in Event : Receive(e) \/ Cleanup(e)
             \/ \E b \in BOOLEAN : SetEnabled(b)
             \/ Schedule \/ LoseQueue \/ Tick \/ UNCHANGED vars
      PROVE  LockTyped' /\ LockInv'
  <2>1. UNCHANGED <<lock, job>>
    BY <1>5 DEF Upstream, ReadFeed, Receive, Cleanup, SetEnabled, Schedule, LoseQueue, Tick, vars, bank
  <2>2. LockTyped'
    BY <1>1, <1>2, <1>5 DEF Upstream, ReadFeed, Receive, Cleanup, SetEnabled, Schedule, LoseQueue,
       Tick, vars, bank, LockTyped
  <2> QED
    BY <1>4, <2>1, <2>2
<1>6. CASE StartRun
  <2>1. LockTyped'
    BY <1>6 DEF StartRun, LockTyped, bank
  <2>2. LockInv'
    BY <1>0, <1>6, EntersPhase DEF StartRun, LockInv
  <2> QED
    BY <2>1, <2>2
<1>7. CASE EndRun \/ RunFails \/ RunDies \/ LeaseExpires
  <2>1. LockTyped'
    BY <1>2, <1>7 DEF EndRun, RunFails, RunDies, LeaseExpires, LockTyped, bank
  <2>2. LockInv'
    BY <1>0, <1>7 DEF EndRun, RunFails, RunDies, LeaseExpires, LockInv
  <2> QED
    BY <2>1, <2>2
<1>8. CASE EndPoll \/ EventFails \/ EndInbox \/ EndPending
  <2>1. LockTyped'
    BY <1>2, <1>8 DEF EndPoll, EventFails, EndInbox, EndPending, LockTyped, bank
  <2>2. lock' = lock /\ job.phase # "none" /\ job'.phase # "none"
    BY <1>8, EntersPhase DEF EndPoll, EventFails, EndInbox, EndPending, At
  <2> QED
    BY <1>3, <2>1, <2>2
<1>9. CASE ListInbox \/ FetchEvent \/ PersistEvent \/ MarkDone \/ ListPending \/ \E x \in Tx : Recheck(x)
  <2>1. LockTyped'
    BY <1>2, <1>9 DEF ListInbox, FetchEvent, PersistEvent, MarkDone, ListPending, Recheck, LockTyped, bank
  <2>2. lock' = lock /\ job.phase # "none"
    BY <1>9 DEF ListInbox, FetchEvent, PersistEvent, MarkDone, ListPending, Recheck, At
  <2>3. job'.phase = job.phase
    <3>1. CASE MarkDone
      BY <1>0, <3>1 DEF MarkDone, At, NoJob
    <3>2. CASE ListInbox \/ FetchEvent \/ PersistEvent \/ ListPending \/ \E x \in Tx : Recheck(x)
      BY <1>0, <3>2 DEF ListInbox, FetchEvent, PersistEvent, ListPending, Recheck, JobType
    <3> QED
      BY <1>9, <3>1, <3>2
  <2> QED
    BY <1>3, <2>1, <2>2, <2>3
<1> QED
  BY <1>5, <1>6, <1>7, <1>8, <1>9 DEF Next, RunStep

-----------------------------------------------------------------------------
(* The order of the events *)

\* No backoff exceeds its maximum.
LEMMA BackoffBounded == \A tries \in 0..MaxDoubling : Backoff(tries) \in 0..MaxWait
<1> SUFFICES ASSUME NEW tries \in 0..MaxDoubling PROVE Backoff(tries) \in 0..MaxWait
  OBVIOUS
<1>1. tries \in Nat /\ MaxWait \in Nat
  BY NumberAssumption
<1>2. 2 ^ tries \in Nat
  \* It is the number of subsets of a set.
  <2>1. IsFiniteSet(1..tries) /\ Cardinality(1..tries) = tries
    BY <1>1, FS_Interval
  <2> QED
    BY <2>1, FS_SUBSET, FS_CardinalityType
<1> QED
  BY <1>1, <1>2 DEF Backoff, Lower

\* A countdown only goes down, stays a countdown and keeps every order.
LEMMA CountsDown ==
    ASSUME NEW Key, NEW n \in Nat, NEW f \in [Key -> 0..n]
    PROVE  /\ Minus1(f) \in [Key -> 0..n]
           /\ \A k, l \in Key : f[k] <= f[l] => Minus1(f)[k] <= Minus1(f)[l]
           /\ \A k, l \in Key : Minus1(f)[k] < Minus1(f)[l] => f[k] < f[l]
<1>1. \A k \in Key : f[k] \in 0..n /\ Minus1(f)[k] = IF f[k] = 0 THEN 0 ELSE f[k] - 1
  BY DEF Minus1
<1>2. Minus1(f) \in [Key -> 0..n]
  BY DEF Minus1
<1> QED
  BY <1>1, <1>2

\* What Placed relates: others as before, and e by when it is due.
LEMMA PlacedPairs ==
    ASSUME before \subseteq Event \X Event, NEW e \in Event, NEW ticks \in 0..MaxWait
    PROVE  /\ Placed(e, ticks) \subseteq Event \X Event
           /\ <<e, e>> \notin Placed(e, ticks)
           /\ \A f, g \in Event \ {e} : <<f, g>> \in Placed(e, ticks) <=> <<f, g>> \in before
           /\ \A f \in Event \ {e} :
                 /\ <<f, e>> \in Placed(e, ticks) <=> Open(f) /\ (wait[f] = 0 \/ wait[f] < ticks)
                 /\ <<e, f>> \in Placed(e, ticks) <=> Open(f) /\ wait[f] > ticks
  BY DEF Placed, Without

\* An event that is placed anew finds its place in the order.
LEMMA PlacedOrders ==
    ASSUME BeforeInv, wait \in [Event -> 0..MaxWait],
           NEW e \in Event, NEW ticks \in 0..MaxWait,
           before' = Placed(e, ticks), wait' = [wait EXCEPT ![e] = ticks],
           \A f \in Event \ {e} : status'[f] = status[f], status'[e] \in {"Pending", "Retry"}
    PROVE  BeforeInv'
<1>1. /\ \A f, g \in Event \ {e} : <<f, g>> \in before' <=> <<f, g>> \in before
      /\ \A f \in Event \ {e} :
            /\ <<f, e>> \in before' <=> Open(f) /\ (wait[f] = 0 \/ wait[f] < ticks)
            /\ <<e, f>> \in before' <=> Open(f) /\ wait[f] > ticks
      /\ before' \subseteq Event \X Event /\ <<e, e>> \notin before'
  BY PlacedPairs DEF BeforeInv
<1>2. \A f \in Event : wait[f] \in 0..MaxWait
  OBVIOUS
<1>3. wait'[e] = ticks /\ \A f \in Event \ {e} : wait'[f] = wait[f]
  OBVIOUS
<1>4. Open(e)' /\ \A f \in Event \ {e} : Open(f)' <=> Open(f)
  BY DEF Open
<1>5. MaxWait \in Nat /\ ticks \in Nat
  BY NumberAssumption
<1>6. ASSUME NEW f \in Event, NEW g \in Event, <<f, g>> \in before'
      PROVE  Open(f)' /\ Open(g)' /\ <<g, f>> \notin before' /\ wait'[f] <= wait'[g]
  <2>1. CASE f = e
    BY <1>1, <1>2, <1>3, <1>4, <1>5, <1>6, <2>1
  <2>2. CASE g = e
    BY <1>1, <1>2, <1>3, <1>4, <1>5, <1>6, <2>2
  <2>3. CASE f # e /\ g # e
    BY <1>1, <1>3, <1>4, <1>6, <2>3 DEF BeforeInv
  <2> QED
    BY <2>1, <2>2, <2>3
<1>7. ASSUME NEW f \in Event, NEW g \in Event, Open(f)', Open(g)', wait'[f] < wait'[g]
      PROVE  <<f, g>> \in before'
  <2>1. CASE f = e
    <3>1. g # e
      BY <1>3, <1>5, <1>7, <2>1
    <3>2. Open(g) /\ wait[g] > ticks
      BY <1>2, <1>3, <1>4, <1>5, <1>7, <2>1, <3>1
    <3> QED
      BY <1>1, <2>1, <3>1, <3>2
  <2>2. CASE g = e
    <3>1. f # e
      BY <1>3, <1>5, <1>7, <2>2
    <3>2. Open(f) /\ wait[f] < ticks
      BY <1>2, <1>3, <1>4, <1>5, <1>7, <2>2, <3>1
    <3> QED
      BY <1>1, <2>2, <3>1, <3>2
  <2>3. CASE f # e /\ g # e
    BY <1>1, <1>3, <1>4, <1>7, <2>3 DEF BeforeInv
  <2> QED
    BY <2>1, <2>2, <2>3
<1>8. ASSUME NEW f \in Event, NEW g \in Event, NEW h \in Event,
             <<f, g>> \in before', <<g, h>> \in before'
      PROVE  <<f, h>> \in before'
  <2>1. CASE f = e
    <3>1. g # e /\ wait[g] > ticks
      BY <1>1, <1>8, <2>1
    <3>2. h # e
      BY <1>1, <1>2, <1>5, <1>8, <2>1, <3>1
    <3>3. Open(h) /\ wait[g] <= wait[h]
      BY <1>1, <1>8, <3>1, <3>2 DEF BeforeInv
    <3>4. wait[h] > ticks
      BY <1>2, <1>5, <3>1, <3>3
    <3> QED
      BY <1>1, <2>1, <3>2, <3>3, <3>4
  <2>2. CASE g = e
    <3>1. f # e /\ h # e /\ Open(f) /\ Open(h)
      BY <1>1, <1>8, <2>2
    <3>2. (wait[f] = 0 \/ wait[f] < ticks) /\ wait[h] > ticks
      BY <1>1, <1>8, <2>2, <3>1
    <3>3. wait[f] < wait[h]
      BY <1>2, <1>5, <3>1, <3>2
    <3> QED
      BY <1>1, <3>1, <3>3 DEF BeforeInv
  <2>3. CASE h = e
    <3>1. g # e /\ (wait[g] = 0 \/ wait[g] < ticks)
      BY <1>1, <1>8, <2>3
    <3>2. f # e
      BY <1>1, <1>2, <1>5, <1>8, <2>3, <3>1
    <3>3. Open(f) /\ wait[f] <= wait[g]
      BY <1>1, <1>8, <3>1, <3>2 DEF BeforeInv
    <3>4. wait[f] = 0 \/ wait[f] < ticks
      BY <1>2, <1>5, <3>1, <3>3
    <3> QED
      BY <1>1, <2>3, <3>2, <3>3, <3>4
  <2>4. CASE f # e /\ g # e /\ h # e
    BY <1>1, <1>8, <2>4 DEF BeforeInv
  <2> QED
    BY <2>1, <2>2, <2>3, <2>4
<1> QED
  BY <1>1, <1>6, <1>7, <1>8 DEF BeforeInv

\* An event that is done leaves the order.
LEMMA WithoutOrders ==
    ASSUME BeforeInv, NEW e \in Event, before' = Without({e}, before), wait' = wait,
           \A f \in Event \ {e} : status'[f] = status[f], status'[e] \notin {"Pending", "Retry"}
    PROVE  BeforeInv'
<1>1. \A f, g \in Event : <<f, g>> \in before' <=> <<f, g>> \in before /\ f # e /\ g # e
  BY DEF Without
<1>2. ~Open(e)' /\ \A f \in Event \ {e} : Open(f)' <=> Open(f)
  BY DEF Open
<1>3. before' \subseteq Event \X Event
  BY DEF BeforeInv, Without
<1> QED
  BY <1>1, <1>2, <1>3 DEF BeforeInv

\* The order of the events stays right, whatever they say and however they fail.
LEMMA StepEventQueue == EventQueueInv /\ InboxInv /\ [Next]_vars => EventQueueInv'
<1> SUFFICES ASSUME EventQueueInv, InboxInv, [Next]_vars PROVE EventQueueInv'
  OBVIOUS
<1>0. /\ attempts \in [Event -> 0..MaxDoubling] /\ wait \in [Event -> 0..MaxWait] /\ BeforeInv
      /\ MaxDoubling \in Nat /\ MaxWait \in Nat /\ 0 \in 0..MaxWait /\ 0 \in 0..MaxDoubling
      /\ status \in [Event -> Status]
  BY NumberAssumption DEF EventQueueInv, InboxInv, Typed
<1>1. ASSUME UNCHANGED events PROVE EventQueueInv'
  BY <1>1 DEF events, EventQueueInv, BeforeInv, Open
<1>2. ASSUME NEW e \in Event, Reschedule(e) PROVE EventQueueInv'
  <2> DEFINE tries == Lower(attempts[e] + 1, MaxDoubling)
  <2>1. tries \in 0..MaxDoubling
    BY <1>0 DEF Lower
  <2>2. Backoff(tries) \in 0..MaxWait
    BY <2>1, BackoffBounded
  <2>3. /\ attempts' = [attempts EXCEPT ![e] = tries] /\ status' = [status EXCEPT ![e] = "Retry"]
        /\ wait' = [wait EXCEPT ![e] = Backoff(tries)] /\ before' = Placed(e, Backoff(tries))
    BY <1>2 DEF Reschedule
  <2> HIDE DEF tries
  <2>4. attempts' \in [Event -> 0..MaxDoubling] /\ wait' \in [Event -> 0..MaxWait]
    BY <1>0, <2>1, <2>2, <2>3
  <2>5. BeforeInv'
    BY <1>0, <2>2, <2>3, PlacedOrders
  <2> QED
    BY <2>4, <2>5 DEF EventQueueInv
<1>3. ASSUME NEW e \in Event, Receive(e) PROVE EventQueueInv'
  <2>1. CASE Known(e)
    BY <1>1, <1>3, <2>1 DEF Receive
  <2>2. CASE ~Known(e)
    <3>1. /\ attempts' = [attempts EXCEPT ![e] = 0] /\ status' = [status EXCEPT ![e] = "Pending"]
          /\ wait' = [wait EXCEPT ![e] = 0] /\ before' = Placed(e, 0)
      BY <1>3, <2>2 DEF Receive
    <3>2. attempts' \in [Event -> 0..MaxDoubling] /\ wait' \in [Event -> 0..MaxWait]
      BY <1>0, <3>1
    <3>3. BeforeInv'
      BY <1>0, <3>1, PlacedOrders
    <3> QED
      BY <3>2, <3>3 DEF EventQueueInv
  <2> QED
    BY <2>1, <2>2
<1>4. ASSUME NEW e \in Event, Cleanup(e) PROVE EventQueueInv'
  <2>1. /\ status[e] = "Done" /\ status' = [status EXCEPT ![e] = "none"]
        /\ UNCHANGED <<attempts, wait, before>>
    BY <1>4 DEF Cleanup
  <2>2. \A f \in Event : Open(f)' <=> Open(f)
    BY <1>0, <2>1 DEF Open
  <2> QED
    BY <1>0, <2>1, <2>2 DEF EventQueueInv, BeforeInv
<1>5. CASE Tick
  <2>1. wait' = Minus1(wait) /\ UNCHANGED <<attempts, before, status>>
    BY <1>5 DEF Tick
  <2>2. /\ wait' \in [Event -> 0..MaxWait]
        /\ \A e, f \in Event : wait[e] <= wait[f] => wait'[e] <= wait'[f]
        /\ \A e, f \in Event : wait'[e] < wait'[f] => wait[e] < wait[f]
    BY <1>0, <2>1, CountsDown
  <2>3. BeforeInv'
    BY <1>0, <2>1, <2>2 DEF BeforeInv, Open
  <2> QED
    BY <1>0, <2>1, <2>2, <2>3 DEF EventQueueInv
<1>6. CASE MarkDone
  <2> DEFINE e == job.item
  <2>1. /\ status' = [status EXCEPT ![e] = "Done"] /\ before' = Without({e}, before)
        /\ UNCHANGED <<attempts, wait>>
    BY <1>6 DEF MarkDone
  <2>2. e \in Event
    BY <1>6 DEF MarkDone, At, InboxInv, Typed, JobType, JobInv
  <2>3. BeforeInv'
    BY <1>0, <2>1, <2>2, WithoutOrders
  <2> QED
    BY <1>0, <2>1, <2>3 DEF EventQueueInv
<1>7. CASE EventFails
  <2>1. job.item \in Event
    BY <1>7 DEF EventFails, InboxInv, Typed, JobType, JobInv
  <2> QED
    BY <1>2, <1>7, <2>1 DEF EventFails
<1>8. ASSUME \/ \E x \in Tx : Upstream(x) \/ ReadFeed(x) \/ Recheck(x)
             \/ \E b \in BOOLEAN : SetEnabled(b)
             \/ Schedule \/ StartRun \/ EndPoll \/ ListInbox \/ FetchEvent \/ PersistEvent \/ EndInbox
             \/ ListPending \/ EndPending \/ EndRun \/ RunFails \/ RunDies \/ LeaseExpires \/ LoseQueue
             \/ UNCHANGED vars
      PROVE  EventQueueInv'
  BY <1>1, <1>8 DEF Upstream, ReadFeed, Recheck, SetEnabled, Schedule, StartRun, EndPoll, ListInbox,
     FetchEvent, PersistEvent, EndInbox, ListPending, EndPending, EndRun, RunFails, RunDies,
     LeaseExpires, LoseQueue, vars
<1> QED
  BY <1>3, <1>4, <1>5, <1>6, <1>7, <1>8 DEF Next, RunStep

-----------------------------------------------------------------------------
(* The order of the source transactions *)

\* A transaction that has just been checked is the last of its queue.
LEMMA CheckedOrders ==
    ASSUME OlderInv, imported \in [Tx -> 0..Final], rest \in [Tx -> 0..1], NEW x \in Tx, Checked(x),
           \A y \in Tx \ {x} : imported'[y] = imported[y], imported'[x] > 0
    PROVE  OlderInv' /\ rest' \in [Tx -> 0..1]
<1>1. rest' \in [Tx -> 0..1] /\ rest'[x] = 1 /\ \A y \in Tx \ {x} : rest'[y] = rest[y]
  BY DEF Checked
<1>2. Kept' = Kept \cup {x}
  BY DEF Kept
<1>3. /\ \A y, z \in Tx \ {x} : <<y, z>> \in older' <=> <<y, z>> \in older
      /\ \A y \in Tx : <<x, y>> \notin older'
      /\ \A y \in Tx \ {x} : <<y, x>> \in older' <=> y \in Kept
      /\ older' \subseteq Kept' \X Kept'
  BY <1>2 DEF Checked, Touched, Without, Kept, OlderInv
<1>4. \A y \in Tx : rest'[y] \in 0..1 /\ rest'[y] <= 1
  BY <1>1
<1>5. \A y, z \in Tx : <<y, z>> \in older' => <<z, y>> \notin older' /\ rest'[y] <= rest'[z]
  BY <1>1, <1>3, <1>4 DEF OlderInv
<1>6. \A y, z \in Kept' : y # z => <<y, z>> \in older' \/ <<z, y>> \in older'
  BY <1>2, <1>3 DEF OlderInv, Kept
<1>7. \A y, z, w \in Tx : <<y, z>> \in older' /\ <<z, w>> \in older' => <<y, w>> \in older'
  BY <1>3 DEF OlderInv, Kept
<1> QED
  BY <1>1, <1>3, <1>5, <1>6, <1>7 DEF OlderInv

\* Every import puts the transaction last in its queue, if it changes anything.
LEMMA IngestOrders ==
    ASSUME Typed, OlderInv, rest \in [Tx -> 0..1],
           NEW x \in Tx, NEW version \in 1..Final, Ingest(x, version)
    PROVE  OlderInv' /\ rest' \in [Tx -> 0..1]
<1>1. Final \in Nat /\ imported \in [Tx -> 0..Final]
  BY NumberAssumption DEF Typed
<1>2. CASE version < imported[x]
  BY <1>2 DEF Ingest, sources, OlderInv, Kept
<1>3. CASE ~(version < imported[x])
  <2>1. imported' = [imported EXCEPT ![x] = version] /\ Checked(x)
    BY <1>3 DEF Ingest
  <2> QED
    BY <1>1, <2>1, CheckedOrders
<1> QED
  BY <1>2, <1>3

\* So does a recheck that failed.
LEMMA RotateOrders ==
    ASSUME Typed, OlderInv, rest \in [Tx -> 0..1], NEW x \in Kept, Rotate(x)
    PROVE  OlderInv' /\ rest' \in [Tx -> 0..1]
  BY CheckedOrders DEF Rotate, Kept, Typed

\* So does that of the source transactions: the one checked last is the last.
LEMMA StepSourceQueue == SourceQueueInv /\ RowsInv /\ InboxInv /\ [Next]_vars => SourceQueueInv'
<1> SUFFICES ASSUME SourceQueueInv, RowsInv, InboxInv, [Next]_vars PROVE SourceQueueInv'
  OBVIOUS
<1>0. /\ rest \in [Tx -> 0..1] /\ OlderInv /\ Typed /\ job \in JobType
      /\ \A x \in Tx : upstream[x] \in 0..Final /\ imported[x] \in 0..Final
      /\ Final \in Nat
  BY NumberAssumption DEF SourceQueueInv, InboxInv, Typed
<1>1. ASSUME UNCHANGED sources PROVE SourceQueueInv'
  BY <1>1 DEF sources, SourceQueueInv, OlderInv, Kept
<1>2. ASSUME NEW x \in Tx, NEW version \in 1..Final, Ingest(x, version) PROVE SourceQueueInv'
  BY <1>0, <1>2, IngestOrders DEF SourceQueueInv
<1>3. ASSUME NEW x \in Tx, ReadFeed(x) PROVE SourceQueueInv'
  <2>1. upstream[x] \in 1..Final /\ Ingest(x, upstream[x])
    BY <1>0, <1>3 DEF ReadFeed
  <2> QED
    BY <1>2, <2>1
<1>4. ASSUME NEW x \in Tx, Recheck(x) PROVE SourceQueueInv'
  <2>1. x \in Kept /\ upstream[x] \in 1..Final
    BY <1>0, <1>4 DEF Recheck, First, RowsInv, Kept
  <2>2. CASE Ingest(x, upstream[x])
    BY <1>2, <2>1, <2>2
  <2>3. CASE Rotate(x)
    BY <1>0, <2>1, <2>3, RotateOrders DEF SourceQueueInv
  <2> QED
    BY <1>4, <2>2, <2>3 DEF Recheck
<1>5. CASE PersistEvent
  BY <1>2, <1>5, ItemExists DEF PersistEvent, At
<1>6. CASE Tick
  <2>1. rest' = Minus1(rest) /\ UNCHANGED <<imported, older>>
    BY <1>6 DEF Tick
  <2>2. /\ rest' \in [Tx -> 0..1]
        /\ \A x, y \in Tx : rest[x] <= rest[y] => rest'[x] <= rest'[y]
    BY <1>0, <2>1, CountsDown
  <2> QED
    BY <1>0, <2>1, <2>2 DEF SourceQueueInv, OlderInv, Kept
<1>7. ASSUME \/ \E x \in Tx : Upstream(x)
             \/ \E e \in Event : Receive(e) \/ Cleanup(e)
             \/ \E b \in BOOLEAN : SetEnabled(b)
             \/ Schedule \/ StartRun \/ EndPoll \/ ListInbox \/ FetchEvent \/ MarkDone \/ EventFails
             \/ EndInbox \/ ListPending \/ EndPending \/ EndRun \/ RunFails \/ RunDies \/ LeaseExpires
             \/ LoseQueue \/ UNCHANGED vars
      PROVE  SourceQueueInv'
  BY <1>1, <1>7 DEF Upstream, Receive, Cleanup, SetEnabled, Schedule, StartRun, EndPoll, ListInbox,
     FetchEvent, MarkDone, EventFails, EndInbox, ListPending, EndPending, EndRun, RunFails, RunDies,
     LeaseExpires, LoseQueue, vars
<1> QED
  BY <1>3, <1>4, <1>5, <1>6, <1>7 DEF Next, RunStep

-----------------------------------------------------------------------------
(* Both queues, and the types *)

\* At first nothing is queued, and nothing runs.
LEMMA InitQueues == Init => QueueInv
<1> SUFFICES ASSUME Init PROVE QueueInv
  OBVIOUS
<1>1. RowsInv
  <2>1. NoJob.rows = {} /\ NoJob.step = "none"
    BY EntersPhase, EntersEmpty
  <2> QED
    BY <2>1 DEF Init, RowsInv
<1>2. LockTyped /\ LockInv
  <2>1. enabled = TRUE /\ queued = FALSE /\ lock = "free" /\ job = NoJob /\ faults = 0
    BY Zenon DEF Init
  <2>2. faults \in 0..MaxFaults
    BY <2>1, NumberAssumption
  <2>3. enabled \in BOOLEAN /\ queued \in BOOLEAN
    BY <2>1
  <2>4. LockInv
    BY <2>1 DEF LockInv
  <2> QED
    BY <2>1, <2>2, <2>3, <2>4, Zenon DEF LockTyped
<1>3. EventQueueInv
  BY NumberAssumption DEF Init, EventQueueInv, BeforeInv, Open
<1>4. SourceQueueInv
  BY DEF Init, SourceQueueInv, OlderInv, Kept
<1> QED
  BY <1>1, <1>2, <1>3, <1>4 DEF QueueInv

\* Both queues are in order throughout, whatever arrives, fails or dies: events
\* by their next attempt, a strict order that never contradicts the countdowns,
\* and sources by their last check, a total one.
THEOREM QueuesOrdered == Spec => [](InboxInv /\ QueueInv)
<1>1. Init => InboxInv /\ QueueInv
  BY InitInbox, InitQueues
<1>2. (InboxInv /\ QueueInv) /\ [Next]_vars => (InboxInv /\ QueueInv)'
  BY StepInbox, StepRows, StepLock, StepEventQueue, StepSourceQueue DEF QueueInv
<1> QED
  BY <1>1, <1>2, PTL DEF Spec

\* Every variable keeps its shape, both queues are ordered, and the lock is
\* held by a job exactly when one runs.
THEOREM InboxTyped == Spec => []TypeOK
<1>1. InboxInv /\ QueueInv => TypeOK
  <2> SUFFICES ASSUME InboxInv, QueueInv PROVE TypeOK
    OBVIOUS
  <2>1. older \subseteq Tx \X Tx
    BY DEF QueueInv, SourceQueueInv, OlderInv, Kept
  <2>2. job.step \in {"save", "mark"} => job.item \in job.todo /\ Open(job.item)
    BY DEF InboxInv, JobInv
  <2>3. job.todo \subseteq Event /\ job.rows \subseteq Tx
    BY DEF InboxInv, Typed, JobType
  <2> QED
    BY <2>1, <2>2, <2>3 DEF TypeOK, InboxInv, Typed, QueueInv, LockTyped, LockInv, EventQueueInv,
       BeforeInv, SourceQueueInv
<1> QED
  BY <1>1, QueuesOrdered, PTL
=============================================================================
