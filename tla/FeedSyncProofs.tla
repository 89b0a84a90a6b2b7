--------------------------- MODULE FeedSyncProofs ---------------------------
(***************************************************************************)
(* Theorems about FeedSync for every set of transactions, every API that   *)
(* lists them late or in ties, and every size of windows and pages: what   *)
(* checkpoints, the poll and the backfill claim to have imported is, and   *)
(* none of them loses ground.                                              *)
(***************************************************************************)
EXTENDS FeedSync, FiniteSetTheorems, TLAPS

WindowType == [start : Int, end : Int, to : Int, at : Int]

JobType ==
    [phase : Phase \cup {"none"}, step : {"none", "open", "page", "ties", "save", "close"},
     cutoff : Int, low : Int, high : Int, end : Int, todo : SUBSET Tx, next : Int,
     last : BOOLEAN, pages : Int]

\* What the proofs need of the types.
Typed ==
    /\ now \in Nat /\ arrival \in [Tx -> Arrival]
    /\ earliest \in Int /\ floor \in Int /\ pollCursor \in Int /\ auditCursor \in Int
    /\ backfill \in [next : Int, end : Int]
    /\ window \in [Phase -> WindowType]
    /\ job \in JobType
    /\ Running => job.phase \in Phase

\* Clocks: a run stays behind the clock, windows were frozen in the past, and
\* a poll window ends the margin before that.
ClockInv ==
    /\ earliest <= floor
    /\ Running => job.cutoff <= now - Margin
    /\ \A p \in Phase : window[p] # NoWindow => window[p].at \in 0..now
    /\ window["poll"] # NoWindow => window["poll"].end <= window["poll"].at - Margin

\* A poll window reaches back to what is not promised, or an overlap behind
\* the cursor.
PollWindowJoins ==
    window["poll"] # NoWindow =>
        window["poll"].start <= floor \/ window["poll"].start <= pollCursor - Overlap

\* Listed when the window of the running phase was frozen.
Known(x) == arrival[x].shown <= window[job.phase].at

\* The running phase has in hand, or has imported, all it has read so far.
JobInv ==
    /\ job.step \in {"page", "ties", "save", "close"} =>
        /\ window[job.phase] # NoWindow
        /\ job.low = window[job.phase].start
        /\ job.end = window[job.phase].end
    /\ job.step \in {"page", "ties", "save"} => job.high = window[job.phase].to
    /\ job.step \in {"open", "page"} => ~job.last
    /\ job.step = "ties" =>
        /\ \A x \in Tx : Known(x) /\ job.next < Created(x) /\ Created(x) < job.high => x \in job.todo
        /\ ~job.last
    /\ job.step = "save" =>
        /\ \A x \in Tx : Known(x) /\ job.next <= Created(x) /\ Created(x) < job.high =>
              x \in imported \cup job.todo
        /\ job.last => job.next = job.low
    /\ job.step = "close" => window[job.phase].to <= window[job.phase].start

FeedInv ==
    Typed /\ ClockInv /\ PollWindowJoins /\ JobInv /\ CheckpointSound /\ PollComplete

-----------------------------------------------------------------------------
(* Facts about single definitions *)

\* The sizes are natural numbers.
LEMMA Sizes == {Overlap, Margin, Window, PageSize} \subseteq Nat
  BY SizeAssumption

\* Timestamps of transactions are numbers.
LEMMA Stamps ==
    ASSUME arrival \in [Tx -> Arrival], NEW x \in Tx
    PROVE  Created(x) \in Nat /\ arrival[x].shown \in Nat
  BY ArrivalAssumption DEF Created

\* A page that is not full is all there is to list.
LEMMA ShortPage ==
    ASSUME NEW from, NEW to, NEW page, IsPage(page, from, to), Cardinality(page) < PageSize
    PROVE  page = Listed(from, to)
<1>1. IsFiniteSet(Listed(from, to))
  BY TxAssumption, FS_Subset DEF Listed
<1>2. Cardinality(Listed(from, to)) \in Nat
  BY <1>1, FS_CardinalityType
<1>3. Cardinality(page) = Cardinality(Listed(from, to))
  BY <1>2, Sizes DEF IsPage, Lower
<1> QED
  BY <1>1, <1>3, FS_Subset DEF IsPage

\* The job that holds nothing is well typed.
LEMMA FreshJob ==
    /\ NoJob \in JobType /\ NoJob.step = "none" /\ ~NoJob.last
    /\ \A p \in Phase, cutoff \in Int :
          /\ Opening(p, cutoff) \in JobType
          /\ Opening(p, cutoff).step = "open" /\ ~Opening(p, cutoff).last
          /\ Opening(p, cutoff).phase = p /\ Opening(p, cutoff).cutoff = cutoff
<1>1. NoTime \in Int
  BY DEF NoTime
<1>2. NoJob \in JobType /\ NoJob.step = "none" /\ NoJob.last = FALSE
  BY <1>1 DEF NoJob, JobType
<1>3. ASSUME NEW p \in Phase, NEW cutoff \in Int
      PROVE  /\ Opening(p, cutoff) \in JobType
             /\ Opening(p, cutoff).step = "open" /\ Opening(p, cutoff).last = FALSE
             /\ Opening(p, cutoff).phase = p /\ Opening(p, cutoff).cutoff = cutoff
  BY <1>2 DEF Opening, JobType
<1> QED
  BY <1>2, <1>3

\* Whatever ends a phase leaves a job that is about to open a window, or none.
LEMMA NextPhaseJob ==
    ASSUME Typed, Running, NextPhase
    PROVE  /\ job' \in JobType /\ job'.step \in {"open", "none"} /\ ~job'.last
           /\ Running' => job'.phase \in Phase /\ job'.cutoff = job.cutoff
<1>1. job.cutoff \in Int /\ job.phase \in Phase
  BY DEF Typed, JobType
<1>2. job' = NoJob \/ \E p \in Phase : job' = Opening(p, job.cutoff)
  BY DEF NextPhase, Phase
<1>3. CASE job' = NoJob
  BY <1>3, FreshJob DEF Running
<1>4. ASSUME NEW p \in Phase, job' = Opening(p, job.cutoff)
      PROVE  /\ job' \in JobType /\ job'.step = "open" /\ ~job'.last
             /\ job'.phase \in Phase /\ job'.cutoff = job.cutoff
  BY <1>1, <1>4, FreshJob
<1> QED
  BY <1>2, <1>3, <1>4

-----------------------------------------------------------------------------
(* Steps that change the job's local state only *)

\* A step of the job that reads and decides, and writes nothing, keeps the rest.
LEMMA LocalStep ==
    ASSUME FeedInv, UNCHANGED <<now, arrival, durable, history>>,
           job' \in JobType,
           Running' => job'.phase \in Phase /\ job'.cutoff <= now - Margin,
           JobInv'
    PROVE  FeedInv'
<1>1. Typed'
  BY DEF FeedInv, Typed, durable, history
<1>2. ClockInv'
  BY DEF FeedInv, ClockInv, durable, history
<1>3. PollWindowJoins' /\ CheckpointSound' /\ PollComplete'
  BY DEF FeedInv, PollWindowJoins, CheckpointSound, PollComplete, Created, durable, history
<1> QED
  BY <1>1, <1>2, <1>3 DEF FeedInv

\* A job that has no window open yet has nothing to show for.
LEMMA PhaseChange ==
    ASSUME FeedInv, UNCHANGED <<now, arrival, durable, history>>,
           job' \in JobType, job'.step \in {"open", "none"}, ~job'.last,
           Running' => job'.phase \in Phase /\ job'.cutoff <= now - Margin
    PROVE  FeedInv'
<1>1. JobInv'
  BY DEF JobInv
<1> QED
  BY <1>1, LocalStep

\* A run starts with the poll, the margin behind the clock.
LEMMA BeginRunStep == FeedInv /\ BeginRun => FeedInv'
<1> SUFFICES ASSUME FeedInv, BeginRun PROVE FeedInv'
  OBVIOUS
<1>1. now \in Int /\ now - Margin \in Int
  BY Sizes DEF FeedInv, Typed
<1>2. job' = Opening("poll", now - Margin)
  BY DEF BeginRun
<1>3. /\ job' \in JobType /\ job'.step = "open" /\ ~job'.last
      /\ job'.phase \in Phase /\ job'.cutoff = now - Margin
  BY <1>1, <1>2, FreshJob DEF Phase
<1>4. job'.cutoff <= now - Margin
  BY <1>1, <1>3
<1> QED
  BY <1>3, <1>4, PhaseChange DEF BeginRun

\* A phase that is skipped, given up or failed leaves what it saved.
LEMMA PhaseEndStep ==
    ASSUME FeedInv, Running, NextPhase, UNCHANGED <<now, arrival, durable, history>>
    PROVE  FeedInv'
<1>1. /\ job' \in JobType /\ job'.step \in {"open", "none"} /\ ~job'.last
      /\ Running' => job'.phase \in Phase /\ job'.cutoff = job.cutoff
  BY NextPhaseJob DEF FeedInv
<1>2. job.cutoff <= now - Margin
  BY DEF FeedInv, ClockInv
<1> QED
  BY <1>1, <1>2, PhaseChange

\* A worker that dies leaves what it saved.
LEMMA RunDiesStep == FeedInv /\ RunDies => FeedInv'
<1> SUFFICES ASSUME FeedInv, RunDies PROVE FeedInv'
  OBVIOUS
<1>1. job' \in JobType /\ job'.step = "none" /\ ~job'.last /\ ~Running'
  BY FreshJob DEF RunDies, Running
<1> QED
  BY <1>1, PhaseChange DEF RunDies

\* Inside a phase: what stays as it is when only step, todo, next, last change.
LEMMA SamePhase ==
    ASSUME FeedInv, UNCHANGED <<now, arrival, durable, history>>, Running,
           job' \in JobType, job'.phase = job.phase, job'.cutoff = job.cutoff,
           JobInv'
    PROVE  FeedInv'
<1>1. job.phase \in Phase /\ job.cutoff <= now - Margin
  BY DEF FeedInv, Typed, ClockInv
<1> QED
  BY <1>1, LocalStep

\* While a window is read the API lists all that was known when it was frozen.
LEMMA KnownListed ==
    ASSUME FeedInv, Running, window[job.phase] # NoWindow,
           NEW x \in Tx, Known(x), NEW from, NEW to, from <= Created(x), Created(x) < to
    PROVE  x \in Listed(from, to)
<1>1. job.phase \in Phase /\ window[job.phase].at <= now /\ now \in Int
  BY DEF FeedInv, Typed, ClockInv
<1>2. window[job.phase].at \in Int
  BY <1>1 DEF FeedInv, Typed, WindowType
<1>3. arrival[x].shown \in Int
  BY Stamps DEF FeedInv, Typed
<1> QED
  BY <1>1, <1>2, <1>3 DEF Known, Listed

\* A page, short or full, has all that was known down to where it reaches.
LEMMA FetchPageStep == FeedInv /\ FetchPage => FeedInv'
<1> SUFFICES ASSUME FeedInv, FetchPage PROVE FeedInv'
  OBVIOUS
<1>1. PICK page \in SUBSET Listed(job.low, job.high) :
          /\ IsPage(page, job.low, job.high)
          /\ FetchShort(page) \/ \E boundary \in Time : FetchFull(page, boundary)
  BY DEF FetchPage
<1>2. /\ Running /\ job.step = "page" /\ job \in JobType
      /\ window[job.phase] # NoWindow
      /\ job.low = window[job.phase].start
      /\ job.end = window[job.phase].end
      /\ job.high = window[job.phase].to
      /\ ~job.last
  BY DEF FetchPage, MorePages, At, FeedInv, Typed, JobInv
<1>3. page \subseteq Tx
  BY <1>1 DEF Listed
<1>4. UNCHANGED <<arrival, imported, window>>
  BY DEF FetchPage, durable
<1>5. CASE FetchShort(page)
  <2>1. page = Listed(job.low, job.high)
    BY <1>1, <1>5, ShortPage DEF FetchShort
  <2>2. /\ job' \in JobType
        /\ job'.phase = job.phase /\ job'.cutoff = job.cutoff
        /\ job'.step = "save" /\ job'.low = job.low /\ job'.high = job.high
        /\ job'.end = job.end /\ job'.todo = page /\ job'.next = job.low
    BY <1>2, <1>3, <1>5 DEF FetchShort, JobType
  <2>3. \A x \in Tx : Known(x) /\ job.low <= Created(x) /\ Created(x) < job.high => x \in page
    BY <1>2, <2>1, KnownListed
  <2>4. JobInv'
    BY <1>2, <1>4, <2>2, <2>3 DEF JobInv, Known, Created
  <2> QED
    BY <1>2, <2>2, <2>4, SamePhase DEF FetchPage
<1>6. ASSUME NEW boundary \in Time, FetchFull(page, boundary)
      PROVE  FeedInv'
  <2> DEFINE newer == {x \in page : Created(x) > boundary}
  <2>1. boundary \in Int
    BY SizeAssumption DEF Time
  <2>2. /\ job' \in JobType
        /\ job'.phase = job.phase /\ job'.cutoff = job.cutoff
        /\ job'.step = "ties" /\ job'.low = job.low /\ job'.high = job.high
        /\ job'.end = job.end /\ job'.todo = newer /\ job'.next = boundary
        /\ job'.last = job.last
    BY <1>2, <1>3, <1>6, <2>1 DEF FetchFull, JobType
  <2>3. PICK y \in page : Created(y) = boundary
    BY <1>6 DEF FetchFull
  <2>4. job.low <= boundary
    BY <1>1, <2>3 DEF Listed
  <2>5. ASSUME NEW x \in Tx, Known(x), boundary < Created(x), Created(x) < job.high
        PROVE  x \in newer
    <3>1. Created(x) \in Int /\ job.low \in Int /\ job.low <= Created(x)
      BY <1>2, <2>1, <2>4, <2>5, Stamps DEF FeedInv, Typed, JobType
    <3>2. x \in Listed(job.low, job.high)
      BY <1>2, <2>5, <3>1, KnownListed
    <3>3. x \in page
      BY <1>1, <2>1, <2>3, <2>5, <3>1, <3>2 DEF IsPage
    <3> QED
      BY <2>1, <2>5, <3>1, <3>3
  <2> HIDE DEF newer
  <2>6. JobInv'
    BY <1>2, <1>4, <2>2, <2>5 DEF JobInv, Known, Created
  <2> QED
    BY <1>2, <2>2, <2>6, SamePhase DEF FetchPage
<1> QED
  BY <1>1, <1>5, <1>6

\* The tie probe completes the page at its oldest timestamp.
LEMMA FetchTiesStep == FeedInv /\ FetchTies => FeedInv'
<1> SUFFICES ASSUME FeedInv, FetchTies PROVE FeedInv'
  OBVIOUS
<1>1. /\ Running /\ job.step = "ties" /\ job \in JobType
      /\ window[job.phase] # NoWindow
      /\ job.low = window[job.phase].start
      /\ job.end = window[job.phase].end
      /\ job.high = window[job.phase].to
      /\ \A x \in Tx : Known(x) /\ job.next < Created(x) /\ Created(x) < job.high => x \in job.todo
  BY DEF FetchTies, At, FeedInv, Typed, JobInv
<1>2. UNCHANGED <<arrival, imported, window>>
  BY DEF FetchTies, durable
<1>3. /\ job' \in JobType
      /\ job'.phase = job.phase /\ job'.cutoff = job.cutoff
      /\ job'.step = "save" /\ job'.low = job.low /\ job'.high = job.high
      /\ job'.end = job.end /\ job'.todo = job.todo \cup Ties /\ job'.next = job.next
      /\ job'.last = job.last
  BY <1>1 DEF FetchTies, JobType, Ties, Listed
<1>4. ASSUME NEW x \in Tx, Known(x), job.next <= Created(x), Created(x) < job.high
      PROVE  x \in job.todo \cup Ties
  <2>1. Created(x) \in Int /\ job.next \in Int
    BY <1>1, Stamps DEF FeedInv, Typed, JobType
  <2>2. CASE Created(x) = job.next
    <3>1. Created(x) < job.next + 1
      BY <2>1, <2>2
    <3> QED
      BY <1>1, <1>4, <3>1, KnownListed DEF Ties
  <2>3. CASE Created(x) # job.next
    BY <1>1, <1>4, <2>1, <2>3
  <2> QED
    BY <2>2, <2>3
<1>5. ~job.last
  BY DEF FeedInv, JobInv, FetchTies, At
<1>6. JobInv'
  BY <1>1, <1>2, <1>3, <1>4, <1>5 DEF JobInv, Known, Created
<1> QED
  BY <1>1, <1>3, <1>6, SamePhase DEF FetchTies

\* A window read down to its start can be closed.
LEMMA ReachLowStep == FeedInv /\ ReachLow => FeedInv'
<1> SUFFICES ASSUME FeedInv, ReachLow PROVE FeedInv'
  OBVIOUS
<1>1. /\ Running /\ job.step = "page" /\ job \in JobType
      /\ window[job.phase] # NoWindow
      /\ job.low = window[job.phase].start
      /\ job.end = window[job.phase].end
      /\ job.high = window[job.phase].to
      /\ job.low >= job.high
  BY DEF ReachLow, MorePages, At, FeedInv, Typed, JobInv
<1>2. /\ job' \in JobType
      /\ job'.phase = job.phase /\ job'.cutoff = job.cutoff
      /\ job'.step = "close" /\ job'.low = job.low /\ job'.end = job.end
  BY <1>1 DEF ReachLow, JobType
<1>3. window' = window
  BY DEF ReachLow, durable
<1>4. JobInv'
  BY <1>1, <1>2, <1>3 DEF JobInv, JobType
<1> QED
  BY <1>1, <1>2, <1>4, SamePhase DEF ReachLow

-----------------------------------------------------------------------------
(* Steps that change what the database holds *)

\* An import keeps everything: it adds a transaction and takes it off the list.
LEMMA PersistStep == \A x \in Tx : FeedInv /\ Persist(x) => FeedInv'
<1> SUFFICES ASSUME NEW y \in Tx, FeedInv, Persist(y) PROVE FeedInv'
  OBVIOUS
<1>1. /\ Running /\ job.step = "save" /\ job \in JobType
      /\ imported' = imported \cup {y}
      /\ UNCHANGED <<now, arrival, earliest, pollCursor, auditCursor, backfill, window, floor>>
  BY DEF Persist, At, FeedInv, Typed, history
<1>2. /\ job' \in JobType
      /\ job'.phase = job.phase /\ job'.cutoff = job.cutoff /\ job'.step = job.step
      /\ job'.low = job.low /\ job'.high = job.high /\ job'.end = job.end
      /\ job'.todo = job.todo \ {y} /\ job'.next = job.next /\ job'.last = job.last
  BY <1>1 DEF Persist, JobType
<1>3. Typed' /\ ClockInv' /\ PollWindowJoins'
  <2>1. job.phase \in Phase /\ job.cutoff <= now - Margin
    BY <1>1 DEF FeedInv, Typed, ClockInv
  <2> QED
    BY <1>1, <1>2, <2>1 DEF FeedInv, Typed, ClockInv, PollWindowJoins
<1>4. JobInv'
  BY <1>1, <1>2 DEF FeedInv, JobInv, Known, Created
<1>5. CheckpointSound' /\ PollComplete'
  BY <1>1 DEF FeedInv, CheckpointSound, PollComplete, Created
<1> QED
  BY <1>3, <1>4, <1>5 DEF FeedInv

\* A checkpoint is written when all down to it is imported.
LEMMA CheckpointStep == FeedInv /\ Checkpoint => FeedInv'
<1> SUFFICES ASSUME FeedInv, Checkpoint PROVE FeedInv'
  OBVIOUS
<1> DEFINE p == job.phase
<1>1. /\ Running /\ job.step = "save" /\ job \in JobType /\ p \in Phase
      /\ job.todo = {} /\ job.next \in Int /\ job.cutoff <= now - Margin
      /\ window[p] # NoWindow /\ window[p] \in WindowType
      /\ job.low = window[p].start /\ job.end = window[p].end /\ job.high = window[p].to
      /\ window' = [window EXCEPT ![p].to = job.next]
      /\ UNCHANGED <<now, arrival, imported, earliest, pollCursor, auditCursor, backfill, floor>>
  BY DEF Checkpoint, At, FeedInv, Typed, ClockInv, JobInv, JobType, history
<1>2. /\ job' \in JobType
      /\ job'.phase = p /\ job'.cutoff = job.cutoff
      /\ job'.step = (IF job.last THEN "close" ELSE "page")
      /\ job'.low = job.low /\ job'.high = job.next /\ job'.end = job.end
      /\ job'.last = job.last
  <2>1. job.pages + 1 \in Int
    BY <1>1 DEF JobType
  <2>2. CASE job.last
    BY <1>1, <2>1, <2>2 DEF Checkpoint, JobType
  <2>3. CASE ~job.last
    BY <1>1, <2>1, <2>3 DEF Checkpoint, JobType
  <2> QED
    BY <2>2, <2>3
<1>3. window'[p] = [window[p] EXCEPT !.to = job.next] /\ window' \in [Phase -> WindowType]
  <2>1. [window[p] EXCEPT !.to = job.next] \in WindowType
    BY <1>1 DEF WindowType
  <2> QED
    BY <1>1, <2>1 DEF FeedInv, Typed
<1>4. /\ window'[p].start = window[p].start /\ window'[p].end = window[p].end
      /\ window'[p].to = job.next /\ window'[p].at = window[p].at
  BY <1>1, <1>3 DEF WindowType
<1>5. \A q \in Phase : q # p => window'[q] = window[q]
  BY <1>1 DEF FeedInv, Typed
<1> HIDE DEF p
<1>6. Typed'
  BY <1>1, <1>2, <1>3 DEF FeedInv, Typed
<1>7. ClockInv' /\ PollWindowJoins'
  <2>1. \A q \in Phase :
           window'[q] # NoWindow => window[q] # NoWindow /\ window'[q].at = window[q].at
                                    /\ window'[q].start = window[q].start
                                    /\ window'[q].end = window[q].end
    BY <1>1, <1>4, <1>5
  <2>2. "poll" \in Phase
    BY DEF Phase
  <2>3. Running' => job'.cutoff <= now' - Margin
    BY <1>1, <1>2
  <2>4. earliest' <= floor'
    BY <1>1 DEF FeedInv, ClockInv
  <2>5. \A q \in Phase : window'[q] # NoWindow => window'[q].at \in 0..now'
    BY <1>1, <2>1 DEF FeedInv, ClockInv
  <2>6. window'["poll"] # NoWindow => window'["poll"].end <= window'["poll"].at - Margin
    BY <2>1, <2>2 DEF FeedInv, ClockInv
  <2>7. PollWindowJoins'
    BY <1>1, <2>1, <2>2 DEF FeedInv, PollWindowJoins
  <2> QED
    BY <2>3, <2>4, <2>5, <2>6, <2>7 DEF ClockInv
<1>8. CheckpointSound'
  <2> SUFFICES ASSUME NEW q \in Phase, NEW x \in Tx, window'[q] # NoWindow,
                      arrival[x].shown <= window'[q].at,
                      window'[q].to <= Created(x), Created(x) < window'[q].end
               PROVE  x \in imported
    BY <1>1 DEF CheckpointSound, Created
  <2>1. CASE q # p
    BY <1>5, <2>1 DEF FeedInv, CheckpointSound
  <2>2. CASE q = p /\ window[p].to <= Created(x)
    BY <1>1, <1>4, <2>2 DEF FeedInv, CheckpointSound
  <2>3. CASE q = p /\ ~(window[p].to <= Created(x))
    <3>1. Created(x) \in Int /\ window[p].to \in Int
      BY <1>1, Stamps DEF FeedInv, Typed, WindowType
    <3>2. Known(x) /\ job.next <= Created(x) /\ Created(x) < job.high
      BY <1>1, <1>4, <2>3, <3>1 DEF Known, p
    <3> QED
      BY <1>1, <3>2 DEF FeedInv, JobInv
  <2> QED
    BY <2>1, <2>2, <2>3
<1>9. JobInv'
  <2>1. /\ window'[job'.phase] # NoWindow
        /\ job'.low = window'[job'.phase].start /\ job'.end = window'[job'.phase].end
        /\ job'.high = window'[job'.phase].to
    <3>1. window'[p].at # NoTime
      BY <1>1, <1>4 DEF FeedInv, ClockInv, NoTime
    <3>2. window'[p] # NoWindow
      BY <3>1 DEF NoWindow
    <3> QED
      BY <1>1, <1>2, <1>4, <3>2
  <2>2. job.last => window'[p].to <= window'[p].start
    BY <1>1, <1>4 DEF FeedInv, JobInv, JobType
  <2> QED
    BY <1>2, <2>1, <2>2 DEF JobInv
<1>10. PollComplete'
  BY <1>1 DEF FeedInv, PollComplete, Created
<1> QED
  BY <1>6, <1>7, <1>8, <1>9, <1>10 DEF FeedInv

\* The bounds of a wanted window are times.
LEMMA WindowBounds ==
    ASSUME Typed, NEW p \in Phase, job.cutoff \in Int
    PROVE  WindowStart(p) \in Int /\ WindowEnd(p) \in Int
<1>1. {Overlap, Window, AuditWindow, Lookback} \subseteq Int
  BY SizeAssumption
<1>2. /\ earliest \in Int /\ pollCursor \in Int /\ auditCursor \in Int
      /\ backfill.next \in Int /\ backfill.end \in Int
  BY DEF Typed
<1>3. PollStart \in Int /\ PollEnd \in Int
  BY <1>1, <1>2 DEF PollStart, PollEnd, Cursor, Higher, Lower
<1>4. AuditStart \in Int
  BY <1>2 DEF AuditStart, Higher
<1>5. CASE p = "poll"
  BY <1>3, <1>5 DEF WindowStart, WindowEnd
<1>6. CASE p = "backfill"
  BY <1>1, <1>2, <1>6 DEF WindowStart, WindowEnd, Lower
<1>7. CASE p = "audit"
  BY <1>1, <1>4, <1>7 DEF WindowStart, WindowEnd, Lower
<1>8. CASE p = "recent"
  BY <1>1, <1>2, <1>8 DEF WindowStart, WindowEnd, Higher
<1> QED
  BY <1>5, <1>6, <1>7, <1>8 DEF Phase

\* A poll window starts an overlap behind the cursor, or where the promise
\* starts, and ends the margin behind the clock.
LEMMA PollBounds ==
    ASSUME Typed, ClockInv, Running
    PROVE  /\ WindowEnd("poll") <= now - Margin
           /\ WindowStart("poll") <= floor \/ WindowStart("poll") <= pollCursor - Overlap
<1>1. /\ earliest \in Int /\ pollCursor \in Int /\ floor \in Int /\ now \in Int
      /\ job.cutoff \in Int /\ earliest <= floor /\ job.cutoff <= now - Margin
      /\ {Overlap, Window, Margin} \subseteq Nat
  BY SizeAssumption DEF Typed, ClockInv, JobType
<1>2. WindowStart("poll") = PollStart /\ WindowEnd("poll") = PollEnd
  BY DEF WindowStart, WindowEnd
<1>3. PollEnd <= now - Margin
  BY <1>1 DEF PollEnd, Cursor, Lower
<1>4. PollStart <= floor \/ PollStart <= pollCursor - Overlap
  BY <1>1 DEF PollStart, Cursor, Higher
<1> QED
  BY <1>2, <1>3, <1>4

\* A window freezes behind the cutoff, and joins what earlier polls covered.
LEMMA OpenWindowStep == FeedInv /\ OpenWindow => FeedInv'
<1> SUFFICES ASSUME FeedInv, OpenWindow PROVE FeedInv'
  OBVIOUS
<1> DEFINE p == job.phase
           w == Frozen(p)
<1>1. /\ Running /\ job.step = "open" /\ job \in JobType /\ p \in Phase /\ Wanted(p) /\ ~job.last
      /\ job.cutoff \in Int /\ job.cutoff <= now - Margin /\ now \in Nat
      /\ window' = [window EXCEPT ![p] = w]
      /\ job' = [job EXCEPT !.step = "page", !.low = w.start, !.high = w.to, !.end = w.end]
      /\ UNCHANGED <<now, arrival, imported, earliest, pollCursor, auditCursor, backfill, floor>>
  BY DEF OpenWindow, At, FeedInv, Typed, ClockInv, JobInv, JobType, history
<1>2. ASSUME window[p] # NoWindow
      PROVE  /\ w \in WindowType /\ w # NoWindow
             /\ window' \in [Phase -> WindowType] /\ window'[p] = w
             /\ ClockInv' /\ PollWindowJoins' /\ CheckpointSound'
  <2>1. w = window[p] /\ w \in WindowType
    BY <1>1, <1>2 DEF Frozen, FeedInv, Typed
  <2>2. window' = window
    BY <1>1, <2>1 DEF FeedInv, Typed
  <2>3. /\ w \in WindowType /\ w # NoWindow
        /\ window' \in [Phase -> WindowType] /\ window'[p] = w
    BY <1>1, <1>2, <2>1, <2>2 DEF FeedInv, Typed
  <2>4. ClockInv' /\ PollWindowJoins' /\ CheckpointSound'
    <3>1. /\ job'.cutoff = job.cutoff
      BY <1>1 DEF JobType
    <3> QED
      BY <1>1, <2>2, <3>1 DEF FeedInv, ClockInv, PollWindowJoins, CheckpointSound, Created
  <2> QED
    BY <1>2, <2>1, <2>3, <2>4
<1>3. ASSUME window[p] = NoWindow
      PROVE  /\ w \in WindowType /\ w # NoWindow
             /\ window' \in [Phase -> WindowType] /\ window'[p] = w
             /\ ClockInv' /\ PollWindowJoins' /\ CheckpointSound'
  <2>1. w = [start |-> WindowStart(p), end |-> WindowEnd(p), to |-> WindowEnd(p), at |-> now]
    BY <1>3 DEF Frozen
  <2>2. WindowStart(p) \in Int /\ WindowEnd(p) \in Int
    BY <1>1, WindowBounds DEF FeedInv
  <2>3. w \in WindowType /\ w.at = now /\ w.to = w.end
    BY <1>1, <2>1, <2>2 DEF WindowType
  <2>4. w # NoWindow
    BY <1>1, <2>3 DEF NoWindow, NoTime
  <2>5. /\ window' \in [Phase -> WindowType] /\ window'[p] = w
        /\ \A q \in Phase \ {p} : window'[q] = window[q]
    BY <1>1, <2>3 DEF FeedInv, Typed
  <2> HIDE DEF w, p
  <2>6. p = "poll" =>
            /\ w.end <= w.at - Margin
            /\ w.start <= floor \/ w.start <= pollCursor - Overlap
    BY <1>1, <2>1, PollBounds DEF FeedInv, p
  <2>7. ClockInv'
    <3>1. job'.cutoff = job.cutoff
      BY <1>1 DEF JobType
    <3>2. \A q \in Phase : window'[q] # NoWindow => window'[q].at \in 0..now
      BY <1>1, <2>3, <2>5 DEF FeedInv, ClockInv
    <3>3. "poll" \in Phase
      BY DEF Phase
    <3>4. window'["poll"] # NoWindow => window'["poll"].end <= window'["poll"].at - Margin
      <4>1. CASE p = "poll"
        <5>1. window'["poll"] = w
          BY <2>5, <4>1
        <5>2. w.end <= w.at - Margin
          <6>1. w.end \in Int /\ w.at \in Int /\ Margin \in Int
            BY <2>3, Sizes DEF WindowType
          <6> QED
            BY <2>6, <4>1, <6>1
        <5> QED
          BY <5>1, <5>2
      <4>2. CASE p # "poll"
        <5>1. window'["poll"] = window["poll"]
          BY <2>5, <3>3, <4>2
        <5> QED
          BY <5>1 DEF FeedInv, ClockInv
      <4> QED
        BY <4>1, <4>2
    <3> QED
      BY <1>1, <3>1, <3>2, <3>4 DEF FeedInv, ClockInv
  <2>8. PollWindowJoins'
    <3>1. "poll" \in Phase
      BY DEF Phase
    <3> QED
      BY <1>1, <2>5, <2>6, <3>1 DEF FeedInv, PollWindowJoins
  <2>9. CheckpointSound'
    <3> SUFFICES ASSUME NEW q \in Phase, NEW x \in Tx, window'[q] # NoWindow,
                        arrival[x].shown <= window'[q].at,
                        window'[q].to <= Created(x), Created(x) < window'[q].end
                 PROVE  x \in imported
      BY <1>1 DEF CheckpointSound, Created
    <3>1. CASE q # p
      BY <2>5, <3>1 DEF FeedInv, CheckpointSound
    <3>2. CASE q = p
      <4>1. Created(x) \in Int /\ w.end \in Int
        BY <2>3, Stamps DEF FeedInv, Typed, WindowType
      <4> QED
        BY <2>3, <2>5, <3>2, <4>1
    <3> QED
      BY <3>1, <3>2
  <2> QED
    BY <2>3, <2>4, <2>5, <2>7, <2>8, <2>9
<1> HIDE DEF w, p
<1>4. /\ w \in WindowType /\ w # NoWindow
      /\ window' \in [Phase -> WindowType] /\ window'[p] = w
      /\ ClockInv' /\ PollWindowJoins' /\ CheckpointSound'
  BY <1>2, <1>3
<1>5. /\ job' \in JobType
      /\ job'.phase = p /\ job'.step = "page" /\ job'.last = job.last
      /\ job'.low = w.start /\ job'.high = w.to /\ job'.end = w.end
  BY <1>1, <1>4 DEF JobType, WindowType, p
<1>6. Typed'
  BY <1>1, <1>4, <1>5 DEF FeedInv, Typed
<1>7. JobInv'
  BY <1>1, <1>4, <1>5 DEF JobInv
<1>8. PollComplete'
  BY <1>1 DEF FeedInv, PollComplete, Created
<1> QED
  BY <1>4, <1>6, <1>7, <1>8 DEF FeedInv

\* The administrator's edits leave windows alone; what is promised only shrinks.
LEMMA EditStep == \A d \in HistoricalFrom : FeedInv /\ EditHistoricalFrom(d) => FeedInv'
<1> SUFFICES ASSUME NEW d \in HistoricalFrom, FeedInv, EditHistoricalFrom(d) PROVE FeedInv'
  OBVIOUS
<1>1. d \in Int /\ earliest \in Int /\ floor \in Int /\ earliest <= floor
  BY RangeAssumption DEF FeedInv, Typed, ClockInv
<1>2. /\ earliest' = d /\ floor' \in Int /\ d <= floor' /\ floor <= floor'
      /\ UNCHANGED <<now, arrival, imported, pollCursor, auditCursor, backfill, window, job>>
  BY <1>1 DEF EditHistoricalFrom, Higher
<1>3. Typed' /\ ClockInv'
  BY <1>1, <1>2 DEF FeedInv, Typed, ClockInv, Running
<1>4. PollWindowJoins'
  <2>1. window["poll"].start \in Int
    BY DEF FeedInv, Typed, WindowType, Phase
  <2> QED
    BY <1>1, <1>2, <2>1 DEF FeedInv, PollWindowJoins
<1>5. JobInv' /\ CheckpointSound'
  BY <1>2 DEF FeedInv, JobInv, CheckpointSound, Known, Created
<1>6. PollComplete'
  <2>1. \A x \in Tx : Created(x) >= floor' => Created(x) >= floor
    BY <1>1, <1>2, Stamps DEF FeedInv, Typed
  <2> QED
    BY <1>2, <2>1 DEF FeedInv, PollComplete, Created
<1> QED
  BY <1>3, <1>4, <1>5, <1>6 DEF FeedInv

\* A backfill is a range of its own.
LEMMA StartBackfillStep == \A range \in BackfillRange : FeedInv /\ StartBackfill(range) => FeedInv'
<1> SUFFICES ASSUME NEW range \in BackfillRange, FeedInv, StartBackfill(range) PROVE FeedInv'
  OBVIOUS
<1>1. range.from \in Int /\ range.to \in Int /\ now \in Int
  BY RangeAssumption DEF FeedInv, Typed
<1>2. /\ backfill' \in [next : Int, end : Int]
      /\ UNCHANGED <<now, arrival, imported, earliest, pollCursor, auditCursor, window, job, floor>>
  BY <1>1 DEF StartBackfill, Lower
<1> QED
  BY <1>2 DEF FeedInv, Typed, ClockInv, PollWindowJoins, JobInv, CheckpointSound, PollComplete,
              Known, Created, Running

\* The clock moves away from what was frozen.
LEMMA TickStep == FeedInv /\ Tick => FeedInv'
<1> SUFFICES ASSUME FeedInv, Tick PROVE FeedInv'
  OBVIOUS
<1>1. /\ now \in Nat /\ now' = now + 1
      /\ UNCHANGED <<arrival, imported, earliest, pollCursor, auditCursor, backfill, window, job, floor>>
  BY DEF FeedInv, Typed, Tick, durable, history
<1>2. Typed' /\ PollWindowJoins' /\ JobInv' /\ CheckpointSound' /\ PollComplete'
  BY <1>1 DEF FeedInv, Typed, PollWindowJoins, JobInv, CheckpointSound, PollComplete, Known,
              Created, Running
<1>3. ClockInv'
  <2>1. Running => job.cutoff \in Int
    BY DEF FeedInv, Typed, JobType
  <2>2. \A q \in Phase : window[q] # NoWindow => window[q].at \in 0..(now + 1)
    BY <1>1 DEF FeedInv, ClockInv
  <2>3. Running => job.cutoff <= now + 1 - Margin
    BY <1>1, <2>1, Sizes DEF FeedInv, ClockInv
  <2>4. Running' => Running
    BY <1>1 DEF Running
  <2>5. Running' => job'.cutoff <= now' - Margin
    <3>1. job'.cutoff = job.cutoff /\ now' = now + 1
      BY <1>1
    <3> SUFFICES ASSUME Running' PROVE job'.cutoff <= now' - Margin
      OBVIOUS
    <3>2. job.cutoff <= now + 1 - Margin
      BY <2>3, <2>4
    <3>3. job.cutoff \in Int /\ Margin \in Int
      BY <2>1, <2>4, Sizes
    <3> QED
      BY <1>1, <3>1, <3>2, <3>3
  <2>6. \A q \in Phase : window'[q] # NoWindow => window'[q].at \in 0..now'
    BY <1>1, <2>2
  <2>7. /\ earliest' <= floor'
        /\ window'["poll"] # NoWindow => window'["poll"].end <= window'["poll"].at - Margin
    BY <1>1 DEF FeedInv, ClockInv
  <2> QED
    BY <2>5, <2>6, <2>7 DEF ClockInv
<1> QED
  BY <1>2, <1>3 DEF FeedInv

\* A closed window is forgotten, and a closed poll window covers all up to its end.
LEMMA CloseWindowStep == FeedInv /\ CloseWindow => FeedInv'
<1> SUFFICES ASSUME FeedInv, CloseWindow PROVE FeedInv'
  OBVIOUS
<1> DEFINE p == job.phase
<1>1. /\ Running /\ job.step = "close" /\ job \in JobType /\ p \in Phase
      /\ job.cutoff <= now - Margin
      /\ window[p] # NoWindow /\ window[p] \in WindowType /\ job.end = window[p].end
      /\ window[p].to <= window[p].start
      /\ window' = [window EXCEPT ![p] = NoWindow]
      /\ UNCHANGED <<now, arrival, imported, earliest, floor>>
  BY DEF CloseWindow, At, FeedInv, Typed, ClockInv, JobInv, history
<1>2. /\ job' \in JobType /\ job'.step \in {"open", "none"} /\ ~job'.last
      /\ Running' => job'.phase \in Phase /\ job'.cutoff = job.cutoff
  BY <1>1, NextPhaseJob DEF FeedInv, CloseWindow
<1>3. /\ window'[p] = NoWindow /\ \A q \in Phase \ {p} : window'[q] = window[q]
      /\ window' \in [Phase -> WindowType]
  <2>1. NoWindow \in WindowType
    BY DEF NoWindow, WindowType, NoTime
  <2> QED
    BY <1>1, <2>1 DEF FeedInv, Typed
<1>4. /\ auditCursor' \in Int /\ backfill' \in [next : Int, end : Int]
      /\ IF p = "poll" THEN pollCursor' = job.end ELSE pollCursor' = pollCursor
  <2>1. /\ job.end \in Int /\ earliest \in Int /\ auditCursor \in Int
        /\ backfill \in [next : Int, end : Int]
    BY <1>1 DEF FeedInv, Typed, JobType
  <2>2. BackfillAfter \in [next : Int, end : Int]
    BY <2>1 DEF BackfillAfter, NoBackfill, NoTime
  <2>3. MoveCursor
    BY DEF CloseWindow
  <2> QED
    BY <2>1, <2>2, <2>3 DEF MoveCursor
<1>5. pollCursor' \in Int
  BY <1>1, <1>4 DEF FeedInv, Typed, JobType
<1>6. Typed'
  BY <1>1, <1>2, <1>3, <1>4, <1>5 DEF FeedInv, Typed
<1>7. ClockInv' /\ JobInv' /\ CheckpointSound'
  <2>1. \A q \in Phase : window'[q] # NoWindow => window[q] # NoWindow /\ window'[q] = window[q]
    BY <1>3
  <2>2. "poll" \in Phase
    BY DEF Phase
  <2>3. ClockInv'
    BY <1>1, <1>2, <2>1, <2>2 DEF FeedInv, ClockInv
  <2>4. JobInv'
    BY <1>2 DEF JobInv
  <2>5. CheckpointSound'
    BY <1>1, <2>1 DEF FeedInv, CheckpointSound, Created
  <2> QED
    BY <2>3, <2>4, <2>5
<1>8. PollWindowJoins'
  BY <1>1, <1>3, <1>4 DEF FeedInv, PollWindowJoins
<1>9. PollComplete'
  <2>1. CASE p # "poll"
    BY <1>1, <1>4, <2>1 DEF FeedInv, PollComplete, Created
  <2>2. CASE p = "poll"
    <3> SUFFICES ASSUME NEW x \in Tx, Created(x) >= floor,
                        \/ /\ Created(x) < pollCursor'
                           /\ arrival[x].shown <= Created(x) + Margin
                        \/ /\ Created(x) + Overlap < pollCursor'
                           /\ arrival[x].shown <= Created(x) + Overlap + Margin
                 PROVE  x \in imported
      BY <1>1 DEF PollComplete, Created
    <3> DEFINE w == window["poll"]
    <3>1. /\ pollCursor' = w.end /\ w.end \in Int /\ w.end <= w.at - Margin
          /\ w.at \in Int /\ w.start \in Int /\ w.to \in Int /\ w.to <= w.start
          /\ w.start <= floor \/ w.start <= pollCursor - Overlap
      BY <1>1, <1>4, <2>2 DEF FeedInv, ClockInv, PollWindowJoins, WindowType
    <3>2. /\ Created(x) \in Int /\ arrival[x].shown \in Int
          /\ floor \in Int /\ pollCursor \in Int /\ Overlap \in Nat /\ Margin \in Nat
      BY Stamps, Sizes DEF FeedInv, Typed
    <3>3. arrival[x].shown <= w.at /\ Created(x) < w.end
      BY <3>1, <3>2
    <3>4. CASE Created(x) >= w.start
      BY <1>1, <2>2, <3>1, <3>2, <3>3, <3>4 DEF FeedInv, CheckpointSound
    <3>5. CASE Created(x) < w.start
      <4>1. /\ Created(x) + Overlap < pollCursor
            /\ arrival[x].shown <= Created(x) + Overlap + Margin
        BY <3>1, <3>2, <3>5
      <4> QED
        BY <4>1 DEF FeedInv, PollComplete
    <3> QED
      BY <3>2, <3>1, <3>4, <3>5
  <2> QED
    BY <2>1, <2>2
<1> QED
  BY <1>6, <1>7, <1>8, <1>9 DEF FeedInv

-----------------------------------------------------------------------------
(* The theorems *)

\* Nothing has been read when the connection is set up.
LEMMA InitFeed == Init => FeedInv
<1> SUFFICES ASSUME Init PROVE FeedInv
  OBVIOUS
<1>1. /\ now \in Nat /\ earliest \in Int /\ floor = earliest
      /\ pollCursor = NoTime /\ auditCursor = NoTime /\ NoTime \in Int
      /\ job = NoJob /\ ~Running
  <2>1. StartTime \in Nat /\ HistoricalFrom \subseteq Nat
    BY SizeAssumption, RangeAssumption
  <2> QED
    BY <2>1 DEF Init, NoTime, Running
<1>2. window \in [Phase -> WindowType] /\ \A q \in Phase : window[q] = NoWindow
  BY <1>1 DEF Init, NoWindow, WindowType
<1>3. backfill \in [next : Int, end : Int] /\ arrival \in [Tx -> Arrival]
  BY <1>1 DEF Init, NoBackfill
<1>4. Typed
  BY <1>1, <1>2, <1>3, FreshJob DEF Typed
<1>5. ClockInv /\ PollWindowJoins /\ CheckpointSound /\ JobInv
  <2>1. "poll" \in Phase
    BY DEF Phase
  <2> QED
    BY <1>1, <1>2, <2>1, FreshJob DEF ClockInv, PollWindowJoins, CheckpointSound, JobInv
<1>6. PollComplete
  <2>1. \A x \in Tx : Created(x) \in Nat
    BY <1>3, Stamps
  <2> QED
    BY <1>1, <2>1, Sizes DEF PollComplete, NoTime
<1> QED
  BY <1>4, <1>5, <1>6 DEF FeedInv

\* Every step of the run, the clock and the administrator keeps the invariant.
LEMMA StepFeed == FeedInv /\ [Next]_vars => FeedInv'
<1> SUFFICES ASSUME FeedInv, [Next]_vars PROVE FeedInv'
  OBVIOUS
<1>1. CASE SkipPhase
  BY <1>1, PhaseEndStep DEF SkipPhase, At
<1>2. CASE GiveUp
  BY <1>2, PhaseEndStep DEF GiveUp, At
<1>3. CASE PhaseFails
  BY <1>3, PhaseEndStep DEF PhaseFails, At
<1>4. CASE UNCHANGED vars
  BY <1>4 DEF vars, durable, history, FeedInv, Typed, ClockInv, PollWindowJoins, JobInv,
              CheckpointSound, PollComplete, Known, Created, Running
<1> QED
  BY <1>1, <1>2, <1>3, <1>4, BeginRunStep, OpenWindowStep, FetchPageStep, FetchTiesStep,
     PersistStep, CheckpointStep, ReachLowStep, CloseWindowStep, RunDiesStep, EditStep,
     StartBackfillStep, TickStep
     DEF Next, RunStep

\* The inductive invariant holds throughout.
THEOREM FeedInvariant == Spec => []FeedInv
<1> QED
  BY InitFeed, StepFeed, PTL DEF Spec

\* The checkpoints of the frozen windows are honest, whatever fails: what was
\* listed when a window was frozen and lies at or above its checkpoint is in.
THEOREM CheckpointsSound == Spec => []CheckpointSound
<1>1. FeedInv => CheckpointSound
  BY DEF FeedInv
<1> QED
  BY <1>1, FeedInvariant, PTL

\* Nothing below the poll cursor is missed, save what the API lists later than
\* the overlap.
THEOREM PollIsComplete == Spec => []PollComplete
<1>1. FeedInv => PollComplete
  BY DEF FeedInv
<1> QED
  BY <1>1, FeedInvariant, PTL

-----------------------------------------------------------------------------
(* Windows, cursors and the backfill only move on *)

RequestType == [from : Int, end : Int, at : Int]

\* Every number is a time, or there is none yet.
NumbersInv ==
    /\ now \in Time /\ imported \subseteq Tx /\ earliest \in HistoricalFrom /\ floor \in Nat
    /\ faults \in 0..MaxFaults
    /\ IsTime(pollCursor) /\ IsTime(auditCursor) /\ IsTime(lastAudit) /\ IsTime(lastRecent)
    /\ request \in RequestType /\ request.at <= now

\* A checkpoint lies inside its window.
SpanInv ==
    \A p \in Phase : window[p] # NoWindow =>
        /\ window[p].start \in Nat
        /\ window[p].start <= window[p].to /\ window[p].to <= window[p].end

\* What is read lies between the start of the window and its checkpoint.
ReadInv ==
    /\ job.pages \in 0..MaxPages
    /\ job.step \in {"ties", "save"} =>
          job.pages < MaxPages /\ job.low <= job.next /\ job.next <= job.high

\* The poll cursor stays behind the clock, the run and the open window.
CursorInv ==
    /\ pollCursor = NoTime \/ pollCursor <= now - Margin
    /\ Running /\ job.phase = "poll" => pollCursor = NoTime \/ pollCursor <= job.cutoff
    /\ window["poll"] # NoWindow => pollCursor <= window["poll"].end

\* The backfill is the rest of the request, and its window starts where it is.
BackfillInv ==
    /\ backfill # NoBackfill =>
          /\ backfill.next \in Nat /\ backfill.end \in Nat /\ backfill.next < backfill.end
          /\ backfill.end = request.end
    /\ window["backfill"] # NoWindow =>
          /\ backfill # NoBackfill /\ window["backfill"].start = backfill.next
          /\ window["backfill"].end <= backfill.end
          /\ request.at <= window["backfill"].at

Done == IF backfill = NoBackfill THEN request.end ELSE backfill.next

\* BackfillComplete for what is imported.
RangeInv ==
    \A x \in Tx :
        /\ request.from <= Created(x) /\ Created(x) < Done
        /\ arrival[x].shown <= request.at
        => x \in imported

ProgressInv ==
    FeedInv /\ NumbersInv /\ SpanInv /\ ReadInv /\ CursorInv /\ BackfillInv /\ RangeInv

\* Steps that write to the database.
Writes ==
    \/ \E x \in Tx : Persist(x)
    \/ Checkpoint \/ OpenWindow \/ CloseWindow
    \/ \E d \in HistoricalFrom : EditHistoricalFrom(d)
    \/ \E range \in BackfillRange : StartBackfill(range)

\* Every other step leaves the database as it is.
LEMMA QuietStep ==
    ASSUME [Next]_vars, ~Writes
    PROVE  /\ UNCHANGED <<arrival, durable, history>>
           /\ now' = now \/ (now < MaxTime /\ now' = now + 1)
           /\ faults' = faults \/ (faults < MaxFaults /\ faults' = faults + 1)
<1>1. CASE BeginRun \/ SkipPhase \/ FetchPage \/ FetchTies \/ ReachLow \/ GiveUp
  BY <1>1 DEF BeginRun, SkipPhase, FetchPage, FetchTies, ReachLow, GiveUp
<1>2. CASE PhaseFails \/ RunDies
  BY <1>2 DEF PhaseFails, RunDies, Fault
<1>3. CASE Tick
  BY <1>3 DEF Tick
<1>4. CASE UNCHANGED vars
  BY <1>4 DEF vars
<1> QED
  BY <1>1, <1>2, <1>3, <1>4 DEF Next, RunStep, Writes

\* A step that ends a phase leads to another than the poll, or to none.
LEMMA NotPollNext ==
    ASSUME NextPhase
    PROVE  job'.phase # "poll" /\ job'.pages = 0 /\ job'.step \in {"open", "none"}
<1>1. NoJob.phase = "none" /\ NoJob.pages = 0 /\ NoJob.step = "none"
  BY DEF NoJob
<1>2. \A p \in {"backfill", "audit", "recent"} :
          /\ Opening(p, job.cutoff).phase = p /\ Opening(p, job.cutoff).pages = 0
          /\ Opening(p, job.cutoff).step = "open"
  BY DEF Opening, NoJob
<1> QED
  BY <1>1, <1>2 DEF NextPhase

\* The poll keeps its cutoff, or has just taken it.
LEMMA PollJob ==
    ASSUME FeedInv, [Next]_vars, job'.phase = "poll"
    PROVE  \/ job.phase = "poll" /\ job'.cutoff = job.cutoff
           \/ job'.cutoff = now - Margin
<1>1. job \in JobType
  BY DEF FeedInv, Typed
<1>2. CASE BeginRun
  BY <1>2 DEF BeginRun, Opening, NoJob
<1>3. CASE SkipPhase \/ GiveUp \/ PhaseFails \/ CloseWindow
  BY <1>3, NotPollNext DEF SkipPhase, GiveUp, PhaseFails, CloseWindow
<1>4. CASE RunDies
  BY <1>4 DEF RunDies, NoJob
<1>5. CASE OpenWindow \/ FetchTies \/ ReachLow
  BY <1>1, <1>5 DEF OpenWindow, FetchTies, ReachLow, JobType
<1>6. CASE FetchPage
  BY <1>1, <1>6 DEF FetchPage, FetchShort, FetchFull, JobType
<1>7. CASE Checkpoint
  BY <1>1, <1>7 DEF Checkpoint, JobType
<1>8. CASE \E x \in Tx : Persist(x)
  BY <1>1, <1>8 DEF Persist, JobType
<1>9. CASE job' = job
  BY <1>9
<1> QED
  BY <1>2, <1>3, <1>4, <1>5, <1>6, <1>7, <1>8, <1>9
     DEF Next, RunStep, vars, EditHistoricalFrom, StartBackfill, Tick

\* A fresh job has read nothing.
LEMMA ReadsNothing ==
    ASSUME job'.pages = 0, job'.step \in {"open", "none"}
    PROVE  ReadInv'
  BY SizeAssumption DEF ReadInv

\* A page ends between the start of the window and its checkpoint.
LEMMA ReadStep == FeedInv /\ ReadInv /\ [Next]_vars => ReadInv'
<1> SUFFICES ASSUME FeedInv, ReadInv, [Next]_vars PROVE ReadInv'
  OBVIOUS
<1>1. job \in JobType /\ job.pages \in 0..MaxPages /\ MaxPages \in Nat
  BY SizeAssumption DEF FeedInv, Typed, ReadInv
<1>2. CASE BeginRun
  <2>1. Opening("poll", now - Margin).pages = 0 /\ Opening("poll", now - Margin).step = "open"
    BY DEF Opening, NoJob
  <2> QED
    BY <1>2, <2>1, ReadsNothing DEF BeginRun
<1>3. CASE SkipPhase \/ GiveUp \/ PhaseFails \/ CloseWindow
  BY <1>3, NotPollNext, ReadsNothing DEF SkipPhase, GiveUp, PhaseFails, CloseWindow
<1>4. CASE RunDies
  BY <1>4, ReadsNothing DEF RunDies, NoJob
<1>5. CASE OpenWindow \/ ReachLow
  <2>1. job'.pages = job.pages /\ job'.step \in {"page", "close"}
    BY <1>1, <1>5 DEF OpenWindow, ReachLow, JobType
  <2> QED
    BY <1>1, <2>1 DEF ReadInv
<1>6. CASE FetchTies
  <2>1. /\ job.step = "ties" /\ job'.pages = job.pages /\ job'.step = "save"
        /\ job'.low = job.low /\ job'.next = job.next /\ job'.high = job.high
    BY <1>1, <1>6 DEF FetchTies, At, JobType
  <2> QED
    BY <2>1 DEF ReadInv
<1>7. CASE FetchPage
  <2>1. PICK page \in SUBSET Listed(job.low, job.high) :
            FetchShort(page) \/ \E boundary \in Time : FetchFull(page, boundary)
    BY <1>7 DEF FetchPage
  <2>2. job.pages < MaxPages /\ job.low < job.high /\ job.low \in Int /\ job.high \in Int
    BY <1>1, <1>7 DEF FetchPage, MorePages, JobType
  <2>3. CASE FetchShort(page)
    <3>1. /\ job'.pages = job.pages /\ job'.next = job.low
          /\ job'.low = job.low /\ job'.high = job.high
      BY <1>1, <2>3 DEF FetchShort, JobType
    <3> QED
      BY <1>1, <2>2, <3>1 DEF ReadInv
  <2>4. ASSUME NEW boundary \in Time, FetchFull(page, boundary)
        PROVE  ReadInv'
    <3>1. /\ job'.pages = job.pages /\ job'.next = boundary
          /\ job'.low = job.low /\ job'.high = job.high
      BY <1>1, <2>4 DEF FetchFull, JobType
    <3>2. boundary \in Int /\ job.low <= boundary /\ boundary < job.high
      <4>1. PICK y \in page : Created(y) = boundary
        BY <2>4 DEF FetchFull
      <4>2. job.low <= Created(y) /\ Created(y) < job.high
        BY <2>1 DEF Listed
      <4>3. boundary \in Int
        BY SizeAssumption DEF Time
      <4> QED
        BY <4>1, <4>2, <4>3
    <3> QED
      BY <1>1, <2>2, <3>1, <3>2 DEF ReadInv
  <2> QED
    BY <2>1, <2>3, <2>4
<1>8. CASE Checkpoint
  <2>1. job.step = "save" /\ job.pages < MaxPages
    BY <1>8 DEF Checkpoint, At, ReadInv
  <2>2. job'.pages = job.pages + 1 /\ job'.step \in {"page", "close"}
    BY <1>1, <1>8 DEF Checkpoint, JobType
  <2> QED
    BY <1>1, <2>1, <2>2 DEF ReadInv
<1>9. CASE \E x \in Tx : Persist(x)
  <2>1. /\ job.step = "save" /\ job'.pages = job.pages
        /\ job'.low = job.low /\ job'.next = job.next /\ job'.high = job.high
    BY <1>1, <1>9 DEF Persist, At, JobType
  <2> QED
    BY <2>1 DEF ReadInv
<1>10. CASE job' = job
  BY <1>10 DEF ReadInv
<1> QED
  BY <1>2, <1>3, <1>4, <1>5, <1>6, <1>7, <1>8, <1>9, <1>10
     DEF Next, RunStep, vars, EditHistoricalFrom, StartBackfill, Tick

\* A wanted window has a beginning, and an end after it.
LEMMA WantedSpan ==
    ASSUME FeedInv, NumbersInv, BackfillInv, NEW p \in Phase, Running, Wanted(p)
    PROVE  WindowStart(p) \in Nat /\ WindowEnd(p) \in Nat /\ WindowStart(p) < WindowEnd(p)
<1>1. /\ job.cutoff \in Int
      /\ WindowStart(p) \in Int /\ WindowEnd(p) \in Int /\ WindowStart(p) < WindowEnd(p)
  BY WindowBounds DEF FeedInv, Typed, JobType, Wanted
<1>2. earliest \in Nat
  BY RangeAssumption DEF NumbersInv
<1>3. {Overlap, Lookback} \subseteq Int /\ pollCursor \in Int /\ auditCursor \in Int
  BY SizeAssumption DEF FeedInv, Typed
<1>4. CASE p = "poll"
  <2>1. PollStart >= earliest
    BY <1>2, <1>3 DEF PollStart, Cursor, Higher
  <2>2. WindowStart(p) = PollStart
    BY <1>4 DEF WindowStart
  <2> QED
    BY <1>1, <1>2, <2>1, <2>2
<1>5. CASE p = "backfill"
  <2>1. WindowStart(p) = backfill.next /\ backfill # NoBackfill
    BY <1>5 DEF WindowStart, Wanted, Due
  <2>2. backfill.next \in Nat
    BY <2>1 DEF BackfillInv
  <2> QED
    BY <1>1, <2>1, <2>2
<1>6. CASE p = "audit"
  <2>1. AuditStart >= earliest
    BY <1>2, <1>3 DEF AuditStart, Higher
  <2>2. WindowStart(p) = AuditStart
    BY <1>6 DEF WindowStart
  <2> QED
    BY <1>1, <1>2, <2>1, <2>2
<1>7. CASE p = "recent"
  <2>1. Higher(earliest, job.cutoff - Lookback) >= earliest
    BY <1>1, <1>2, <1>3 DEF Higher
  <2>2. WindowStart(p) = Higher(earliest, job.cutoff - Lookback)
    BY <1>7 DEF WindowStart
  <2> QED
    BY <1>1, <1>2, <2>1, <2>2
<1> QED
  BY <1>4, <1>5, <1>6, <1>7 DEF Phase

\* What a step that freezes or resumes a window does to the windows.
LEMMA OpenedWindow ==
    ASSUME FeedInv, NumbersInv, BackfillInv, OpenWindow
    PROVE  /\ job.phase \in Phase
           /\ \A q \in Phase : q # job.phase \/ window[q] # NoWindow => window'[q] = window[q]
           /\ window[job.phase] = NoWindow =>
                /\ window'[job.phase].start = WindowStart(job.phase)
                /\ window'[job.phase].end = WindowEnd(job.phase)
                /\ window'[job.phase].to = WindowEnd(job.phase)
                /\ window'[job.phase].at = now
                /\ Wanted(job.phase) /\ Running
<1>1. /\ job.phase \in Phase /\ Wanted(job.phase) /\ Running
      /\ window' = [window EXCEPT ![job.phase] = Frozen(job.phase)]
      /\ window \in [Phase -> WindowType]
  BY DEF OpenWindow, At, FeedInv, Typed
<1>2. window'[job.phase] = Frozen(job.phase)
  BY <1>1
<1>3. window[job.phase] # NoWindow => window'[job.phase] = window[job.phase]
  BY <1>2 DEF Frozen
<1>4. \A q \in Phase : q # job.phase => window'[q] = window[q]
  BY <1>1
<1>5. window[job.phase] = NoWindow =>
          /\ window'[job.phase].start = WindowStart(job.phase)
          /\ window'[job.phase].end = WindowEnd(job.phase)
          /\ window'[job.phase].to = WindowEnd(job.phase)
          /\ window'[job.phase].at = now
  BY <1>2 DEF Frozen
<1> QED
  BY <1>1, <1>3, <1>4, <1>5

\* What a checkpoint does to the windows.
LEMMA CheckpointedWindow ==
    ASSUME FeedInv, Checkpoint
    PROVE  /\ job.phase \in Phase /\ window[job.phase] # NoWindow
           /\ \A q \in Phase : q # job.phase => window'[q] = window[q]
           /\ window'[job.phase].start = window[job.phase].start
           /\ window'[job.phase].end = window[job.phase].end
           /\ window'[job.phase].at = window[job.phase].at
           /\ window'[job.phase].to = job.next
           /\ job.low = window[job.phase].start /\ job.high = window[job.phase].to
           /\ job.step = "save"
<1>1. /\ job.phase \in Phase /\ job.step = "save" /\ window \in [Phase -> WindowType]
      /\ window' = [window EXCEPT ![job.phase] = [window[job.phase] EXCEPT !.to = job.next]]
  BY DEF Checkpoint, At, FeedInv, Typed
<1>2. /\ window[job.phase] # NoWindow
      /\ job.low = window[job.phase].start /\ job.high = window[job.phase].to
  BY <1>1 DEF FeedInv, JobInv
<1>3. /\ window[job.phase] \in WindowType
      /\ window'[job.phase] = [window[job.phase] EXCEPT !.to = job.next]
      /\ \A q \in Phase : q # job.phase => window'[q] = window[q]
  BY <1>1
<1> QED
  BY <1>1, <1>2, <1>3 DEF WindowType

\* What closing a window does to the windows.
LEMMA ClosedWindow ==
    ASSUME FeedInv, CloseWindow
    PROVE  /\ job.phase \in Phase /\ window[job.phase] # NoWindow
           /\ window'[job.phase] = NoWindow
           /\ \A q \in Phase : q # job.phase => window'[q] = window[q]
           /\ job.end = window[job.phase].end
           /\ window[job.phase].to <= window[job.phase].start
<1>1. /\ job.phase \in Phase /\ job.step = "close" /\ window \in [Phase -> WindowType]
      /\ window' = [window EXCEPT ![job.phase] = NoWindow]
  BY DEF CloseWindow, At, FeedInv, Typed
<1> QED
  BY <1>1 DEF FeedInv, JobInv

\* Checkpoints stay inside their windows.
LEMMA SpanStep ==
    ASSUME FeedInv, NumbersInv, SpanInv, ReadInv, BackfillInv, [Next]_vars
    PROVE  SpanInv'
<1> SUFFICES ASSUME NEW p \in Phase, window'[p] # NoWindow
             PROVE  /\ window'[p].start \in Nat
                    /\ window'[p].start <= window'[p].to /\ window'[p].to <= window'[p].end
  BY DEF SpanInv
<1>1. CASE window'[p] = window[p]
  BY <1>1 DEF SpanInv
<1>2. CASE OpenWindow
  <2>1. CASE p # job.phase \/ window[p] # NoWindow
    BY <1>1, <1>2, <2>1, OpenedWindow
  <2>2. CASE p = job.phase /\ window[p] = NoWindow
    <3>1. /\ window'[p].start = WindowStart(p) /\ window'[p].end = WindowEnd(p)
          /\ window'[p].to = WindowEnd(p) /\ Wanted(p) /\ Running
      BY <1>2, <2>2, OpenedWindow
    <3>2. WindowStart(p) \in Nat /\ WindowEnd(p) \in Nat /\ WindowStart(p) < WindowEnd(p)
      BY <3>1, WantedSpan
    <3> QED
      BY <3>1, <3>2
  <2> QED
    BY <2>1, <2>2
<1>3. CASE Checkpoint
  <2>1. CASE p # job.phase
    BY <1>1, <1>3, <2>1, CheckpointedWindow
  <2>2. CASE p = job.phase
    <3>1. /\ window'[p].start = window[p].start /\ window'[p].end = window[p].end
          /\ window'[p].to = job.next /\ window[p] # NoWindow
          /\ job.low = window[p].start /\ job.high = window[p].to /\ job.step = "save"
      BY <1>3, <2>2, CheckpointedWindow
    <3>2. job.low <= job.next /\ job.next <= job.high
      BY <3>1 DEF ReadInv
    <3>3. window[p].start \in Nat /\ window[p].to <= window[p].end
      BY <3>1 DEF SpanInv
    <3>4. window[p].to \in Int /\ window[p].end \in Int /\ job.next \in Int
      BY DEF FeedInv, Typed, WindowType, JobType
    <3> QED
      BY <3>1, <3>2, <3>3, <3>4
  <2> QED
    BY <2>1, <2>2
<1>4. CASE CloseWindow
  BY <1>1, <1>4, ClosedWindow
<1>5. CASE (\E x \in Tx : Persist(x)) \/ (\E d \in HistoricalFrom : EditHistoricalFrom(d))
            \/ (\E range \in BackfillRange : StartBackfill(range))
  BY <1>1, <1>5 DEF Persist, EditHistoricalFrom, StartBackfill
<1>6. CASE ~Writes
  BY <1>1, <1>6, QuietStep DEF durable
<1> QED
  BY <1>2, <1>3, <1>4, <1>5, <1>6 DEF Writes

\* The ends of windows are times.
LEMMA WindowTimes ==
    ASSUME FeedInv, SpanInv, NEW p \in Phase, window[p] # NoWindow
    PROVE  /\ window[p].start \in Nat /\ window[p].to \in Nat /\ window[p].end \in Nat
           /\ window[p].at \in Nat /\ window[p].at <= now
<1>1. window[p] \in WindowType
  BY DEF FeedInv, Typed
<1>2. /\ window[p].start \in Nat
      /\ window[p].start <= window[p].to /\ window[p].to <= window[p].end
  BY DEF SpanInv
<1>3. window[p].at \in 0..now /\ now \in Nat
  BY DEF FeedInv, ClockInv, Typed
<1> QED
  BY <1>1, <1>2, <1>3 DEF WindowType

\* Cursors and clocks stay times.
LEMMA NumbersStep ==
    ASSUME FeedInv, NumbersInv, SpanInv, [Next]_vars
    PROVE  NumbersInv'
<1>1. /\ now \in Nat /\ now \in Time /\ MaxTime \in Nat /\ MaxFaults \in Nat
      /\ faults \in 0..MaxFaults /\ request.at \in Int
  BY SizeAssumption DEF NumbersInv, Time, FeedInv, Typed, RequestType
<1>2. CASE ~Writes
  <2>1. now' \in Time /\ now <= now' /\ faults' \in 0..MaxFaults
    BY <1>1, <1>2, QuietStep DEF Time
  <2>2. request'.at <= now'
    BY <1>1, <1>2, <2>1, QuietStep DEF NumbersInv, history, Time
  <2> QED
    BY <1>2, <2>1, <2>2, QuietStep DEF NumbersInv, durable, history, IsTime
<1>3. ASSUME NEW x \in Tx, Persist(x) PROVE NumbersInv'
  BY <1>3 DEF Persist, NumbersInv, IsTime, history
<1>4. CASE Checkpoint \/ OpenWindow
  BY <1>4 DEF Checkpoint, OpenWindow, NumbersInv, IsTime, history
<1>5. CASE CloseWindow
  <2>1. job.end \in Nat /\ earliest \in Nat
    BY <1>5, ClosedWindow, WindowTimes, RangeAssumption DEF NumbersInv
  <2>2. /\ IsTime(pollCursor') /\ IsTime(auditCursor')
        /\ IsTime(lastAudit') /\ IsTime(lastRecent')
    BY <1>1, <1>5, <2>1 DEF CloseWindow, MoveCursor, NumbersInv, IsTime
  <2> QED
    BY <1>5, <2>2 DEF CloseWindow, NumbersInv, IsTime, history
<1>6. ASSUME NEW d \in HistoricalFrom, EditHistoricalFrom(d) PROVE NumbersInv'
  <2>1. d \in Nat /\ floor \in Nat
    BY RangeAssumption DEF NumbersInv
  <2>2. floor' \in Nat /\ earliest' \in HistoricalFrom
    BY <1>6, <2>1 DEF EditHistoricalFrom, Higher
  <2> QED
    BY <1>6, <2>2 DEF EditHistoricalFrom, NumbersInv, IsTime
<1>7. ASSUME NEW range \in BackfillRange, StartBackfill(range) PROVE NumbersInv'
  <2>1. request' \in RequestType /\ request'.at = now
    BY <1>1, <1>7, RangeAssumption DEF StartBackfill, RequestType, Lower
  <2> QED
    BY <1>1, <1>7, <2>1 DEF StartBackfill, NumbersInv, IsTime
<1> QED
  BY <1>2, <1>3, <1>4, <1>5, <1>6, <1>7 DEF Writes

\* What is behind the clock stays behind it.
LEMMA Later == \A c, m, t, u \in Int : c <= t - m /\ t <= u => c <= u - m
  OBVIOUS

\* The poll cursor moves to the end of a window that ends behind the clock.
LEMMA CursorStep ==
    ASSUME FeedInv, NumbersInv, SpanInv, CursorInv, BackfillInv, [Next]_vars
    PROVE  /\ CursorInv' /\ pollCursor' >= pollCursor
<1>1. /\ now \in Nat /\ pollCursor \in Int /\ Margin \in Nat /\ Window \in Nat
      /\ job.cutoff \in Int
  BY SizeAssumption DEF FeedInv, Typed, JobType
<1>2. "poll" \in Phase
  BY DEF Phase
<1>3. now' \in Nat /\ now <= now'
  <2>1. CASE Writes
    BY <1>1, <2>1 DEF Writes, Persist, Checkpoint, OpenWindow, CloseWindow,
                      EditHistoricalFrom, StartBackfill
  <2>2. CASE ~Writes
    BY <1>1, <2>2, QuietStep
  <2> QED
    BY <2>1, <2>2
<1>4. CASE CloseWindow /\ job.phase = "poll"
  <2> DEFINE w == window["poll"]
  <2>1. /\ w # NoWindow /\ job.end = w.end /\ window'["poll"] = NoWindow
    BY <1>4, ClosedWindow
  <2>2. w.end \in Nat /\ w.at \in Nat /\ w.at <= now
    BY <1>2, <2>1, WindowTimes
  <2>3. w.end <= w.at - Margin /\ pollCursor <= w.end
    BY <2>1 DEF FeedInv, ClockInv, CursorInv
  <2>4. pollCursor' = w.end
    BY <1>4, <2>1 DEF CloseWindow, MoveCursor
  <2>5. pollCursor' <= now' - Margin
    BY <1>1, <1>3, <2>2, <2>3, <2>4
  <2>6. job'.phase # "poll"
    BY <1>4, NotPollNext DEF CloseWindow
  <2> QED
    BY <2>1, <2>3, <2>4, <2>5, <2>6 DEF CursorInv
<1>5. CASE ~(CloseWindow /\ job.phase = "poll")
  <2>1. pollCursor' = pollCursor
    <3>1. CASE Writes
      BY <1>5, <3>1 DEF Writes, Persist, Checkpoint, OpenWindow, CloseWindow, MoveCursor,
                        EditHistoricalFrom, StartBackfill
    <3>2. CASE ~Writes
      BY <3>2, QuietStep DEF durable
    <3> QED
      BY <3>1, <3>2
  <2>2. pollCursor' = NoTime \/ pollCursor' <= now' - Margin
    <3>1. pollCursor = NoTime \/ pollCursor <= now - Margin
      BY DEF CursorInv
    <3>2. ASSUME pollCursor <= now - Margin PROVE pollCursor <= now' - Margin
      <4>1. now \in Int /\ now' \in Int /\ Margin \in Int /\ pollCursor \in Int
        BY <1>1, <1>3
      <4> QED
        BY <1>3, <3>2, <4>1, Later
    <3> QED
      BY <2>1, <3>1, <3>2
  <2>3. Running' /\ job'.phase = "poll" => pollCursor' = NoTime \/ pollCursor' <= job'.cutoff
    <3> SUFFICES ASSUME job'.phase = "poll"
                 PROVE  pollCursor' = NoTime \/ pollCursor' <= job'.cutoff
      OBVIOUS
    <3>1. CASE job.phase = "poll" /\ job'.cutoff = job.cutoff
      <4>1. Running
        BY <3>1 DEF Running, NoJob
      <4> QED
        BY <2>1, <3>1, <4>1 DEF CursorInv
    <3>2. CASE job'.cutoff = now - Margin
      BY <2>1, <3>2 DEF CursorInv
    <3> QED
      BY <3>1, <3>2, PollJob
  <2>4. ASSUME window'["poll"] # NoWindow PROVE pollCursor' <= window'["poll"].end
    <3>1. CASE window'["poll"] = window["poll"]
      BY <2>1, <2>4, <3>1 DEF CursorInv
    <3>2. CASE Checkpoint
      <4>1. CASE job.phase = "poll"
        BY <2>1, <3>2, <4>1, CheckpointedWindow DEF CursorInv
      <4>2. CASE job.phase # "poll"
        BY <1>2, <3>1, <3>2, <4>2, CheckpointedWindow
      <4> QED
        BY <4>1, <4>2
    <3>3. CASE OpenWindow
      <4>1. CASE job.phase # "poll" \/ window["poll"] # NoWindow
        BY <1>2, <3>1, <3>3, <4>1, OpenedWindow
      <4>2. CASE job.phase = "poll" /\ window["poll"] = NoWindow
        <5>1. window'["poll"].end = WindowEnd("poll") /\ Wanted("poll") /\ Running
          BY <3>3, <4>2, OpenedWindow
        <5>2. WindowEnd("poll") \in Nat
          BY <1>2, <5>1, WantedSpan
        <5>3. pollCursor = NoTime => pollCursor <= WindowEnd("poll")
          BY <5>2 DEF NoTime
        <5>4. pollCursor # NoTime => pollCursor <= PollEnd
          BY <1>1, <4>2, <5>1 DEF CursorInv, PollEnd, Cursor, Lower
        <5>5. WindowEnd("poll") = PollEnd
          BY DEF WindowEnd
        <5> QED
          BY <2>1, <5>1, <5>3, <5>4, <5>5
      <4> QED
        BY <4>1, <4>2
    <3>4. CASE CloseWindow
      BY <1>2, <1>5, <3>1, <3>4, ClosedWindow
    <3>5. CASE (\E x \in Tx : Persist(x)) \/ (\E d \in HistoricalFrom : EditHistoricalFrom(d))
                \/ (\E range \in BackfillRange : StartBackfill(range))
      BY <3>1, <3>5 DEF Persist, EditHistoricalFrom, StartBackfill
    <3>6. CASE ~Writes
      BY <3>1, <3>6, QuietStep DEF durable
    <3> QED
      BY <3>2, <3>3, <3>4, <3>5, <3>6 DEF Writes
  <2> QED
    BY <1>1, <2>1, <2>2, <2>3, <2>4 DEF CursorInv
<1> QED
  BY <1>4, <1>5

\* Steps that have nothing to do with the backfill.
LEMMA OtherStep ==
    ASSUME FeedInv, NumbersInv, BackfillInv, [Next]_vars,
           ~(OpenWindow /\ job.phase = "backfill" /\ window["backfill"] = NoWindow),
           ~(CloseWindow /\ job.phase = "backfill"),
           ~(\E range \in BackfillRange : StartBackfill(range))
    PROVE  /\ UNCHANGED <<arrival, backfill, request>> /\ imported \subseteq imported'
           /\ window'["backfill"] # NoWindow =>
                /\ window["backfill"] # NoWindow
                /\ window'["backfill"].start = window["backfill"].start
                /\ window'["backfill"].end = window["backfill"].end
                /\ window'["backfill"].at = window["backfill"].at
<1>1. "backfill" \in Phase
  BY DEF Phase
<1>2. CASE ~Writes
  BY <1>2, QuietStep DEF durable, history
<1>3. CASE (\E x \in Tx : Persist(x)) \/ (\E d \in HistoricalFrom : EditHistoricalFrom(d))
  BY <1>3 DEF Persist, EditHistoricalFrom, history
<1>4. CASE OpenWindow
  <2>1. window'["backfill"] = window["backfill"]
    BY <1>1, <1>4, OpenedWindow
  <2> QED
    BY <1>4, <2>1 DEF OpenWindow, history
<1>5. CASE CloseWindow
  <2>1. job.phase # "backfill"
    BY <1>5
  <2>2. window'["backfill"] = window["backfill"]
    BY <1>1, <1>5, <2>1, ClosedWindow
  <2> QED
    BY <1>5, <2>1, <2>2 DEF CloseWindow, MoveCursor, history
<1>6. CASE Checkpoint
  <2>1. /\ UNCHANGED <<arrival, backfill, request, imported>>
    BY <1>6 DEF Checkpoint, history
  <2>2. CASE job.phase = "backfill"
    BY <1>6, <2>1, <2>2, CheckpointedWindow
  <2>3. CASE job.phase # "backfill"
    BY <1>1, <1>6, <2>1, <2>3, CheckpointedWindow
  <2> QED
    BY <2>2, <2>3
<1> QED
  BY <1>2, <1>3, <1>4, <1>5, <1>6 DEF Writes

\* The backfill moves to the end of its window, all of which is imported.
LEMMA BackfillCloses ==
    ASSUME ProgressInv, CloseWindow, job.phase = "backfill"
    PROVE  BackfillInv' /\ RangeInv'
<1> DEFINE w == window["backfill"]
<1>1. /\ w # NoWindow /\ window'["backfill"] = NoWindow /\ job.end = w.end
      /\ w.to <= w.start
  BY ClosedWindow DEF ProgressInv
<1>2. "backfill" \in Phase
  BY DEF Phase
<1>3. /\ w.start \in Nat /\ w.to \in Nat /\ w.end \in Nat /\ w.at \in Nat
  BY <1>1, <1>2, WindowTimes DEF ProgressInv
<1>4. /\ backfill # NoBackfill /\ backfill \in [next : Int, end : Int]
      /\ backfill.next \in Nat /\ backfill.end \in Nat
      /\ backfill.end = request.end /\ w.start = backfill.next
      /\ w.end <= backfill.end /\ request.at <= w.at
  BY <1>1 DEF ProgressInv, BackfillInv, FeedInv, Typed
<1>5. /\ backfill' = BackfillAfter
      /\ UNCHANGED <<arrival, imported, request>>
  BY DEF CloseWindow, MoveCursor, history
<1>6. BackfillInv' /\ Done' = w.end
  <2> HIDE DEF w
  <2>1. CASE w.end < backfill.end
    <3>1. backfill' = [backfill EXCEPT !.next = w.end]
      BY <1>1, <1>5, <2>1 DEF BackfillAfter
    <3>2. backfill'.next = w.end /\ backfill'.end = backfill.end
      BY <1>4, <3>1
    <3>3. backfill' # NoBackfill
      BY <1>3, <3>2 DEF NoBackfill, NoTime
    <3> QED
      BY <1>1, <1>3, <1>4, <1>5, <2>1, <3>2, <3>3 DEF BackfillInv, Done
  <2>2. CASE ~(w.end < backfill.end)
    <3>1. backfill' = NoBackfill
      BY <1>1, <1>5, <2>2 DEF BackfillAfter
    <3>2. w.end = request.end
      BY <1>3, <1>4, <2>2
    <3> QED
      BY <1>1, <1>5, <3>1, <3>2 DEF BackfillInv, Done
  <2> QED
    BY <2>1, <2>2
<1>7. RangeInv'
  <2> SUFFICES ASSUME NEW x \in Tx, request.from <= Created(x), Created(x) < w.end,
                      arrival[x].shown <= request.at
               PROVE  x \in imported
    BY <1>5, <1>6 DEF RangeInv, Created
  <2>1. Created(x) \in Nat /\ arrival[x].shown \in Nat /\ request.at \in Int
    BY Stamps DEF ProgressInv, FeedInv, Typed, NumbersInv, RequestType
  <2>2. CASE Created(x) < w.start
    BY <1>4, <2>2 DEF ProgressInv, RangeInv, Done
  <2>3. CASE Created(x) >= w.start
    <3>1. w.to <= Created(x) /\ arrival[x].shown <= w.at
      BY <1>1, <1>3, <1>4, <2>1, <2>3
    <3> QED
      BY <1>1, <1>2, <3>1 DEF ProgressInv, FeedInv, CheckpointSound
  <2> QED
    BY <1>3, <2>1, <2>2, <2>3
<1> QED
  BY <1>6, <1>7

\* A backfill's window begins where the backfill is, after it was asked for.
LEMMA BackfillOpens ==
    ASSUME ProgressInv, OpenWindow, job.phase = "backfill", window["backfill"] = NoWindow
    PROVE  BackfillInv' /\ RangeInv'
<1>1. /\ window'["backfill"].start = backfill.next
      /\ window'["backfill"].end = Lower(backfill.next + Window, backfill.end)
      /\ window'["backfill"].at = now
      /\ backfill # NoBackfill
  BY OpenedWindow DEF ProgressInv, WindowStart, WindowEnd, Wanted, Due
<1>2. UNCHANGED <<arrival, imported, backfill, request>>
  BY DEF OpenWindow, history
<1>3. Lower(backfill.next + Window, backfill.end) <= backfill.end
  BY SizeAssumption DEF ProgressInv, FeedInv, Typed, Lower
<1>4. BackfillInv'
  BY <1>1, <1>2, <1>3 DEF ProgressInv, BackfillInv, NumbersInv
<1>5. RangeInv'
  BY <1>2 DEF ProgressInv, RangeInv, Done, Created
<1> QED
  BY <1>4, <1>5

\* A request starts with nothing behind it.
LEMMA BackfillStarts ==
    ASSUME ProgressInv, NEW range \in BackfillRange, StartBackfill(range)
    PROVE  BackfillInv' /\ RangeInv'
<1> DEFINE end == Lower(range.to, now)
<1>1. /\ range.from \in Nat /\ range.to \in Nat /\ now \in Nat
  BY RangeAssumption DEF ProgressInv, FeedInv, Typed
<1>2. end \in Nat
  BY <1>1 DEF Lower
<1>3. /\ backfill = NoBackfill /\ range.from < end
      /\ backfill' = [next |-> range.from, end |-> end]
      /\ request' = [from |-> range.from, end |-> end, at |-> now]
      /\ UNCHANGED <<arrival, imported, window>>
  BY DEF StartBackfill
<1> HIDE DEF end
<1>4. backfill'.next = range.from /\ backfill'.end = end /\ request'.end = end
      /\ request'.from = range.from /\ request'.at = now
  BY <1>3
<1>5. backfill' # NoBackfill
  BY <1>1, <1>4 DEF NoBackfill, NoTime
<1>6. window'["backfill"] = NoWindow
  BY <1>3 DEF ProgressInv, BackfillInv
<1>7. BackfillInv'
  BY <1>1, <1>2, <1>3, <1>4, <1>6 DEF BackfillInv
<1>8. RangeInv'
  <2>1. \A x \in Tx : Created(x) \in Nat
    BY Stamps DEF ProgressInv, FeedInv, Typed
  <2>2. Done' = range.from
    BY <1>4, <1>5 DEF Done
  <2> QED
    BY <1>1, <1>3, <1>4, <2>1, <2>2 DEF RangeInv, Created
<1> QED
  BY <1>7, <1>8

\* Every step keeps the backfill honest.
LEMMA BackfillStep == ProgressInv /\ [Next]_vars => BackfillInv' /\ RangeInv'
<1> SUFFICES ASSUME ProgressInv, [Next]_vars PROVE BackfillInv' /\ RangeInv'
  OBVIOUS
<1>1. CASE OpenWindow /\ job.phase = "backfill" /\ window["backfill"] = NoWindow
  BY <1>1, BackfillOpens
<1>2. CASE CloseWindow /\ job.phase = "backfill"
  BY <1>2, BackfillCloses
<1>3. CASE \E range \in BackfillRange : StartBackfill(range)
  BY <1>3, BackfillStarts
<1>4. CASE /\ ~(OpenWindow /\ job.phase = "backfill" /\ window["backfill"] = NoWindow)
           /\ ~(CloseWindow /\ job.phase = "backfill")
           /\ ~(\E range \in BackfillRange : StartBackfill(range))
  <2>1. /\ UNCHANGED <<arrival, backfill, request>> /\ imported \subseteq imported'
        /\ window'["backfill"] # NoWindow =>
             /\ window["backfill"] # NoWindow
             /\ window'["backfill"].start = window["backfill"].start
             /\ window'["backfill"].end = window["backfill"].end
             /\ window'["backfill"].at = window["backfill"].at
    BY <1>4, OtherStep DEF ProgressInv
  <2>2. BackfillInv'
    BY <2>1 DEF ProgressInv, BackfillInv
  <2>3. RangeInv'
    BY <2>1 DEF ProgressInv, RangeInv, Done, Created
  <2> QED
    BY <2>2, <2>3
<1> QED
  BY <1>1, <1>2, <1>3, <1>4

\* A connection that is set up has asked for nothing.
LEMMA InitProgress == Init => ProgressInv
<1> SUFFICES ASSUME Init PROVE ProgressInv
  OBVIOUS
<1>1. FeedInv
  BY InitFeed
<1>2. /\ now = StartTime /\ StartTime \in Time /\ earliest \in HistoricalFrom /\ floor = earliest
      /\ earliest \in Nat /\ faults = 0 /\ imported = {} /\ job = NoJob
      /\ pollCursor = NoTime /\ auditCursor = NoTime /\ lastAudit = NoTime /\ lastRecent = NoTime
      /\ backfill = NoBackfill /\ request = NoRequest
      /\ \A p \in Phase : window[p] = NoWindow
  BY SizeAssumption, RangeAssumption DEF Init, Time
<1>3. request.from = -1 /\ request.end = -1 /\ request.at = -1 /\ request \in RequestType
  BY <1>2 DEF NoRequest, NoTime, RequestType
<1>4. NumbersInv
  BY <1>2, <1>3, SizeAssumption DEF NumbersInv, IsTime, Time
<1>5. SpanInv /\ CursorInv /\ BackfillInv
  <2>1. "poll" \in Phase /\ "backfill" \in Phase
    BY DEF Phase
  <2> QED
    BY <1>2, <2>1 DEF SpanInv, CursorInv, BackfillInv
<1>6. ReadInv
  BY <1>2, SizeAssumption DEF ReadInv, NoJob
<1>7. RangeInv
  <2>1. \A x \in Tx : Created(x) \in Nat
    BY <1>1, Stamps DEF FeedInv, Typed
  <2> QED
    BY <1>2, <1>3, <2>1 DEF RangeInv, Done
<1> QED
  BY <1>1, <1>4, <1>5, <1>6, <1>7 DEF ProgressInv

\* The inductive invariant of windows, cursors and the backfill.
THEOREM ProgressInvariant == Spec => []ProgressInv
<1>1. ProgressInv /\ [Next]_vars => ProgressInv'
  BY StepFeed, NumbersStep, SpanStep, ReadStep, CursorStep, BackfillStep DEF ProgressInv
<1> QED
  BY <1>1, InitProgress, PTL DEF Spec

\* What was listed when a backfill was asked for is imported as far as it has
\* come; windows, cursors and the job keep their shape.
THEOREM BackfillIsComplete == Spec => []BackfillComplete
<1>1. ProgressInv => BackfillComplete
  <2> SUFFICES ASSUME ProgressInv PROVE BackfillComplete
    OBVIOUS
  <2>1. TypeOK
    <3>1. \A p \in Phase : window[p] # NoWindow =>
              /\ {window[p].start, window[p].end, window[p].to, window[p].at} \subseteq Nat
              /\ window[p].start <= window[p].to /\ window[p].to <= window[p].end
      BY WindowTimes DEF ProgressInv, SpanInv
    <3>2. Running => job.phase \in Phase /\ job.todo \subseteq Tx /\ job.pages \in 0..MaxPages
      BY DEF ProgressInv, FeedInv, Typed, JobType, ReadInv
    <3>3. backfill # NoBackfill =>
              backfill.next \in Nat /\ backfill.end \in Nat /\ backfill.next < backfill.end
      BY DEF ProgressInv, BackfillInv
    <3> QED
      BY <3>1, <3>2, <3>3 DEF ProgressInv, FeedInv, Typed, NumbersInv, TypeOK
  <2>2. RangeInv
    BY DEF ProgressInv
  <2> QED
    BY <2>1, <2>2 DEF BackfillComplete, RangeInv, Done
<1> QED
  BY <1>1, ProgressInvariant, PTL

\* A window's checkpoint only goes down, whatever happens to it.
LEMMA CheckpointsFall ==
    ASSUME ProgressInv, [Next]_vars, NEW p \in Phase,
           window[p] # NoWindow, window'[p] # NoWindow
    PROVE  /\ window'[p].to <= window[p].to
           /\ [window'[p] EXCEPT !.to = 0] = [window[p] EXCEPT !.to = 0]
<1>1. /\ window[p] \in WindowType /\ window'[p] \in WindowType
  BY StepFeed DEF ProgressInv, FeedInv, Typed
<1>2. CASE window'[p] = window[p]
  BY <1>1, <1>2 DEF WindowType
<1>3. CASE Checkpoint /\ p = job.phase
  <2>1. /\ window'[p].start = window[p].start /\ window'[p].end = window[p].end
        /\ window'[p].at = window[p].at /\ window'[p].to = job.next
        /\ job.high = window[p].to /\ job.step = "save"
    BY <1>3, CheckpointedWindow DEF ProgressInv
  <2>2. job.next <= job.high
    BY <2>1 DEF ProgressInv, ReadInv
  <2>3. [window'[p] EXCEPT !.to = 0] = [window[p] EXCEPT !.to = 0]
    BY <1>1, <2>1 DEF WindowType
  <2> QED
    BY <2>1, <2>2, <2>3
<1>4. CASE Checkpoint /\ p # job.phase
  BY <1>2, <1>4, CheckpointedWindow DEF ProgressInv
<1>5. CASE OpenWindow
  BY <1>2, <1>5, OpenedWindow DEF ProgressInv
<1>6. CASE CloseWindow
  BY <1>2, <1>6, ClosedWindow DEF ProgressInv
<1>7. CASE (\E x \in Tx : Persist(x)) \/ (\E d \in HistoricalFrom : EditHistoricalFrom(d))
            \/ (\E range \in BackfillRange : StartBackfill(range))
  BY <1>2, <1>7 DEF Persist, EditHistoricalFrom, StartBackfill
<1>8. CASE ~Writes
  BY <1>2, <1>8, QuietStep DEF durable
<1> QED
  BY <1>3, <1>4, <1>5, <1>6, <1>7, <1>8 DEF Writes

\* Progress is not undone: the poll cursor never moves back, and the checkpoint
\* of an open window only goes down.
THEOREM ProgressIsKept == Spec => ProgressKept
<1>1. ProgressInv /\ [Next]_vars => pollCursor' >= pollCursor
  BY CursorStep DEF ProgressInv
<1>2. ProgressInv /\ [Next]_vars =>
        [/\ pollCursor' >= pollCursor
         /\ \A p \in Phase :
              window[p] # NoWindow /\ window'[p] # NoWindow =>
                  /\ window'[p].to <= window[p].to
                  /\ [window'[p] EXCEPT !.to = 0] = [window[p] EXCEPT !.to = 0]]_vars
  BY <1>1, CheckpointsFall
<1> QED
  BY <1>2, ProgressInvariant, PTL DEF Spec, ProgressKept
=============================================================================
