# Verification of the Revolut bank feed

TLA+ models, TLC runs and TLAPS proofs for `revolut_bank_feed`, a Frappe/ERPNext
app that reads a company's transactions from the Revolut Business API and posts
them as submitted ERPNext *Bank Transactions*. Paths below are relative to the
repository (`src/`).

Contents: [inventory](#inventory), [modules](#modules), [runs](#runs-and-bounds),
[fairness](#fairness), [proofs](#proofs), [divergences](#where-code-and-documents-part),
[assumptions](#what-is-assumed-of-code-outside-src), [not modelled](#not-modelled),
[plan](#plan).

## Inventory

The app runs in three kinds of process that share one MariaDB database and one
Redis: web requests (setup, review, webhooks, form saves), queue workers
(`sync.run`, `enrichment.run`) and the scheduler that enqueues them. The parts:

| Part | State it keeps | Operations | What is hard, and what must hold |
| --- | --- | --- | --- |
| Importer, `importer.py`, `guards.py` | Revolut Source Transaction (latest version, `needs_review`), Source Revision (superseded versions), Source Leg (per leg: current revision, active, fingerprint), the Bank Transactions of each leg and revision | `ingest` by the worker and by a review, `mark_review`, the guards on Bank Transaction saves, cancels and deletes | Versions come late, twice and out of order; maps are paused and resumed; reviewers re-book rows that accountants reconcile. No leg is booked twice, no row is edited or taken from under a reconciliation, what may be reconciled agrees with the latest version, nothing held is out of a reviewer's sight |
| Normalisation, `core.py` | none | `normalize`, `compact_transaction`, `validate_mapping` | Fee policies, zero amounts, refused legs |
| Feed sync, `sync.py`, `core.iter_transactions` | per connection: `poll_cursor`, `audit_cursor`, `backfill_next/end`, one frozen window `<phase>_window_start/end/to` for each of poll, backfill, audit and recent, `last_audit_at`, `last_recent_at` | a run and its phases: poll, (inbox, pending,) backfill, audit, recent recheck | Newest-first pages with an exclusive cursor, equal timestamps, late listings, page and time budgets, failures and dead workers at any point. No cursor or checkpoint passes a transaction that is not imported; the feed catches up |
| Webhook inbox, `webhooks.py`, `sync._inbox`, `_pending`, `cleanup` | Revolut Webhook Event: status, attempts, next attempt | receive, fetch and import, retry with backoff, prune | Redelivery, crash between import and Done, one bad event among good ones. Done means imported at least as new as announced |
| Connection lock, `auth.connection_lock`, `sync.cleanup` | a Redis token that lapses after 960 seconds, log rows | take, find busy, release, lapse; mark rows of dead workers | The lock lapses under whoever holds it, and releasing a lost one is silent. One at a time works on a connection; a dead one's lock and row do not stay |
| Lifecycle, `setup.py`, `api.py`, the controllers of Connection and Account Map | `enabled`, `backfill_next/end`, maps | activate, pause, edit a map, start a backfill, next to a run | Requests commit after they release the lock; a map is validated before it is saved. An accepted backfill is carried out; maps do not change under a run |
| Tokens, `auth.py`, `client.py` | access and refresh token, expiry; the bank's side of them | refresh by age, forced refresh after a 401, exchange of a code | The bank rotates a token before the database holds it; a token ends early. The database keeps up with the bank; reads go on |
| Expense feed, `enrichment.expenses` | `expense_cursor`, `expense_audit_cursor`, two frozen windows, `last_seen_at` | poll, audit, lookups | As for the feed. Nothing listed in time is skipped; unfinished expenses settle |
| Expenses, `enrichment.expense_record`, `upsert`, `receipts`, `receipt_batch`, `enrichment_api.py` | Revolut Expense: version, link, flag, receipts | record, link, refresh, download | Three writers, two of which commit late; partial failures. A changed version of a linked expense is flagged; no receipt is forgotten |
| Evidence, `enrichment.run`, `account_snapshots`, `rates`, `catalogs` | snapshots with fingerprints, daily quotes and catalogue rows, `last_fx_at`, `last_catalog_at` | the run's phases | A phase that fails among others. Snapshots tell what was listed; daily phases have their turn |
| Setup, `setup.py`, `api.py`, `revolut_connection.py` | the connection's row, private key and tokens | certificate, client ID, code, key, activation, forms in the Desk | Open forms are stale, a blank password field deletes its secret, saves commit after the lock is released. No secret is lost, no key replaced, tokens fit the client |
| Install, deployment, navigation, pages | records made once | | configuration and user interface |

How they interact: a worker takes the connection lock, reads the maps once, and
passes each transaction the API returns to `ingest`, committing after each one.
`review_and_apply` takes the same lock, fetches the transaction anew and calls
`ingest` with `apply_review`. ERPNext's own reconciliation saves Bank
Transactions directly and meets only the guards. Webhooks store an event and
enqueue a run. The lock is a Redis lease and is not held until the request's
database commit.

## Modules

**`StatementLedger`** is what an accountant is promised, without saying how:
each leg has at most one live statement line, whose entry is never edited; it
is voided or replaced only while nothing is reconciled against it; while it is
held for review it gains no reconciliation.

**`Importer`** models `ingest` whole, with `mark_review`, the guards, the review
action, the map and connection operations that decide what `ingest` sees, and
uninstalling. Its variables are the doctypes; `bank[t][a][r]` is the Bank
Transaction whose `custom_revolut_entry_key` is the hash of leg and revision.
The correspondence:

| Code | Definition |
| --- | --- |
| early return on an older `updated_at` (96-97) | `Stale` |
| revision, `source.update` (98-121) | `SaveSource` |
| building `target`, `FeedError` (122-146), `normalize` | `Target`, `Desired`, `MustReview`, `LegRefused`, `Net` |
| paused maps, conflicts (148-173) | `PausedReview`, `Conflicts`, `NeedsReview`, `MarkReview` |
| cancelling in a review (174-196) | `ConflictsUnlinked`, `SettleRows`, `SettleLegs` |
| keeping and creating rows (198-269) | `Kept`, `Created`, `NextRevision`, `EntryKeysFree`, `NewRow` |
| closing (270-280) | `Settle` |
| `guards.py` | `MayRelink`, `ReconcileRow`; cancelling and deleting an imported row, and editing its fields, are refused and are no actions |

One call of `ingest` is one step: it runs inside a savepoint or request
transaction, under the connection lock, and when it raises everything it did is
rolled back, which is no step. What is abstracted: a row's financial fields are
an *entry* `[net, day]` (bank account, company, currency and time zone are fixed
by the leg, because a map's are immutable); an account has one currency and a
transaction at most one leg per account; the custom fee and bill fields, which no
decision reads, are left out; a leg that `normalize` refuses for its id or
amount is in `bad`. `used` is a history variable, the maps of each transaction's
last import, so that properties can speak of what was known then. Reinstalling
is one step: rows that are edited by hand while the app is not installed are
outside the model.

`Policy` gives each account the fee policies that its map may take in an instance.
**`MCImporter`** gives it versions for TLC.

**`FeedSync`** models a run and the four phases that read the transaction list.
Durable state is what the Connection row holds; `job` is the local state of
`_run_locked`, `_window` and `iter_transactions`, lost when the worker dies. A
run goes `open` (choose or resume a window) to `page` (fetch) to `ties` (probe a full
page's last timestamp) to `save` (one commit per transaction, then the checkpoint)
and back, to `close` (drop the window and move the cursor in one commit). The
API is external: it lists a transaction from its moment `shown` on, newest
first, equal timestamps in any order. `floor` (the latest value `historical_from`
has had) and `request` (the last backfill) are history variables, as is a
window's `at`, the time it was frozen. The inbox and pending phases between poll
and backfill import single transactions and touch no window: they could only
make `imported` grow sooner (they are module `Inbox`). `PhaseFails` is any error of a call or an ingest,
`RunDies` a dead worker or an error before the phases.

**`MCFeedSync`** gives it arrival times for TLC.

**`Inbox`** models what happens between a notification and its import: the web
server's `receive`, the Redis queue, the job and its lock, the inbox and pending
phases, and the pruning of events. An event says that a transaction has reached a
version; versions go up to `Final`, and a transaction in `Poison` cannot be booked
in its final one, so that `ingest` raises each time. The correspondence:

| Code | Definition |
| --- | --- |
| `webhooks.receive`: the name is a digest of the body, one commit, then the queue, whose failure is swallowed | `Known`, `Receive`, `Enqueued` |
| `sync.schedule`, `enqueue_connection` with `deduplicate` | `Schedule`, `Enqueued` |
| `run`: busy, disabled, or at work; the lease of `connection_lock` | `StartRun`, `EndRun`, `RunFails`, `RunDies`, `LeaseExpires` |
| `_inbox`: list 50 due events; fetch, import and commit, mark Done and commit; on an error put off this event and end the phase | `ListInbox`, `FetchEvent`, `PersistEvent`, `MarkDone`, `EventFails`, `Reschedule`, `EndInbox` |
| `_pending`: list 50 rows last checked 15 minutes ago or more; a failed one goes to the back, the others go on | `ListPending`, `Recheck`, `Rotate`, `EndPending` |
| poll, backfill, audit, recent recheck | `ReadFeed`: any transaction may be imported |
| `cleanup` | `Cleanup` |

Time is counted in ticks of a quarter of an hour, the unit of the backoff and of
`last_checked`. `wait` and `rest` count down to the moment a row is due, and the
relations `before` and `older` keep the order among rows, which is all that the
queries ask of the timestamps. An inbox event's fetch, import and mark are
separate steps, since events and ticks come in between and a worker may die
there; a recheck, and a transaction of the feed, are fetched and imported in one
step, because the lock keeps every other import away. A fetch is taken to return
the current version. `enabled` stands for the connection's and the webhook's
switch. `accepted` is a history variable: the events answered "accepted".

**`MCInbox`** gives it a transaction that can be imported and one that cannot.

**`Exclusive`** is what `connection_lock` promises: one at a time. **`Lease`** is how:
a token in Redis that lapses by itself, jobs and requests that must be over
before, workers that die, and `cleanup`, which marks a log row Interrupted when it
has been Running for half an hour. A run is one execution of a job or a request.

| Code | Definition |
| --- | --- |
| `connection_lock`: token, busy, compare and delete | `Start`, `Busy`, `Released`, `End`, `Lapsed` |
| log row of a run, final status | `Start`, `End` |
| `cleanup` of rows | `Abandoned`, `Cleanup` |

**`Lifecycle`** puts the requests that change a connection next to the job. A request
checks, writes (`Write`, which waits for the row's lock) and is committed later;
`activate` commits within the lock. A map's save looks at `enabled`, then at the
lock, and is committed whenever (`CheckMap`, `CheckLock`, `CommitMap`). The run reads
the connection, then the maps, and imports one window of the backfill it read.

**`Tokens`** has both sides of the consent. A caller holds the lock for a whole call:
it uses the saved access token if that has more than 90 seconds to go, asks for
one otherwise, sends, and after a 401 forces one refresh, within five attempts.
The bank may rotate the refresh token with each grant; between its answer and
`save_tokens`, and between a request and its answer, callers die and answers get
lost. Tokens are "current", "old" or missing.

**`ExpenseFeed`** says which expenses a run reads: the poll from the cursor less an
hour, the daily audit of thirty days, the lookups of unfinished expenses. Times are
ages, so that the clock need not be bounded; pages are abstracted to the day that
they reach down to. **`Expenses`** says what happens to one of them: `expense_record`
in its two commits (`Upsert`, `MarkPending`), `receipts` (`SaveReceipt`,
`ReceiptFails`), `receipt_batch`, and the two requests, each committed after its lock is
released (`LinkExpense`/`CommitLink`, `EndRefresh`/`CommitRefresh`).

**`Evidence`** is `enrichment.run` with its five phases and the content of the three
that have no cursor. An account stands for its currency; expenses and receipts only
end or fail. A daily phase commits item by item and starts over each time until it
got to its last.

**`Setup`** models the connection's row as the documents that requests and forms load
of it, RevolutConnection.validate (`MayEnable`, `Protected`, `MaySave`) and Frappe's
save (`Outdated`, `SavedRow`, `SavedAuth`). A request reads under the lock, except
`connect_from_paste`, which reads before it (`BeginConnect`); all but `activate` and the
exchange commit after they release it.

**`Rotation`** is what `Inbox`, `ExpenseFeed` and `Expenses` share: rows that are read with
`order_by` on a time and `limit_page_length`, so that what was touched last comes last. An
order is a relation, and a query may return any batch that the order allows
(`IsBatch`); `Touched` moves rows to the end.

How the modules compose: `Lease` shows that what `Importer`, `FeedSync`, `Inbox`,
`ExpenseFeed` and `Evidence` take for granted, that one run at a time works on a
connection, follows from the time limits. `Tokens` is shown to use that lock as
`Exclusive` says: from its first look at the tokens to its result, over retries and
refreshes, a call is the only one at work (`LockProofs!CallersExclude`). `Lifecycle`, `Expenses`, `Tokens` and `Setup`
take the lock itself as exclusive and look at what it does not cover: commits after
its release, and reads before it.

History variables name exceptions rather than hide them: `overlap` (`Setup`: a request
began before another was committed), `edited` (`Setup`: the client was changed in the
advanced settings), `crossed` (`Lifecycle`, `Expenses`: something was read while a request
that would change it had not committed), `torn` (`Expenses`: a worker died between the
two commits of a record), `lost` (`Tokens`: the bank's answer reached nobody),
`punctual` (`ExpenseFeed`: listed within the overlap). What the properties promise outside
these exceptions holds in every interleaving; what happens inside them is told
[below](#where-code-and-documents-part).

**`ImporterProofs`**, **`FeedSyncProofs`**, **`InboxProofs`**, **`ExpensesProofs`**,
**`LifecycleProofs`**, **`SetupProofs`**, **`LockProofs`** (of `Lease` and `Tokens`) and
**`EnrichmentProofs`** (of `ExpenseFeed` and `Evidence`) hold the theorems. The modules of
such a pair share no name (`ClientSpec` and `ClientTypeOK` are those of `Tokens`,
`EvidenceSpec` and `EvidenceTypeOK` those of `Evidence`), so that one module extends both.

Definitions that follow a comment "Mutant" are deliberately wrong variants of the
definition after them. They are used by nothing; each is put in the place of
its neighbour to see that a property notices.

## Runs and bounds

| Run | What it asks | Bounds, and why they are enough |
| --- | --- | --- |
| `importer` | Do leg records, rows, holds and reviews stay consistent, and is the ledger implemented, when versions, fee policies and maps change? | One transaction (transactions share only the maps); two accounts, so that one leg conflicts or is paused while the other is not; three versions, of which two share an `updated_at` and have a fee on one leg or the other, and one takes the transfer back; a policy that deducts the one fee and one that has the other reviewed, so that the same version is refused or settled as maps are paused and resumed; two rows per leg, so that a row is cancelled and booked again once, also after a reinstall; one voucher |
| `feed` | Does every cursor and checkpoint stay behind what is imported, and is progress kept, with poll, backfill, audit and recheck side by side? | Three transactions, pages of two, tie answers of three (so one timestamp can saturate), windows of two ticks, an overlap of two and a margin of one, two pages per run, clock from 2 to 4 (the cursor passes the overlap of a late listing), one fault anywhere, `historical_from` 0 or 2 |
| `feed_live` | Does the poll catch up and a backfill end? | Two transactions, pages of one and one page per run, so that a window needs several runs and lives by its checkpoints; one fault; `historical_from` 0 or 1, less than a window apart |
| `feed_stall` | The first divergence below | No faults, `historical_from` 0 or 3, a window of two |
| `inbox` | Is any accepted event lost, and do events and rechecks get their turn next to one that always fails? | Two transactions of two versions, the bank tells of both of one and of the last of the other, which is poisoned; queues of one slot, at their limit whenever two rows are due; a backoff that stops growing after one failure and waits two ticks; one fault of any kind at any point, among them a dead worker that leaves its lock and a queue that loses its job |
| `expense_feed` | Is any expense skipped, does each arrive, do unfinished ones settle? | Two expenses, one of which can never be looked up; windows of two ticks, an overlap of one, a day of one; lookups one at a time; ages to 4, expenses listed up to the overlap late; one fault. The connection is not left alone until a cursor is as old as the oldest age |
| `expenses` | Are changes of linked expenses flagged, are receipts forgotten, do they arrive? | Two expenses, one whose receipt is of a format that can never be saved, so that it heads every batch it is let into, and one with two versions, the second with another receipt; batches of one; one fault anywhere |
| `lease` | Does a lock that lapses exclude, and are the dead cleared away? | Two jobs and a request with limits of 3 ticks, a lease of 4, rows given up after 6: the order that 900, 960 and 1800 seconds have |
| `lifecycle` | Is an accepted backfill kept and served, and do maps stay as a run read them? | Two requests, two backfills of two windows, two map edits |
| `tokens` | Does the database keep up with the bank, and do reads go on? | A job and a request, tokens of three ticks (so that they are used, refreshed by age and run out), three attempts, three faults, two consents |
| `evidence` | Do snapshots tell what was listed, and are quotes and catalogues renewed daily? | Three accounts of three currencies, one the company's, catalogues of two rows; receipts fail in every run; one more fault anywhere |
| `setup` | Are secrets kept, keys not replaced, and tokens those of the client? | Three requests or forms, two clients, two generated keys and one brought along; symmetric |

Properties of `Importer`: `TypeOK`; `OneSubmittedRow` (no double booking);
`LegsMatchRows` (a leg record and its rows tell one story); `HeldRowsUnderReview`
(no row is held unless its source asks for review: nothing is stuck out of
sight, nor orphaned by an uninstall); `OpenRowsAgree` (a row that can be
reconciled freely states what the latest version says); `ClosedSourceComplete`
(no review open, nothing missing); `RowsHaveEvidence` (each row a leg ever had can
be traced to a recorded version); `RowsNeverRewritten`; `ImplementsLedger`
(refinement of `StatementLedger`). Of `FeedSync`: `CheckpointSound`,
`PollComplete`, `BackfillComplete`, `ProgressKept`, `PollCatchesUp`, `BackfillEnds`.
Of `Inbox`: `TypeOK`; `AcceptedKept` (an accepted event stays open until what it
tells of is imported: an event is neither taken for a duplicate of another nor
marked Done without its import); `EventsWorkedOff` (one that can be booked does
not stay open); `PendingSettles` (without any notification, a pending transaction
is imported as final once the bank is through with it). Of `ExpenseFeed`:
`NoExpenseSkipped`, `ExpensesArrive`, `UnfinishedSettles`. Of `Expenses`:
`LinksAcknowledged`, `NoReceiptForgotten`, `ReceiptsArrive`. Of `Lease`: `OneWorker`,
`InterruptedAreDead`, `ImplementsExclusive` (refinement of `Exclusive`), `DeadCleared`. Of
`Lifecycle`: `BackfillKept`, `MapsStable`, `BackfillServed`. Of `Tokens`: `NoLockout`,
`ReadsGoOn`. Of `Evidence`: `SnapshotsTell`, `DailyRenewed`. Of `Setup`: `TypeOK`,
`SecretsKept`, `KeyNotReplaced`, `TokensOfClient`. Where a run does not list `TypeOK`, one of
its invariants has it as a conjunct (`SnapshotsTell` has `EvidenceTypeOK`), or a theorem
states it (`ClientTypeOK`) or contains it (`Lease`).

Deadlock is checked in every run.

## Fairness

Nothing is asked of users, administrators, the bank or `cleanup` of events, and no
fault is made fair: `MaxFaults` bounds them, so that liveness is promised after any
finite number of them. The scheduler enqueues runs for ever (`hooks.py`) and a worker
goes on with the job it has. In particular:

* `FeedSync`: weak fairness of `RunStep` and `Tick`.
* `Inbox`: weak fairness of `Schedule`, `StartRun`, `RunStep`, `Tick` and `LeaseExpires`, for
  Redis drops a lease after its 960 seconds. Both properties are promised only if the
  connection stays enabled from some time on, and `EventsWorkedOff` not for a
  transaction that cannot be booked: its event stays in the inbox, as `cleanup`'s
  comment says.
* `ExpenseFeed`: weak fairness of `StartRun` and `RunStep`, strong fairness of `Tick`, which
  happens only between runs: runs take ten minutes of an hour at the most.
* `Expenses`: weak fairness of `WorkStep` and of the commits of requests; strong fairness of
  `StartJob`, because a request may hold the lock now and then, but not whenever the job
  is tried; strong fairness of `EndExpenses` and of reading a page again, because a run
  neither reads expenses for ever nor leaves a page out for ever.
* `Lease`: weak fairness of `Tick`, of `Cleanup` (daily) and of `End`.
* `Lifecycle`: strong fairness of `StartRun` and `ImportWindow` (requests come in between;
  a backfill may fail, but not each time), weak fairness of the other steps of a run
  and of the requests' writes and commits.
* `Tokens`: weak fairness of beginning a GET and of each caller's progress.
* `Evidence`: weak fairness of `BeginRun`, `Work` and `NextDay`.

`PollComplete` states exactly what the polling discipline gives: transactions
that the API lists within the 5-second margin are imported once the cursor
passes them; those listed late, by up to the overlap plus the margin, once the
cursor is an overlap past them; transactions before the latest `historical_from`
are not promised (moving it back does not rewind the cursor, as
`docs/operations-reference.md` says).

## Proofs

`tlapm` checks, for all values of the constants that satisfy the modules'
assumptions (well-formed versions, known fee policies; finitely many transactions,
expenses and events, none listed before it is created; positive sizes; limits below
the lease; an audit window that is no shorter than the day between audits):

* `ImporterProofs!TypeCorrect`: `Spec => []TypeOK`.
* `ImporterProofs!RowsInvariant`: the inductive invariant `RowsInv`, which is
  `TypeOK`, `LegsMatchRows`, `NoGaps` and `OneSubmittedRow`. `OneSubmittedRow` is not
  inductive: booking a row needs to know that the leg's other rows are cancelled,
  which its record says (`LegsMatchRows`) as long as there is one. After a
  reinstall there is none, and only the entry keys are left: since they have no
  gaps (`NoGaps`), the free key 1 shows that the leg has no row at all. The proof
  goes leg by leg (`LegInv`): a settlement creates, cancels or keeps.
* `NoDoubleBooking`, `LegRecordsMatchRows`: the two properties, from it.
* `ImporterProofs!ReviewInvariant`: the inductive invariant `ReviewInv`, `RowsInv`
  with `HeldInv`, `OpenInv` and `ClosedInv` for each transaction; `NothingHeldForEver`,
  `OpenRowsUpToDate` and `NothingMissing` follow. The three need one another's row
  facts: a version that is refused holds every active row, so nothing open disagrees;
  one that is settled re-books what conflicts and releases the rest, save the rows of
  paused maps, whose hold keeps the review (`PausedReview`).
* `ImporterProofs!RowsTraced`: `Spec => []RowsHaveEvidence`. What `normalize` says of a
  leg depends on that account's fee policy alone (`DesiredStated`), so that
  `TraceInv` can be stated without the maps of the moment; the versions on record only
  grow (`RecordGrows`), until an uninstall forgets the legs too.
* `ImporterProofs!RowsFrozen`: `Spec => RowsNeverRewritten`. `IngestRow` says all that a call
  of `ingest` may do to a row: hold, release or cancel a submitted one, or post where
  there is none.
* `ImporterProofs!ImporterImplementsLedger`: `Spec => ImplementsLedger`. A leg has one live
  line because it has one submitted row (`LinesOfRows`, from `RowsInv`); settling,
  holding and reconciling rows are the ledger's three steps (`SettledLine`, `MarkedLine`,
  `ReconciledLine`), and every other step leaves the lines alone.
* `FeedSyncProofs!FeedInvariant`: the inductive invariant `FeedInv`, of which
  `CheckpointsSound` and `PollIsComplete` (`Spec => []CheckpointSound`,
  `Spec => []PollComplete`) follow, for every page, tie and window size, whatever
  the order of equal timestamps, with any number of faults. A checkpoint is
  honest because the job holds or has imported all that was known down to where
  it has read (`JobInv`): a short page is all there is (`ShortPage`, by
  cardinality), a full one all above its oldest timestamp, which the tie probe
  completes. The poll is complete because a window ends the margin before it was
  frozen (`ClockInv`), its checkpoints are honest, and it starts an overlap
  behind the cursor or where the promise starts (`PollWindowJoins`): what lies
  below the window was settled by an earlier one.
* `FeedSyncProofs!ProgressInvariant`: the inductive invariant `ProgressInv`, `FeedInv` with
  what the numbers say of one another; `BackfillIsComplete` (`Spec => []BackfillComplete`,
  and with it `TypeOK`) and `ProgressIsKept` (`Spec => ProgressKept`) follow. A checkpoint
  only goes down because what is read lies between the window's start and its old
  checkpoint (`ReadInv`); the poll cursor only rises because the open window was made
  from it and ends no earlier (`CursorInv`). The backfill is complete as far as it has
  come because its window starts where it is and was frozen after the request
  (`BackfillInv`), so that an honest checkpoint at the start settles the whole window.

* `InboxProofs!NoEventLost`: `Spec => []AcceptedKept`, for any number of events,
  poisoned transactions and faults. The invariant `InboxInv` adds that the bank had
  reached what was accepted (`AcceptedReached`), so that what is fetched later is
  never older, and that the job, between import and Done, works on an open event
  whose version is already imported (`JobInv`).

* `InboxProofs!QueuesOrdered`, `InboxTyped`: the queues that the job reads are strict
  orders, and `Spec => []TypeOK`. The order of events must agree with the time each has
  to wait, through backoffs that are cut off (`BackoffBounded`), ticks that stop at zero
  (`CountsDown`) and events put in at any place (`PlacedOrders`); a batch never exceeds its
  limit, because only a query fills it and each step takes one out. `TypeOK` also says
  who may have the lock and the job, which goes with it.
* `LockProofs!OneWorkerAtATime`, `OnlyDeadInterrupted`, `LeaseImplementsLock`: the two
  invariants and the refinement of `Exclusive`, for any number of runs and any limits
  below the lease and the age at which `cleanup` gives a row up. The invariant
  `LeaseInv` ties the token's remaining time to the age of its holder: who works has the
  token, because a limit ends before the lease (`LimitBelow`).
* `LifecycleProofs!LifecycleInvariant`, `AcceptedBackfillKept`, `MapsKeepStill`: the
  inductive invariant `IInv`, `Spec => []BackfillKept`, `Spec => []MapsStable`, for any
  number of requests, ranges, windows and edits. An accepted backfill is not replaced
  because one is asked for at a time, and only when none is under way; the run that is
  about to write `backfill_next` has it as it is (`BackfillInv`). Maps keep still because
  an edit needs a free lock last of all (`MapInv`).
* `ExpensesProofs!ExpensesInvariant`, `NoStaleLink`, `NoReceiptLost`: the inductive
  invariant `IInv`, `Spec => []LinksAcknowledged`, and `ReceiptsRecorded` of every expense,
  for any number of expenses, versions, receipts, files deleted and workers dead. Who is
  about to write a version saw the link that there is (`LinkInv`); what an expense lacks is
  pending, being fetched, or about to be marked (`ReceiptInv`).
* `ExpensesProofs!ExpensesTyped`, `NothingForgotten`: `Spec => []TypeOK`,
  `Spec => []NoReceiptForgotten`. To the invariant `IInv` they add `Shape`: what is
  recorded, being recorded or acknowledged has been at the bank, files are of receipts that
  are stored, the work is on a version that is read or recorded, and the order by
  `receipt_last_checked` is strict whatever is checked (`CheckedLast`).
* `EnrichmentProofs!FeedInvariant`, `EveryExpenseRead`: the inductive invariant
  `FeedInv` and `Spec => []NoExpenseSkipped`, for any windows, overlap, batches, ages and
  faults. `SkipInv` says what has to be recorded already: what is older than the poll's
  cursor less the overlap; and, while a window is frozen, what lies between its end less
  the overlap and its checkpoint, and what is older than its start, since the next cursor
  is the window's end. It is kept because a window starts where the poll stopped looking
  (`PollStart`), a page is recorded before its checkpoint moves, and ages grow alike
  (`WindowInv`, `BankInv`). That expenses are listed within the overlap is `punctual`, a
  promise of the bank that the invariant does not make for it.
* `EnrichmentProofs!SnapshotsAgree`: `EvidenceSpec => []SnapshotsTell`, for any number
  of accounts, rows, days and faults. A snapshot is only written when its fingerprint
  differs, so the invariant is that the two agree (`PrintInv`); a run has items only in a
  daily phase that was due (`RunShape`), whatever failed before it.
* `LockProofs!TokensTyped`, `NeverLockedOut`: `ClientSpec => []ClientTypeOK`,
  `ClientSpec => []NoLockout`, for any number of callers, attempts, faults and consents.
  The invariant adds that only the lock's holder is at work, and what a caller between
  answer and save holds: whoever has the current refresh token saves it before another
  can ask.
* `LockProofs!CallersExclude`: the callers implement `Exclusive` with the caller that is
  at work, by its own state, as the worker (`AtWork`). Every step of a call ends it or
  leaves it at work (`GoesOn`), and a call begins only when all others are idle.
* `SetupProofs!SetupTyped`, `NoSecretLost`: `Spec => []TypeOK`, `Spec => SecretsKept`, for
  any number of requests and forms. The invariant adds that a document that passes for
  the latest agrees with the row in the fields a user may not edit and in the marks of
  its password fields, and that only the row's writer has a save to commit.
* `SetupProofs!RequestsRely`, `KeyStays`, `TokensFitClient`: `Spec => []AloneInv`,
  `Spec => KeyNotReplaced`, `Spec => []TokensOfClient`. While no requests have overlapped,
  one is at work at a time (`SoleInv`), and what it read before it took the lock still
  holds when it writes (`Relies`): there is no key, the client is the one it read, the
  connection is not authorized.

So every safety property of a passing run, invariant, action property or refinement, is
a theorem. Model-checked only: liveness under fairness (`PollCatchesUp`, `BackfillEnds`,
`EventsWorkedOff`, `PendingSettles`, `ExpensesArrive`, `UnfinishedSettles`, `ReceiptsArrive`,
`DeadCleared`, `BackfillServed`, `ReadsGoOn`, `DailyRenewed`), which is out of the prover's
reach, and the violation of `feed_stall`, which is a counterexample.

## Where code and documents part

Of these the first has a run that shows it (`feed_stall`); the others are exceptions
or assumptions of properties that hold otherwise.

1. *The poll stalls.* When `historical_from` is moved forward to the poll cursor plus
   `window_days` or later, `_poll` (`sync.py:182`) computes a range whose start is not below
   its end, skips the phase and never moves the cursor again. Runs report success,
   against `docs/operations.md` ("Sync is still catching up | Leave it running") and
   `docs/sync-reference.md` ("Every 15 minutes: transactions from the saved cursor minus 60
   minutes through the next bounded interval").
2. *A link crosses a new version.* `link_expense` (`enrichment_api.py:94`) is committed after
   it released the lock. The job in between reads no `linked_document` (`enrichment.py:30`) and
   records a new version without a flag; the link then stands on what was not linked.
   `LinksAcknowledged` excepts `crossed`.
3. *Two backfills are accepted.* `start_backfill` (`api.py:119-125`) is committed after the
   lock; a second request in between is answered "queued" too and overwrites the range.
   `BackfillKept` excepts `crossed`.
4. *A map changes under a run.* A map is validated against a disabled connection and a lock
   that is free for a moment (`revolut_account_map.py:11-18`), and committed later.
   `MapsStable` excepts `crossed`.
5. *A key is replaced.* `generate_certificate` (`setup.py:123`) looks for a key while another
   request has saved one and not committed it. `KeyNotReplaced` excepts `overlap`.
6. *Tokens of another client.* `connect_from_paste` (`setup.py:172`) reads the client before it
   takes the lock. `TokensOfClient` excepts `overlap`.
7. *The expense audit does not rotate.* `last_expense_audit_at` lies a day back when an audit
   is due, and its cursor then never reaches the cutoff of that moment, so that the test
   for beginning anew (`enrichment.py:287`) does not fire: once the audit has caught up it
   reads only the day before, against "Rotate 30 days per day to discover old
   edits/receipts, including terminal expenses" (`enrichment.py:285`). `AuditStart` says so, and
   no property promises that late edits are found.
8. *A quote that fails starves those behind it.* `rates` (`enrichment.py:110`) asks in
   alphabetical order and stops at the first failure; the next run begins at the same
   currency. `DailyRenewed` is checked with currencies that come through in the end.
9. *A record torn in two.* When a worker dies between the two commits of a looked-up or
   refreshed expense (`enrichment.py:201`), its receipts wait for its next version.
   `NoReceiptForgotten` and `ReceiptsArrive` except `torn`.

## What is assumed of code outside src

* MariaDB: a read sees what is committed; a write that is not committed keeps other
  writers of its row waiting; a request or job that dies is rolled back.
* Frappe: `Document.save` reads the row again and locks it, refuses a document whose
  `modified` is not the row's, writes every field, and removes a secret whose password
  field is blank. Jobs are enqueued when they are said to be, after the commit.
* RQ kills a job after its timeout, and the web server a request after its own
  (`RequestLimit`), which the code does not set; both are below the 960 seconds.
* Redis drops a key after its timeout, and may lose its queue.
* Revolut: a transaction, once listed, stays listed; pages come newest first with equal
  timestamps in any order; a fetch returns the current version; an answer to a code has
  a refresh token; a refresh ends the access token before it and may rotate the refresh
  token.
* A run's ten minutes are less than a tick of `ExpenseFeed`, and a request takes no more
  than one tick of `Tokens`.
* The switches for quotes and catalogues are on in `Evidence`.

## Not modelled

* `use_quote` (a Currency Exchange record under a lock of its own): whether a second
  record of one day and pair is refused is ERPNext's doing.
* `create_bank_account`, `account_options` and the creation of a connection: records
  made once, without state that interacts.
* HTTP transport, waiting times, allowed paths and the parsing of answers (their
  failures are the faults of the modules); conversions of money, timestamps and time
  zones; the webhook's signature check and body parsing; certificates.
* The connection's status fields and the wording of errors.
* Field and index creation on install, the deployment check, navigation and pages:
  configuration and user interface without state of their own.

## Plan

Done: every component with state of its own has a module, a run and mutants; all
have theorems, and every safety property of a run has one.
Left, in this order: the expense feed against `FeedSync`'s window discipline, of which it
is a second copy; `IngestRace`, two calls of `ingest` after a lease lapsed under a request
that nothing limits; `Normalize` against a table of fee cases; `use_quote`.
