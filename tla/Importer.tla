------------------------------ MODULE Importer ------------------------------
(***************************************************************************)
(* importer.py, with the document guards that protect what it writes: how  *)
(* one version of a bank transaction becomes submitted Bank Transaction    *)
(* rows, when a changed version is held for review, and what a reviewed    *)
(* change does to the rows already in the books.                           *)
(*                                                                         *)
(* ingest() runs in one database transaction (a savepoint around it undoes *)
(* it when it raises), under the connection lock, so a call is one step;   *)
(* a call that raises changes nothing and is no step.  Module FeedSync     *)
(* models which versions reach it and what a crash between calls does.     *)
(***************************************************************************)
EXTENDS Integers, FiniteSets

CONSTANTS
    Tx,         \* transaction ids of one connection
    Account,    \* Revolut accounts (an account has one currency, and a
                \* transaction at most one leg in it)
    Voucher,    \* accounting vouchers a bank row can be reconciled against
    Payload,    \* the versions of a transaction the Revolut API may return
    NoPayload,  \* the source record does not exist
    Policy,     \* fee policies the mapping of each account may be given
    MaxRev,     \* bound: bank rows per leg
    MaxAlloc    \* bound: allocation of a voucher to a row

KnownState == {"created", "pending", "completed", "declined", "failed", "reverted"}

FeePolicy == {"Review", "Amount includes fee", "Deduct fee from amount"}

\* A version as compact_transaction keeps it.  at is updated_at; day is
\* completed_at, 0 when missing; bad are the legs that normalize() refuses
\* for their id or an amount that is not money.
PayloadType ==
    [state : KnownState \cup {"unsupported"}, at : Nat, day : Nat,
     legs : SUBSET Account, bad : SUBSET Account,
     amount : [Account -> Int], fee : [Account -> Int]]

ASSUME PayloadAssumption == Payload \subseteq PayloadType /\ NoPayload \notin Payload
ASSUME PolicyAssumption == Policy \in [Account -> SUBSET FeePolicy]
ASSUME BoundAssumption == MaxRev \in Nat \ {0} /\ MaxAlloc \in Nat

VARIABLES
    source,     \* Revolut Source Transaction: latest version, needs_review
    evidence,   \* Revolut Source Revision: the superseded versions
    leg,        \* Revolut Source Leg: current revision, active, fingerprint
    bank,       \* Bank Transaction: the row of each leg and revision
    map,        \* Revolut Account Map of each account
    enabled,    \* Revolut Connection: enabled
    used        \* history: the maps of the last import of each transaction

vars == <<source, evidence, leg, bank, map, enabled, used>>

-----------------------------------------------------------------------------
(* Records *)

Revision == 1..MaxRev

Unlinked == [v \in Voucher |-> 0]

Links == [Voucher -> 0..MaxAlloc]

\* What a row states and financial_fingerprint covers: deposit - withdrawal
\* and the date.  Bank account, company and currency are fixed by the leg.
Entry == [net : Int, day : Nat]

NoEntry == [net |-> 0, day |-> 0]

Row == [status : {"none", "submitted", "cancelled"}, entry : Entry,
        held : BOOLEAN, links : Links]

NoRow == [status |-> "none", entry |-> NoEntry, held |-> FALSE, links |-> Unlinked]

Leg == [revision : 0..MaxRev, active : BOOLEAN, fingerprint : Entry]

NoLeg == [revision |-> 0, active |-> FALSE, fingerprint |-> NoEntry]

Mapping == [status : {"none", "paused", "enabled"}, policy : FeePolicy]

Unmapped == [status |-> "none", policy |-> "Review"]

Submitted(row) == row.status = "submitted"

Current(t, a) == bank[t][a][leg[t][a].revision]

Paused(m, a) == m[a].status = "paused"

-----------------------------------------------------------------------------
(* normalize(): what a version says should be in the books *)

\* Only called for a leg that LegRefused does not refuse.
Net(p, a, m) ==
    IF m[a].policy = "Deduct fee from amount" THEN p.amount[a] - p.fee[a] ELSE p.amount[a]

LegRefused(p, a, m) ==
    \/ a \in p.bad
    \/ p.fee[a] < 0
    \/ p.fee[a] # 0 /\ m[a].policy = "Review"

EnabledAccounts(m) == {a \in Account : m[a].status = "enabled"}

\* A FeedError while the target rows are worked out.
MustReview(p, m) ==
    \/ p.state \notin KnownState
    \/ /\ p.state = "completed"
       /\ \/ p.legs = {}
          \/ \E a \in p.legs : m[a].status = "none"
          \/ EnabledAccounts(m) # {} /\ p.day = 0
          \/ \E a \in p.legs \cap EnabledAccounts(m) : LegRefused(p, a, m)

\* The legs that should have a row, and what the row should state.
Target(p, m) ==
    IF p.state = "completed"
    THEN {a \in p.legs \cap EnabledAccounts(m) : Net(p, a, m) # 0}
    ELSE {}

Desired(p, a, m) == [net |-> Net(p, a, m), day |-> p.day]

-----------------------------------------------------------------------------
(* ingest() *)

Exists(t) == source[t].payload # NoPayload

Stale(t, p) == Exists(t) /\ p.at < source[t].payload.at

\* Mutant: changes are looked for in the state only.
ConflictsByState(t, p) ==
    {a \in Account \ Target(p, map) : leg[t][a].active /\ ~Paused(map, a)}

\* Active legs whose row is not what the new version asks for.  Legs of a
\* paused mapping are left as they are.
Conflicts(t, p) ==
    {a \in Account :
        /\ leg[t][a].active
        /\ ~Paused(map, a)
        /\ \/ a \notin Target(p, map)
           \/ leg[t][a].fingerprint # Desired(p, a, map)
           \/ ~(Submitted(Current(t, a)) /\ Current(t, a).entry = Desired(p, a, map))}

\* Mutant: a paused leg's hold is forgotten.
PausedReviewForgotten(t) == FALSE

PausedReview(t) ==
    \E a \in Account : leg[t][a].active /\ Paused(map, a) /\ Current(t, a).held

\* Mutants: the replaced version is not kept, or is kept before there is one.
SaveSourceOnly(t, p, review) ==
    /\ source' = [source EXCEPT ![t] = [payload |-> p, needsReview |-> review]]
    /\ used' = [used EXCEPT ![t] = map]
    /\ UNCHANGED evidence

SaveSourceAlways(t, p, review) ==
    /\ source' = [source EXCEPT ![t] = [payload |-> p, needsReview |-> review]]
    /\ evidence' = [evidence EXCEPT ![t] = @ \cup ({source[t].payload} \ {p})]
    /\ used' = [used EXCEPT ![t] = map]

\* Every call that is not stale saves the version, and the one it replaces
\* as evidence.
SaveSource(t, p, review) ==
    /\ source' = [source EXCEPT ![t] = [payload |-> p, needsReview |-> review]]
    /\ evidence' = [evidence EXCEPT ![t] =
                        IF Exists(t) THEN @ \cup ({source[t].payload} \ {p}) ELSE @]
    /\ used' = [used EXCEPT ![t] = map]

\* mark_review: hold the rows of all active legs.
HoldRows(t) ==
    [a \in Account |->
        [r \in Revision |->
            IF leg[t][a].active /\ r = leg[t][a].revision
            THEN [bank[t][a][r] EXCEPT !.held = TRUE]
            ELSE bank[t][a][r]]]

MarkReview(t, p) ==
    /\ SaveSource(t, p, TRUE)
    /\ bank' = [bank EXCEPT ![t] = HoldRows(t)]
    /\ UNCHANGED leg

\* Mutant: a leg that once had a row gets no other.
CreatedOnce(t, p) == {a \in Target(p, map) : leg[t][a].revision = 0}

\* Legs that get a new row: no active row is left once the conflicts are
\* cancelled.
Created(t, p) ==
    {a \in Target(p, map) : ~leg[t][a].active \/ a \in Conflicts(t, p)}

Kept(t, p) == Target(p, map) \ Created(t, p)

NextRevision(t, a) == leg[t][a].revision + 1

NewRow(p, a) ==
    [status |-> "submitted", entry |-> Desired(p, a, map), held |-> FALSE, links |-> Unlinked]

SettleRows(t, p) ==
    [a \in Account |->
        [r \in Revision |->
            IF a \in Conflicts(t, p) /\ r = leg[t][a].revision
            THEN [bank[t][a][r] EXCEPT !.status = "cancelled"]
            ELSE IF a \in Kept(t, p) /\ r = leg[t][a].revision
            THEN [bank[t][a][r] EXCEPT !.held = FALSE]
            ELSE IF a \in Created(t, p) /\ r = NextRevision(t, a)
            THEN NewRow(p, a)
            ELSE bank[t][a][r]]]

\* Mutant: a leg whose row is cancelled stays active.
SettleLegsStillActive(t, p) ==
    [a \in Account |->
        IF a \in Created(t, p)
        THEN [revision |-> NextRevision(t, a), active |-> TRUE,
              fingerprint |-> Desired(p, a, map)]
        ELSE leg[t][a]]

SettleLegs(t, p) ==
    [a \in Account |->
        IF a \in Created(t, p)
        THEN [revision |-> NextRevision(t, a), active |-> TRUE,
              fingerprint |-> Desired(p, a, map)]
        ELSE IF a \in Conflicts(t, p)
        THEN [leg[t][a] EXCEPT !.active = FALSE]
        ELSE leg[t][a]]

\* Mutant: reconciled rows are cancelled too.
ConflictsAnyLinks(t, p) == TRUE

\* remove_reconciliation_links_before_review
ConflictsUnlinked(t, p) == \A a \in Conflicts(t, p) : Current(t, a).links = Unlinked

\* Mutants: rows left by an earlier installation are not looked for, or only
\* the submitted ones.
EntryKeysUnchecked(t, p) == \A a \in Created(t, p) : NextRevision(t, a) <= MaxRev

EntryKeysNotSubmitted(t, p) ==
    \A a \in Created(t, p) :
        /\ NextRevision(t, a) <= MaxRev
        /\ bank[t][a][NextRevision(t, a)].status # "submitted"

\* existing_bank_provenance_requires_recovery: the entry key is taken.  (The
\* bound MaxRev is here too.)
EntryKeysFree(t, p) ==
    \A a \in Created(t, p) :
        /\ NextRevision(t, a) <= MaxRev
        /\ bank[t][a][NextRevision(t, a)].status = "none"

Settle(t, p) ==
    /\ ConflictsUnlinked(t, p)
    /\ EntryKeysFree(t, p)
    /\ bank' = [bank EXCEPT ![t] = SettleRows(t, p)]
    /\ leg' = [leg EXCEPT ![t] = SettleLegs(t, p)]
    /\ SaveSource(t, p, PausedReview(t))

NeedsReview(t, p, apply) ==
    MustReview(p, map) \/ (Conflicts(t, p) # {} /\ ~apply)

IngestOne(t, p, apply) ==
    /\ ~Stale(t, p)
    /\ \/ NeedsReview(t, p, apply) /\ MarkReview(t, p)
       \/ ~NeedsReview(t, p, apply) /\ Settle(t, p)
    /\ UNCHANGED <<map, enabled>>

\* The worker: a run needs an enabled connection and at least one mapping.
Ingest(t, p) ==
    /\ enabled
    /\ \E a \in Account : map[a].status # "none"
    /\ IngestOne(t, p, FALSE)

\* review_and_apply fetches the version itself and needs no enabled
\* connection; the note is always given.
ReviewAndApply(t, p) == Exists(t) /\ IngestOne(t, p, TRUE)

-----------------------------------------------------------------------------
(* The accountant and the administrator *)

\* Mutant: only the vouchers already linked are looked at.
MayRelinkKnown(row, links) ==
    row.held => \A v \in Voucher : row.links[v] > 0 => links[v] <= row.links[v]

\* validate_bank_transaction: while a row is held no voucher is added to it
\* and no allocation grows.
MayRelink(row, links) ==
    row.held => \A v \in Voucher : links[v] <= row.links[v]

\* ERPNext's reconciliation saves a submitted row; of all its fields the guard
\* lets only the links change.
ReconcileRow(t, a, r, links) ==
    /\ Submitted(bank[t][a][r])
    /\ links # bank[t][a][r].links
    /\ MayRelink(bank[t][a][r], links)
    /\ bank' = [bank EXCEPT ![t][a][r].links = links]
    /\ UNCHANGED <<source, evidence, leg, map, enabled, used>>

\* A mapping is added or edited: paused, resumed, or given a fee policy.
SaveMap(a, m) ==
    /\ ~enabled
    /\ m.status # "none"
    /\ m # map[a]
    /\ map' = [map EXCEPT ![a] = m]
    /\ UNCHANGED <<source, evidence, leg, bank, enabled, used>>

DeleteMap(a) ==
    /\ ~enabled
    /\ map[a].status # "none"
    /\ \A t \in Tx : leg[t][a].revision = 0
    /\ map' = [map EXCEPT ![a] = Unmapped]
    /\ UNCHANGED <<source, evidence, leg, bank, enabled, used>>

\* setup.activate, or the enabled box of the connection form (which does not
\* ask for a mapping), and setup.pause.
SetEnabled(on) ==
    /\ enabled # on
    /\ enabled' = on
    /\ UNCHANGED <<source, evidence, leg, bank, map, used>>

\* Uninstall and install again: the app's records go, Bank Transactions and
\* their entry keys stay.
Reinstall ==
    /\ ~enabled
    /\ \A t \in Tx : ~source[t].needsReview
    /\ source' = [t \in Tx |-> [payload |-> NoPayload, needsReview |-> FALSE]]
    /\ evidence' = [t \in Tx |-> {}]
    /\ leg' = [t \in Tx |-> [a \in Account |-> NoLeg]]
    /\ map' = [a \in Account |-> Unmapped]
    /\ used' = [t \in Tx |-> [a \in Account |-> Unmapped]]
    /\ UNCHANGED <<bank, enabled>>

-----------------------------------------------------------------------------

Init ==
    /\ source = [t \in Tx |-> [payload |-> NoPayload, needsReview |-> FALSE]]
    /\ evidence = [t \in Tx |-> {}]
    /\ leg = [t \in Tx |-> [a \in Account |-> NoLeg]]
    /\ bank = [t \in Tx |-> [a \in Account |-> [r \in Revision |-> NoRow]]]
    /\ map = [a \in Account |-> Unmapped]
    /\ enabled = FALSE
    /\ used = [t \in Tx |-> [a \in Account |-> Unmapped]]

Next ==
    \/ \E t \in Tx, p \in Payload : Ingest(t, p) \/ ReviewAndApply(t, p)
    \/ \E t \in Tx, a \in Account, r \in Revision, links \in Links :
          ReconcileRow(t, a, r, links)
    \/ \E a \in Account, st \in {"paused", "enabled"} : \E pol \in Policy[a] :
          SaveMap(a, [status |-> st, policy |-> pol])
    \/ \E a \in Account : DeleteMap(a)
    \/ \E on \in BOOLEAN : SetEnabled(on)
    \/ Reinstall

Spec == Init /\ [][Next]_vars

-----------------------------------------------------------------------------
(* Properties *)

\* Every variable holds records of the shape the doctypes declare.
TypeOK ==
    /\ source \in [Tx -> [payload : Payload \cup {NoPayload}, needsReview : BOOLEAN]]
    /\ evidence \in [Tx -> SUBSET Payload]
    /\ leg \in [Tx -> [Account -> Leg]]
    /\ bank \in [Tx -> [Account -> [Revision -> Row]]]
    /\ map \in [Account -> Mapping]
    /\ enabled \in BOOLEAN
    /\ used \in [Tx -> [Account -> Mapping]]

\* However versions are reordered, reviewed, paused, or forgotten by a
\* reinstall, one leg never has two submitted rows: no double booking.
OneSubmittedRow ==
    \A t \in Tx, a \in Account, r, s \in Revision :
        Submitted(bank[t][a][r]) /\ Submitted(bank[t][a][s]) => r = s

\* A leg record and the rows with its entry keys tell one story: the rows
\* before its revision are cancelled, the row of its revision is submitted with
\* its fingerprint exactly if the leg is active, and there is none after it.
LegsMatchRows ==
    \A t \in Tx, a \in Account :
        LET l == leg[t][a]
        IN  /\ l.active => l.revision > 0
            /\ l.revision > 0 =>
                \A r \in Revision :
                    /\ r < l.revision => bank[t][a][r].status = "cancelled"
                    /\ r > l.revision => bank[t][a][r].status = "none"
                    /\ r = l.revision =>
                        /\ bank[t][a][r].status =
                              IF l.active THEN "submitted" ELSE "cancelled"
                        /\ bank[t][a][r].entry = l.fingerprint

\* A submitted row is held only while its source asks for review, so that a
\* reviewer finds every row that cannot be reconciled, and an uninstall, which
\* waits for the reviews, leaves no row held for ever.
HeldRowsUnderReview ==
    \A t \in Tx, a \in Account, r \in Revision :
        Submitted(bank[t][a][r]) /\ bank[t][a][r].held =>
            /\ source[t].needsReview
            /\ leg[t][a].active /\ leg[t][a].revision = r

\* A row that can be reconciled freely, and whose mapping was not paused at
\* the last import, states what the latest version of the transaction says.
OpenRowsAgree ==
    \A t \in Tx, a \in Account :
        leg[t][a].active /\ ~Current(t, a).held /\ ~Paused(used[t], a) =>
            LET p == source[t].payload
            IN  /\ p # NoPayload
                /\ ~MustReview(p, used[t])
                /\ a \in Target(p, used[t])
                /\ Current(t, a).entry = Desired(p, a, used[t])

\* When a source asks for no review nothing is missing: each leg that the
\* latest version calls for has its row.
ClosedSourceComplete ==
    \A t \in Tx :
        Exists(t) /\ ~source[t].needsReview =>
            \A a \in Target(source[t].payload, used[t]) : leg[t][a].active

\* Every row a leg has had, the cancelled ones included, can be traced to a
\* version on record: what it states is that version under some fee policy.
RowsHaveEvidence ==
    \A t \in Tx, a \in Account : \A r \in 1..leg[t][a].revision :
        \E p \in evidence[t] \cup {source[t].payload} :
            /\ p # NoPayload
            /\ p.state = "completed" /\ a \in p.legs
            /\ \E pol \in FeePolicy :
                  bank[t][a][r].entry =
                      Desired(p, a, [map EXCEPT ![a].policy = pol])

\* A row that exists stays, with the entry it was posted with; once cancelled
\* it is frozen.  A voucher leaves a row only by the accountant's hand.
RowsNeverRewritten ==
    [][\A t \in Tx, a \in Account, r \in Revision :
          LET old == bank[t][a][r]  new == bank'[t][a][r]
          IN  /\ old.status # "none" => new.status # "none" /\ new.entry = old.entry
              /\ old.status = "cancelled" => new = old
              /\ old.links # new.links => source' = source /\ leg' = leg]_vars

\* The live line of a leg is its submitted row, whether or not the leg record
\* still knows it.
NoLine == NoRow

SubmittedRows(t, a) == {r \in Revision : Submitted(bank[t][a][r])}

Line(row) == [entry |-> row.entry, held |-> row.held, links |-> row.links]

LineOf(t, a) ==
    LET rows == SubmittedRows(t, a)
    IN  IF rows = {} THEN NoLine ELSE Line(bank[t][a][CHOOSE r \in rows : TRUE])

Ledger ==
    INSTANCE StatementLedger WITH
        Entry <- [net : Int \ {0}, day : Nat \ {0}],
        line <- [t \in Tx |-> [a \in Account |-> LineOf(t, a)]]

\* The importer, the review action and the guards together implement the
\* statement ledger: a line is voided or replaced only when nothing is
\* reconciled against it, and gains no link while it is held.
ImplementsLedger == Ledger!LedgerSpec
=============================================================================
