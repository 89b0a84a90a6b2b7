--------------------------- MODULE ImporterProofs ---------------------------
(***************************************************************************)
(* Theorems about Importer for every set of transactions, accounts,        *)
(* vouchers, versions and fee policies, in three parts: the rows of a leg, *)
(* what a review and its absence mean for them, and the statement ledger   *)
(* that they implement.                                                    *)
(***************************************************************************)
EXTENDS Importer, TLAPS

-----------------------------------------------------------------------------
(* Type correctness *)

\* What normalize() asks for is a well-formed entry.
LEMMA DesiredType ==
    ASSUME NEW p \in Payload, NEW a \in Account, NEW m \in [Account -> Mapping]
    PROVE  Desired(p, a, m) \in Entry
<1>1. p \in PayloadType
  BY PayloadAssumption
<1>2. p.day \in Nat /\ p.amount[a] \in Int /\ p.fee[a] \in Int
  BY <1>1 DEF PayloadType
<1>3. p.amount[a] - p.fee[a] \in Int
  BY <1>2
<1>4. Net(p, a, m) \in {p.amount[a], p.amount[a] - p.fee[a]}
  BY Zenon DEF Net
<1> QED
  BY <1>2, <1>3, <1>4 DEF Desired, Entry

\* A new row starts with no reconciliation links.
LEMMA UnlinkedType == Unlinked \in Links
  BY BoundAssumption DEF Unlinked, Links

\* Saving a version keeps the source and its evidence well formed.
LEMMA SaveSourceType ==
    ASSUME TypeOK, NEW t \in Tx, NEW p \in Payload, NEW review \in BOOLEAN,
           SaveSource(t, p, review)
    PROVE  /\ source' \in [Tx -> [payload : Payload \cup {NoPayload}, needsReview : BOOLEAN]]
           /\ evidence' \in [Tx -> SUBSET Payload]
           /\ used' \in [Tx -> [Account -> Mapping]]
<1>1. Exists(t) => source[t].payload \in Payload
  BY DEF TypeOK, Exists
<1> QED
  BY <1>1 DEF TypeOK, SaveSource

\* mark_review keeps the rows well formed.
LEMMA HoldRowsType ==
    ASSUME TypeOK, NEW t \in Tx
    PROVE  HoldRows(t) \in [Account -> [Revision -> Row]]
<1> SUFFICES ASSUME NEW a \in Account, NEW r \in Revision
             PROVE  HoldRows(t)[a][r] \in Row
  BY DEF HoldRows
<1>1. bank[t][a][r] \in Row
  BY DEF TypeOK
<1>2. [bank[t][a][r] EXCEPT !.held = TRUE] \in Row
  BY <1>1 DEF Row
<1> QED
  BY <1>1, <1>2 DEF HoldRows

\* The row ingest() inserts is well formed.
LEMMA NewRowType ==
    ASSUME TypeOK, NEW p \in Payload, NEW a \in Account
    PROVE  NewRow(p, a) \in Row
  BY DesiredType, UnlinkedType DEF TypeOK, NewRow, Row

\* So are the rows after a settlement...
LEMMA SettleRowsType ==
    ASSUME TypeOK, NEW t \in Tx, NEW p \in Payload
    PROVE  SettleRows(t, p) \in [Account -> [Revision -> Row]]
<1> SUFFICES ASSUME NEW a \in Account, NEW r \in Revision
             PROVE  SettleRows(t, p)[a][r] \in Row
  BY DEF SettleRows
<1>1. bank[t][a][r] \in Row
  BY DEF TypeOK
<1>2. /\ [bank[t][a][r] EXCEPT !.status = "cancelled"] \in Row
      /\ [bank[t][a][r] EXCEPT !.held = FALSE] \in Row
  BY <1>1 DEF Row
<1>3. NewRow(p, a) \in Row
  BY NewRowType
<1> QED
  BY <1>1, <1>2, <1>3 DEF SettleRows

\* ...and the leg records, whose revision grows by one at most.
LEMMA SettleLegsType ==
    ASSUME TypeOK, NEW t \in Tx, NEW p \in Payload, EntryKeysFree(t, p)
    PROVE  SettleLegs(t, p) \in [Account -> Leg]
<1> SUFFICES ASSUME NEW a \in Account
             PROVE  SettleLegs(t, p)[a] \in Leg
  BY DEF SettleLegs
<1>1. leg[t][a] \in Leg
  BY DEF TypeOK
<1>2. CASE a \in Created(t, p)
  <2>1. NextRevision(t, a) \in 0..MaxRev
    BY <1>1, <1>2, BoundAssumption DEF EntryKeysFree, NextRevision, Leg
  <2>2. Desired(p, a, map) \in Entry
    BY DesiredType DEF TypeOK
  <2> QED
    BY <1>2, <2>1, <2>2 DEF SettleLegs, Leg
<1>3. CASE a \notin Created(t, p)
  BY <1>1, <1>3 DEF SettleLegs, Leg
<1> QED
  BY <1>2, <1>3

\* One call of ingest() keeps every record well formed.
LEMMA IngestOneType ==
    ASSUME TypeOK, NEW t \in Tx, NEW p \in Payload, NEW apply \in BOOLEAN,
           IngestOne(t, p, apply)
    PROVE  TypeOK'
<1>1. CASE MarkReview(t, p)
  BY <1>1, SaveSourceType, HoldRowsType DEF IngestOne, MarkReview, TypeOK
<1>2. CASE Settle(t, p)
  <2>1. PausedReview(t) \in BOOLEAN
    BY DEF PausedReview
  <2>2. leg' \in [Tx -> [Account -> Leg]]
    BY <1>2, SettleLegsType DEF Settle, TypeOK
  <2>3. bank' \in [Tx -> [Account -> [Revision -> Row]]]
    BY <1>2, SettleRowsType DEF Settle, TypeOK
  <2> QED
    BY <1>2, <2>1, <2>2, <2>3, SaveSourceType DEF Settle, IngestOne, TypeOK
<1> QED
  BY <1>1, <1>2 DEF IngestOne

\* What a reconciliation leaves of the bank rows.
LEMMA ReconciledRows ==
    ASSUME TypeOK, NEW t \in Tx, NEW a \in Account, NEW r \in Revision,
           NEW links \in Links, ReconcileRow(t, a, r, links)
    PROVE  /\ bank' \in [Tx -> [Account -> [Revision -> Row]]]
           /\ \A u \in Tx, b \in Account, s \in Revision :
                 /\ bank'[u][b][s].status = bank[u][b][s].status
                 /\ bank'[u][b][s].entry = bank[u][b][s].entry
                 /\ bank'[u][b][s].held = bank[u][b][s].held
<1> DEFINE new == [bank[t][a][r] EXCEPT !.links = links]
<1>0. bank[t][a][r] \in Row
  BY DEF TypeOK
<1>1. new \in Row
  BY <1>0 DEF Row
<1>2. bank' = [bank EXCEPT ![t] =
                  [bank[t] EXCEPT ![a] = [bank[t][a] EXCEPT ![r] = new]]]
  BY DEF ReconcileRow
<1>3. /\ new.status = bank[t][a][r].status
      /\ new.entry = bank[t][a][r].entry
      /\ new.held = bank[t][a][r].held
  BY <1>0 DEF Row
<1> HIDE DEF new
<1>4. ASSUME NEW u \in Tx, NEW b \in Account, NEW s \in Revision
      PROVE  bank'[u][b][s] = IF u = t /\ b = a /\ s = r THEN new ELSE bank[u][b][s]
  BY <1>2 DEF TypeOK
<1>5. bank' \in [Tx -> [Account -> [Revision -> Row]]]
  BY <1>1, <1>2 DEF TypeOK
<1> QED
  BY <1>3, <1>4, <1>5

\* A site starts with well-formed (empty) tables.
LEMMA InitType == Init => TypeOK
<1> SUFFICES ASSUME Init PROVE TypeOK
  OBVIOUS
<1>1. NoRow \in Row
  BY UnlinkedType DEF NoRow, NoEntry, Row, Entry
<1>2. NoLeg \in Leg
  BY BoundAssumption DEF NoLeg, NoEntry, Leg, Entry
<1>3. Unmapped \in Mapping
  BY DEF Unmapped, Mapping, FeePolicy
<1> QED
  BY <1>1, <1>2, <1>3 DEF Init, TypeOK

\* Every step keeps every variable well formed.
THEOREM TypeCorrect == Spec => []TypeOK
<1>1. TypeOK /\ [Next]_vars => TypeOK'
  <2> SUFFICES ASSUME TypeOK, [Next]_vars PROVE TypeOK'
    OBVIOUS
  <2>1. ASSUME NEW t \in Tx, NEW p \in Payload, Ingest(t, p) \/ ReviewAndApply(t, p)
        PROVE  TypeOK'
    BY <2>1, IngestOneType DEF Ingest, ReviewAndApply
  <2>2. ASSUME NEW t \in Tx, NEW a \in Account, NEW r \in Revision, NEW links \in Links,
               ReconcileRow(t, a, r, links)
        PROVE  TypeOK'
    <3>1. bank' \in [Tx -> [Account -> [Revision -> Row]]]
      BY <2>2, ReconciledRows
    <3> QED
      BY <2>2, <3>1 DEF ReconcileRow, TypeOK
  <2>3. ASSUME NEW a \in Account, NEW st \in {"paused", "enabled"}, NEW pol \in Policy[a],
               SaveMap(a, [status |-> st, policy |-> pol])
        PROVE  TypeOK'
    <3>1. [status |-> st, policy |-> pol] \in Mapping
      BY PolicyAssumption DEF Mapping
    <3> QED
      BY <2>3, <3>1 DEF SaveMap, TypeOK
  <2>4. ASSUME NEW a \in Account, DeleteMap(a)
        PROVE  TypeOK'
    BY <2>4 DEF DeleteMap, TypeOK, Unmapped, Mapping, FeePolicy
  <2>5. ASSUME NEW on \in BOOLEAN, SetEnabled(on)
        PROVE  TypeOK'
    BY <2>5 DEF SetEnabled, TypeOK
  <2>6. CASE Reinstall
    <3>1. NoLeg \in Leg
      BY BoundAssumption DEF NoLeg, NoEntry, Leg, Entry
    <3>2. Unmapped \in Mapping
      BY DEF Unmapped, Mapping, FeePolicy
    <3> QED
      BY <2>6, <3>1, <3>2 DEF Reinstall, TypeOK
  <2>7. CASE UNCHANGED vars
    BY <2>7 DEF vars, TypeOK
  <2> QED
    BY <2>1, <2>2, <2>3, <2>4, <2>5, <2>6, <2>7 DEF Next
<1> QED
  BY <1>1, InitType, PTL DEF Spec
-----------------------------------------------------------------------------
(* No double booking *)

\* The rows of a leg, whatever has become of its record, have the entry keys
\* 1, 2, 3...
NoGaps ==
    \A t \in Tx, a \in Account, r, s \in Revision :
        r < s /\ bank[t][a][s].status # "none" => bank[t][a][r].status # "none"

RowsInv == TypeOK /\ LegsMatchRows /\ NoGaps /\ OneSubmittedRow

\* The three row conditions for one leg of one transaction.
LegInv(t, a) ==
    /\ leg[t][a].active => leg[t][a].revision > 0
    /\ leg[t][a].revision > 0 =>
        \A r \in Revision :
            /\ r < leg[t][a].revision => bank[t][a][r].status = "cancelled"
            /\ r > leg[t][a].revision => bank[t][a][r].status = "none"
            /\ r = leg[t][a].revision =>
                /\ bank[t][a][r].status =
                      IF leg[t][a].active THEN "submitted" ELSE "cancelled"
                /\ bank[t][a][r].entry = leg[t][a].fingerprint
    /\ \A r, s \in Revision :
        r < s /\ bank[t][a][s].status # "none" => bank[t][a][r].status # "none"
    /\ \A r, s \in Revision :
        Submitted(bank[t][a][r]) /\ Submitted(bank[t][a][s]) => r = s

\* The conditions on rows can be shown leg by leg.
LEMMA RowsByLeg ==
    LegsMatchRows /\ NoGaps /\ OneSubmittedRow <=>
        \A t \in Tx, a \in Account : LegInv(t, a)
  BY DEF LegsMatchRows, NoGaps, OneSubmittedRow, LegInv

\* What a settlement makes of each leg and row of its transaction.
LEMMA SettledRows ==
    ASSUME TypeOK, NEW t \in Tx, NEW p \in Payload, Settle(t, p),
           NEW u \in Tx, NEW a \in Account
    PROVE  /\ leg'[u][a] = IF u = t THEN SettleLegs(t, p)[a] ELSE leg[u][a]
           /\ \A r \in Revision :
                bank'[u][a][r] = IF u = t THEN SettleRows(t, p)[a][r] ELSE bank[u][a][r]
  BY DEF Settle, TypeOK

\* A settlement cancels, keeps or posts rows so that each leg record still
\* matches its rows: the heart of the argument against double booking.
LEMMA SettleKeepsRows ==
    ASSUME RowsInv, NEW t \in Tx, NEW p \in Payload, Settle(t, p), NEW a \in Account
    PROVE  LegInv(t, a)'
<1>1. /\ leg'[t][a] = SettleLegs(t, p)[a]
      /\ \A r \in Revision : bank'[t][a][r] = SettleRows(t, p)[a][r]
  BY SettledRows DEF RowsInv
<1>2. /\ leg[t][a] \in Leg
      /\ leg[t][a].revision \in Nat
      /\ \A r \in Revision : r \in Nat /\ bank[t][a][r] \in Row
  BY BoundAssumption DEF RowsInv, TypeOK, Leg, Revision
<1>3. LegInv(t, a)
  BY RowsByLeg DEF RowsInv
<1>4. CASE a \in Created(t, p)
  <2> DEFINE n == NextRevision(t, a)
  <2>1. n \in Revision /\ n = leg[t][a].revision + 1 /\ bank[t][a][n].status = "none"
    BY <1>2, <1>4, BoundAssumption DEF Settle, EntryKeysFree, NextRevision, Revision
  <2>2. /\ leg'[t][a].revision = n
        /\ leg'[t][a].active = TRUE
        /\ leg'[t][a].fingerprint = Desired(p, a, map)
    BY <1>1, <1>4 DEF SettleLegs
  <2>3. a \notin Kept(t, p)
    BY <1>4 DEF Kept
  <2>4. a \in Conflicts(t, p) \/ ~leg[t][a].active
    BY <1>4 DEF Created
  <2>5. a \in Conflicts(t, p) => leg[t][a].active
    BY DEF Conflicts
  <2>6. bank'[t][a][n].status = "submitted" /\ bank'[t][a][n].entry = Desired(p, a, map)
    <3>1. n # leg[t][a].revision
      BY <1>2, <2>1
    <3>2. bank'[t][a][n] = NewRow(p, a)
      BY <1>1, <1>4, <2>1, <2>3, <3>1 DEF SettleRows
    <3> QED
      BY <3>2 DEF NewRow
  <2>6a. ASSUME NEW r \in Revision, r # n, ~(r = leg[t][a].revision /\ a \in Conflicts(t, p))
         PROVE  bank'[t][a][r] = bank[t][a][r]
    BY <1>1, <2>3, <2>6a DEF SettleRows
  <2> HIDE DEF n
  <2>7. ASSUME NEW r \in Revision, r < n
        PROVE  bank'[t][a][r].status = "cancelled"
    <3>1. r \in Nat /\ n \in Nat /\ leg[t][a].revision > 0 /\ r <= leg[t][a].revision
      BY <1>2, <2>1, <2>7, BoundAssumption DEF Revision
    <3>2. CASE r = leg[t][a].revision /\ a \in Conflicts(t, p)
      <4>1. bank'[t][a][r] = [bank[t][a][r] EXCEPT !.status = "cancelled"]
        BY <1>1, <3>2 DEF SettleRows
      <4> QED
        BY <1>2, <4>1 DEF Row
    <3>3. CASE ~(r = leg[t][a].revision /\ a \in Conflicts(t, p))
      <4>1. bank'[t][a][r] = bank[t][a][r]
        BY <2>6a, <2>7, <3>1, <3>3
      <4>2. CASE r < leg[t][a].revision
        BY <1>3, <3>1, <4>1, <4>2 DEF LegInv
      <4>3. CASE r = leg[t][a].revision
        BY <1>3, <2>4, <3>1, <3>3, <4>1, <4>3 DEF LegInv
      <4> QED
        BY <1>2, <3>1, <4>2, <4>3
    <3> QED
      BY <3>2, <3>3
  <2>8. ASSUME NEW r \in Revision, r > n
        PROVE  bank'[t][a][r].status = "none"
    <3>1. r \in Nat /\ n \in Nat /\ r > leg[t][a].revision
      BY <1>2, <2>1, <2>8
    <3>2. bank'[t][a][r] = bank[t][a][r]
      BY <1>2, <2>6a, <2>8, <3>1
    <3> QED
      BY <1>3, <2>1, <2>8, <3>2 DEF LegInv
  <2>9. \A r \in Revision : r \in Nat /\ n \in Nat
    BY <1>2, <2>1
  <2>10. \A r \in Revision : bank'[t][a][r].status = "submitted" => r = n
    BY <2>7, <2>8, <2>9
  <2>11. \A r, s \in Revision : r < s /\ bank'[t][a][s].status # "none"
                                => bank'[t][a][r].status # "none"
    <3> SUFFICES ASSUME NEW r \in Revision, NEW s \in Revision, r < s,
                        bank'[t][a][s].status # "none"
                 PROVE  bank'[t][a][r].status # "none"
      OBVIOUS
    <3>1. ~(s > n)
      BY <2>8
    <3>2. r < n
      BY <2>9, <3>1
    <3> QED
      BY <2>7, <3>2
  <2>12. leg'[t][a].revision > 0
    BY <1>2, <2>1, <2>2
  <2>13. bank'[t][a][n].status = IF leg'[t][a].active THEN "submitted" ELSE "cancelled"
    BY <2>2, <2>6
  <2>14. \A r \in Revision :
           /\ r < leg'[t][a].revision => bank'[t][a][r].status = "cancelled"
           /\ r > leg'[t][a].revision => bank'[t][a][r].status = "none"
           /\ r = leg'[t][a].revision =>
                /\ bank'[t][a][r].status =
                      IF leg'[t][a].active THEN "submitted" ELSE "cancelled"
                /\ bank'[t][a][r].entry = leg'[t][a].fingerprint
    BY <2>2, <2>6, <2>7, <2>8, <2>13
  <2>15. \A r, s \in Revision :
           bank'[t][a][r].status = "submitted" /\ bank'[t][a][s].status = "submitted" => r = s
    BY <2>10
  <2> QED
    BY <2>11, <2>12, <2>14, <2>15 DEF LegInv, Submitted
<1>5. CASE a \notin Created(t, p) /\ a \in Conflicts(t, p)
  <2>1. /\ leg[t][a].active
        /\ leg'[t][a] = [leg[t][a] EXCEPT !.active = FALSE]
    BY <1>1, <1>5 DEF SettleLegs, Conflicts
  <2>2. /\ leg'[t][a].active = FALSE
        /\ leg'[t][a].revision = leg[t][a].revision
        /\ leg'[t][a].fingerprint = leg[t][a].fingerprint
    BY <1>2, <2>1 DEF Leg
  <2>3. ASSUME NEW r \in Revision
        PROVE  /\ bank'[t][a][r].entry = bank[t][a][r].entry
               /\ bank'[t][a][r].status =
                     IF r = leg[t][a].revision THEN "cancelled" ELSE bank[t][a][r].status
    <3>1. bank'[t][a][r] = IF r = leg[t][a].revision
                           THEN [bank[t][a][r] EXCEPT !.status = "cancelled"]
                           ELSE bank[t][a][r]
      BY <1>1, <1>5 DEF SettleRows, Kept, Created
    <3> QED
      BY <1>2, <3>1 DEF Row
  <2> QED
    BY <1>2, <1>3, <2>1, <2>2, <2>3 DEF LegInv, Submitted
<1>6. CASE a \notin Created(t, p) /\ a \notin Conflicts(t, p)
  <2>1. leg'[t][a] = leg[t][a]
    BY <1>1, <1>6 DEF SettleLegs
  <2>2. ASSUME NEW r \in Revision
        PROVE  /\ bank'[t][a][r].status = bank[t][a][r].status
               /\ bank'[t][a][r].entry = bank[t][a][r].entry
    <3>1. bank'[t][a][r] \in {bank[t][a][r], [bank[t][a][r] EXCEPT !.held = FALSE]}
      BY <1>1, <1>6 DEF SettleRows
    <3> QED
      BY <1>2, <3>1 DEF Row
  <2> QED
    BY <1>3, <2>1, <2>2 DEF LegInv, Submitted
<1> QED
  BY <1>4, <1>5, <1>6

\* So does any call of ingest(), for the legs of every transaction.
LEMMA IngestKeepsRows ==
    ASSUME RowsInv, NEW t \in Tx, NEW p \in Payload, NEW apply \in BOOLEAN,
           IngestOne(t, p, apply), NEW u \in Tx, NEW a \in Account
    PROVE  LegInv(u, a)'
<1>1. LegInv(u, a)
  BY RowsByLeg DEF RowsInv
<1>2. CASE MarkReview(t, p)
  <2>1. leg' = leg
    BY <1>2 DEF MarkReview
  <2>2. \A r \in Revision : bank[u][a][r] \in Row
    BY DEF RowsInv, TypeOK
  <2>3. \A r \in Revision :
          bank'[u][a][r] = IF u = t THEN HoldRows(t)[a][r] ELSE bank[u][a][r]
    BY <1>2 DEF MarkReview, RowsInv, TypeOK
  <2>4. ASSUME NEW r \in Revision
        PROVE  /\ bank'[u][a][r].status = bank[u][a][r].status
               /\ bank'[u][a][r].entry = bank[u][a][r].entry
    <3>1. bank'[u][a][r] \in {bank[u][a][r], [bank[u][a][r] EXCEPT !.held = TRUE]}
      BY <2>3 DEF HoldRows
    <3> QED
      BY <2>2, <3>1 DEF Row
  <2> QED
    BY <1>1, <2>1, <2>4 DEF LegInv, Submitted
<1>3. CASE Settle(t, p) /\ u = t
  BY <1>3, SettleKeepsRows
<1>4. CASE Settle(t, p) /\ u # t
  <2>1. leg'[u][a] = leg[u][a] /\ \A r \in Revision : bank'[u][a][r] = bank[u][a][r]
    BY <1>4, SettledRows DEF RowsInv
  <2> QED
    BY <1>1, <2>1 DEF LegInv, Submitted
<1> QED
  BY <1>2, <1>3, <1>4 DEF IngestOne

\* The inductive invariant: leg records match rows, entry keys have no gaps,
\* and no leg has two submitted rows.
THEOREM RowsInvariant == Spec => []RowsInv
<1>1. Init => RowsInv
  <2> SUFFICES ASSUME Init PROVE LegsMatchRows /\ NoGaps /\ OneSubmittedRow
    BY InitType DEF RowsInv
  <2> QED
    BY DEF Init, NoLeg, NoRow, LegsMatchRows, NoGaps, OneSubmittedRow, Submitted
<1>2. RowsInv /\ TypeOK' /\ [Next]_vars => RowsInv'
  <2> SUFFICES ASSUME RowsInv, [Next]_vars, NEW u \in Tx, NEW b \in Account
               PROVE  LegInv(u, b)'
    BY RowsByLeg DEF RowsInv, LegsMatchRows, NoGaps, OneSubmittedRow, LegInv
  <2>0. LegInv(u, b)
    BY RowsByLeg DEF RowsInv
  <2>1. ASSUME NEW t \in Tx, NEW p \in Payload, Ingest(t, p) \/ ReviewAndApply(t, p)
        PROVE  LegInv(u, b)'
    BY <2>1, IngestKeepsRows DEF Ingest, ReviewAndApply
  <2>2. ASSUME NEW t \in Tx, NEW a \in Account, NEW r \in Revision, NEW links \in Links,
               ReconcileRow(t, a, r, links)
        PROVE  LegInv(u, b)'
    <3>1. leg' = leg
      BY <2>2 DEF ReconcileRow
    <3>2. \A r0 \in Revision : /\ bank'[u][b][r0].status = bank[u][b][r0].status
                               /\ bank'[u][b][r0].entry = bank[u][b][r0].entry
      BY <2>2, ReconciledRows DEF RowsInv
    <3> QED
      BY <2>0, <3>1, <3>2 DEF LegInv, Submitted
  <2>3. CASE Reinstall
    BY <2>0, <2>3 DEF Reinstall, NoLeg, LegInv, Submitted
  <2>4. CASE UNCHANGED <<leg, bank>>
    BY <2>0, <2>4 DEF LegInv, Submitted
  <2> QED
    BY <2>1, <2>2, <2>3, <2>4 DEF Next, SaveMap, DeleteMap, SetEnabled, vars
<1> QED
  BY <1>1, <1>2, TypeCorrect, PTL DEF Spec

\* No double booking: one leg never has two submitted rows, whatever versions
\* arrive, are reviewed, paused, or forgotten by a reinstall.
THEOREM NoDoubleBooking == Spec => []OneSubmittedRow
  BY RowsInvariant, PTL DEF RowsInv

\* A leg record always tells which of its rows is submitted, and what it states.
THEOREM LegRecordsMatchRows == Spec => []LegsMatchRows
  BY RowsInvariant, PTL DEF RowsInv

-----------------------------------------------------------------------------
(* Sources and rows *)

\* The properties for one transaction.
HeldInv(t) ==
    \A a \in Account, r \in Revision :
        Submitted(bank[t][a][r]) /\ bank[t][a][r].held =>
            source[t].needsReview /\ leg[t][a].active /\ leg[t][a].revision = r

OpenInv(t) ==
    \A a \in Account :
        leg[t][a].active /\ ~Current(t, a).held /\ ~Paused(used[t], a) =>
            /\ source[t].payload # NoPayload
            /\ ~MustReview(source[t].payload, used[t])
            /\ a \in Target(source[t].payload, used[t])
            /\ Current(t, a).entry = Desired(source[t].payload, a, used[t])

ClosedInv(t) ==
    source[t].payload # NoPayload /\ ~source[t].needsReview =>
        \A a \in Target(source[t].payload, used[t]) : leg[t][a].active

TxInv(t) == HeldInv(t) /\ OpenInv(t) /\ ClosedInv(t)

ReviewInv == RowsInv /\ \A t \in Tx : TxInv(t)

-----------------------------------------------------------------------------
(* What a call of ingest() leaves *)

\* A call saves its version, for its own transaction only.
LEMMA SavedSource ==
    ASSUME TypeOK, NEW t \in Tx, NEW p \in Payload, NEW review, SaveSource(t, p, review)
    PROVE  /\ source'[t].payload = p /\ source'[t].needsReview = review /\ used'[t] = map
           /\ \A u \in Tx \ {t} : source'[u] = source[u] /\ used'[u] = used[u]
  BY DEF SaveSource, TypeOK

\* A review holds the current rows of active legs, and nothing else.
LEMMA MarkedRows ==
    ASSUME TypeOK, NEW t \in Tx, NEW p \in Payload, MarkReview(t, p),
           NEW a \in Account, NEW r \in Revision
    PROVE  bank'[t][a][r] = IF leg[t][a].active /\ r = leg[t][a].revision
                            THEN [bank[t][a][r] EXCEPT !.held = TRUE] ELSE bank[t][a][r]
  BY DEF MarkReview, HoldRows, TypeOK

\* A leg that gets a new row.
LEMMA CreatedRow ==
    ASSUME RowsInv, NEW t \in Tx, NEW p \in Payload, Settle(t, p),
           NEW a \in Account, a \in Created(t, p)
    PROVE  /\ NextRevision(t, a) \in Revision
           /\ leg'[t][a].active /\ leg'[t][a].revision = NextRevision(t, a)
           /\ bank'[t][a][NextRevision(t, a)] = NewRow(p, a)
           /\ \A r \in Revision \ {NextRevision(t, a)} :
                 bank'[t][a][r] = IF leg[t][a].active /\ r = leg[t][a].revision
                                  THEN [bank[t][a][r] EXCEPT !.status = "cancelled"]
                                  ELSE bank[t][a][r]
<1> DEFINE n == NextRevision(t, a)
<1>1. leg[t][a].revision \in Nat
  BY BoundAssumption DEF RowsInv, TypeOK, Leg
<1>2. n \in Revision /\ n # leg[t][a].revision
  BY <1>1, BoundAssumption DEF Settle, EntryKeysFree, NextRevision, Revision
<1>3. a \notin Kept(t, p) /\ (a \in Conflicts(t, p) <=> leg[t][a].active)
  BY DEF Kept, Created, Conflicts
<1>4. /\ leg'[t][a] = SettleLegs(t, p)[a]
      /\ \A r \in Revision : bank'[t][a][r] = SettleRows(t, p)[a][r]
  BY SettledRows DEF RowsInv
<1>5. leg'[t][a].active /\ leg'[t][a].revision = n
  BY <1>4 DEF SettleLegs
<1>6. bank'[t][a][n] = NewRow(p, a)
  BY <1>2, <1>3, <1>4 DEF SettleRows
<1>7. \A r \in Revision \ {n} :
          bank'[t][a][r] = IF leg[t][a].active /\ r = leg[t][a].revision
                           THEN [bank[t][a][r] EXCEPT !.status = "cancelled"]
                           ELSE bank[t][a][r]
  BY <1>3, <1>4 DEF SettleRows
<1> QED
  BY <1>2, <1>5, <1>6, <1>7

\* A leg that gets none: it is settled as it is, closed, or left alone.
LEMMA OtherRow ==
    ASSUME RowsInv, NEW t \in Tx, NEW p \in Payload, Settle(t, p),
           NEW a \in Account, a \notin Created(t, p)
    PROVE  /\ a \in Conflicts(t, p) =>
                /\ leg[t][a].active /\ ~leg'[t][a].active
                /\ leg'[t][a].revision = leg[t][a].revision
                /\ \A r \in Revision :
                      bank'[t][a][r] = IF r = leg[t][a].revision
                                       THEN [bank[t][a][r] EXCEPT !.status = "cancelled"]
                                       ELSE bank[t][a][r]
           /\ a \notin Conflicts(t, p) =>
                /\ leg'[t][a] = leg[t][a]
                /\ \A r \in Revision :
                      bank'[t][a][r] = IF a \in Target(p, map) /\ r = leg[t][a].revision
                                       THEN [bank[t][a][r] EXCEPT !.held = FALSE]
                                       ELSE bank[t][a][r]
<1>1. /\ leg'[t][a] = SettleLegs(t, p)[a]
      /\ \A r \in Revision : bank'[t][a][r] = SettleRows(t, p)[a][r]
  BY SettledRows DEF RowsInv
<1>2. a \in Kept(t, p) <=> a \in Target(p, map)
  BY DEF Kept
<1>3. CASE a \in Conflicts(t, p)
  <2>1. leg[t][a].active /\ leg[t][a] \in Leg
    BY <1>3 DEF Conflicts, RowsInv, TypeOK
  <2>2. leg'[t][a] = [leg[t][a] EXCEPT !.active = FALSE]
    BY <1>1, <1>3 DEF SettleLegs
  <2>3. ~leg'[t][a].active /\ leg'[t][a].revision = leg[t][a].revision
    BY <2>1, <2>2 DEF Leg
  <2>4. a \notin Target(p, map)
    BY <1>3 DEF Created
  <2> QED
    BY <1>1, <1>2, <1>3, <2>1, <2>3, <2>4 DEF SettleRows
<1>4. CASE a \notin Conflicts(t, p)
  BY <1>1, <1>2, <1>4 DEF SettleRows, SettleLegs
<1> QED
  BY <1>3, <1>4

\* A leg that is neither paused nor in conflict agrees with the version.
LEMMA NoConflict ==
    ASSUME NEW t \in Tx, NEW p \in Payload, NEW a \in Account, a \notin Conflicts(t, p),
           leg[t][a].active, ~Paused(map, a)
    PROVE  /\ a \in Target(p, map)
           /\ Submitted(Current(t, a)) /\ Current(t, a).entry = Desired(p, a, map)
  BY DEF Conflicts

-----------------------------------------------------------------------------
(* A review keeps the three properties *)

\* The row of an active leg is one of the bank's rows.
LEMMA CurrentRow ==
    ASSUME RowsInv, NEW t \in Tx, NEW a \in Account, leg[t][a].active
    PROVE  leg[t][a].revision \in Revision
  BY BoundAssumption DEF RowsInv, LegsMatchRows, TypeOK, Leg, Revision

\* With a review open the rows of all active legs are held, and no other.
LEMMA ReviewKeeps ==
    ASSUME ReviewInv, NEW t \in Tx, NEW p \in Payload, MarkReview(t, p)
    PROVE  TxInv(t)'
<1>0. TypeOK /\ SaveSource(t, p, TRUE)
  BY DEF ReviewInv, RowsInv, MarkReview
<1>1. TypeOK /\ HeldInv(t) /\ leg' = leg /\ source'[t].needsReview
  BY <1>0, SavedSource DEF ReviewInv, TxInv, MarkReview
<1>2. HeldInv(t)'
  <2> SUFFICES ASSUME NEW a \in Account, NEW r \in Revision,
                      Submitted(bank'[t][a][r]), bank'[t][a][r].held
               PROVE  leg[t][a].active /\ leg[t][a].revision = r
    BY <1>1 DEF HeldInv, Submitted
  <2>1. CASE leg[t][a].active /\ r = leg[t][a].revision
    BY <2>1
  <2>2. CASE ~(leg[t][a].active /\ r = leg[t][a].revision)
    <3>1. bank'[t][a][r] = bank[t][a][r]
      BY <1>1, <2>2, MarkedRows
    <3> QED
      BY <1>1, <3>1 DEF HeldInv
  <2> QED
    BY <2>1, <2>2
<1>3. OpenInv(t)'
  <2> SUFFICES ASSUME NEW a \in Account, leg[t][a].active
               PROVE  bank'[t][a][leg[t][a].revision].held
    BY <1>1 DEF OpenInv, Current
  <2> DEFINE r == leg[t][a].revision
  <2>1. r \in Revision
    BY CurrentRow DEF ReviewInv
  <2>2. bank[t][a][r] \in Row
    BY <1>1, <2>1 DEF TypeOK
  <2>3. bank'[t][a][r] = [bank[t][a][r] EXCEPT !.held = TRUE]
    BY <1>1, <2>1, MarkedRows
  <2> QED
    BY <2>2, <2>3 DEF Row
<1>4. ClosedInv(t)'
  BY <1>1 DEF ClosedInv
<1> QED
  BY <1>2, <1>3, <1>4 DEF TxInv

-----------------------------------------------------------------------------
(* So does a settlement *)

\* A row that is still held afterwards is the row of a paused leg, and then the
\* source keeps asking for a review.
LEMMA SettleKeepsHeld ==
    ASSUME ReviewInv, NEW t \in Tx, NEW p \in Payload, Settle(t, p)
    PROVE  HeldInv(t)'
<1>0. TypeOK /\ SaveSource(t, p, PausedReview(t))
  BY DEF ReviewInv, RowsInv, Settle
<1>1. /\ RowsInv /\ TypeOK /\ HeldInv(t)
      /\ source'[t].needsReview = PausedReview(t)
  BY <1>0, SavedSource DEF ReviewInv, TxInv
<1> SUFFICES ASSUME NEW a \in Account, NEW r \in Revision,
                    Submitted(bank'[t][a][r]), bank'[t][a][r].held
             PROVE  PausedReview(t) /\ leg'[t][a].active /\ leg'[t][a].revision = r
  BY <1>1 DEF HeldInv, Submitted
<1>2. bank[t][a][r] \in Row
  BY <1>1 DEF TypeOK
<1>3. CASE a \in Created(t, p)
  <2> DEFINE n == NextRevision(t, a)
  <2>1. r # n
    <3>1. bank'[t][a][n] = NewRow(p, a)
      BY <1>1, <1>3, CreatedRow
    <3> QED
      BY <3>1 DEF NewRow
  <2>2. bank'[t][a][r] = IF leg[t][a].active /\ r = leg[t][a].revision
                         THEN [bank[t][a][r] EXCEPT !.status = "cancelled"]
                         ELSE bank[t][a][r]
    BY <1>1, <1>3, <2>1, CreatedRow
  <2>3. ~(leg[t][a].active /\ r = leg[t][a].revision) /\ bank'[t][a][r] = bank[t][a][r]
    BY <1>2, <2>2 DEF Submitted, Row
  <2> QED
    BY <1>1, <2>3 DEF HeldInv
<1>4. CASE a \notin Created(t, p) /\ a \in Conflicts(t, p)
  <2>1. bank'[t][a][r] = IF r = leg[t][a].revision
                         THEN [bank[t][a][r] EXCEPT !.status = "cancelled"]
                         ELSE bank[t][a][r]
    BY <1>1, <1>4, OtherRow
  <2>2. r # leg[t][a].revision /\ bank'[t][a][r] = bank[t][a][r]
    BY <1>2, <2>1 DEF Submitted, Row
  <2> QED
    BY <1>1, <2>2 DEF HeldInv
<1>5. CASE a \notin Created(t, p) /\ a \notin Conflicts(t, p)
  <2>1. /\ leg'[t][a] = leg[t][a]
        /\ bank'[t][a][r] = IF a \in Target(p, map) /\ r = leg[t][a].revision
                            THEN [bank[t][a][r] EXCEPT !.held = FALSE]
                            ELSE bank[t][a][r]
    BY <1>1, <1>5, OtherRow
  <2>2. ~(a \in Target(p, map) /\ r = leg[t][a].revision) /\ bank'[t][a][r] = bank[t][a][r]
    BY <1>2, <2>1 DEF Row
  <2>3. leg[t][a].active /\ leg[t][a].revision = r /\ Current(t, a).held
    BY <1>1, <2>2 DEF HeldInv, Current
  <2>4. Paused(map, a)
    BY <1>5, <2>2, <2>3, NoConflict
  <2> QED
    BY <2>1, <2>3, <2>4 DEF PausedReview
<1> QED
  BY <1>3, <1>4, <1>5

\* A leg that is active afterwards and not paused has the row the version wants.
LEMMA SettleKeepsOpen ==
    ASSUME ReviewInv, NEW t \in Tx, NEW p \in Payload, Settle(t, p), ~MustReview(p, map)
    PROVE  OpenInv(t)'
<1>0. TypeOK /\ SaveSource(t, p, PausedReview(t))
  BY DEF ReviewInv, RowsInv, Settle
<1>1. /\ RowsInv /\ TypeOK
      /\ source'[t].payload = p /\ used'[t] = map
  BY <1>0, SavedSource DEF ReviewInv
<1>2. p # NoPayload
  BY PayloadAssumption
<1> SUFFICES ASSUME NEW a \in Account, leg'[t][a].active, ~Paused(map, a)
             PROVE  /\ a \in Target(p, map)
                    /\ bank'[t][a][leg'[t][a].revision].entry = Desired(p, a, map)
  <2>1. OpenInv(t)' =
          \A a \in Account :
            leg'[t][a].active /\ ~bank'[t][a][leg'[t][a].revision].held /\ ~Paused(map, a) =>
                /\ p # NoPayload /\ ~MustReview(p, map) /\ a \in Target(p, map)
                /\ bank'[t][a][leg'[t][a].revision].entry = Desired(p, a, map)
    BY <1>1 DEF OpenInv, Current
  <2> QED
    BY <1>2, <2>1
<1>3. CASE a \in Created(t, p)
  <2>1. leg'[t][a].revision = NextRevision(t, a)
    BY <1>1, <1>3, CreatedRow
  <2>2. bank'[t][a][NextRevision(t, a)] = NewRow(p, a)
    BY <1>1, <1>3, CreatedRow
  <2> QED
    BY <1>3, <2>1, <2>2 DEF NewRow, Created
<1>4. CASE a \notin Created(t, p)
  <2>1. a \notin Conflicts(t, p)
    BY <1>1, <1>4, OtherRow
  <2>2. leg'[t][a] = leg[t][a]
    BY <1>1, <1>4, <2>1, OtherRow
  <2>3. /\ a \in Target(p, map)
        /\ Current(t, a).entry = Desired(p, a, map)
    BY <2>1, <2>2, NoConflict
  <2>4. leg[t][a].revision \in Revision
    BY <1>1, <2>2, CurrentRow
  <2>5. bank[t][a][leg[t][a].revision] \in Row
    BY <1>1, <2>4 DEF TypeOK
  <2>6. bank'[t][a][leg[t][a].revision] = [bank[t][a][leg[t][a].revision] EXCEPT !.held = FALSE]
    BY <1>1, <1>4, <2>1, <2>3, <2>4, OtherRow
  <2> QED
    BY <2>2, <2>3, <2>5, <2>6 DEF Current, Row
<1> QED
  BY <1>3, <1>4

\* A settlement leaves no leg without its row.
LEMMA SettleCloses ==
    ASSUME ReviewInv, NEW t \in Tx, NEW p \in Payload, Settle(t, p)
    PROVE  ClosedInv(t)'
<1>0. TypeOK /\ SaveSource(t, p, PausedReview(t))
  BY DEF ReviewInv, RowsInv, Settle
<1>1. /\ RowsInv /\ TypeOK
      /\ source'[t].payload = p /\ used'[t] = map
  BY <1>0, SavedSource DEF ReviewInv
<1> SUFFICES ASSUME NEW a \in Target(p, map) PROVE leg'[t][a].active
  BY <1>1 DEF ClosedInv
<1>2. a \in Account
  BY DEF Target, EnabledAccounts
<1>3. CASE a \in Created(t, p)
  BY <1>1, <1>2, <1>3, CreatedRow
<1>4. CASE a \notin Created(t, p)
  <2>1. leg[t][a].active /\ a \notin Conflicts(t, p)
    BY <1>4 DEF Created
  <2> QED
    BY <1>1, <1>2, <1>4, <2>1, OtherRow
<1> QED
  BY <1>3, <1>4

-----------------------------------------------------------------------------
(* Every step *)

\* A call of ingest() keeps the properties of its own transaction, ...
LEMMA IngestKeepsReview ==
    ASSUME ReviewInv, NEW t \in Tx, NEW p \in Payload, NEW apply \in BOOLEAN,
           IngestOne(t, p, apply)
    PROVE  TxInv(t)'
<1>1. CASE MarkReview(t, p)
  BY <1>1, ReviewKeeps
<1>2. CASE ~MustReview(p, map) /\ Settle(t, p)
  BY <1>2, SettleKeepsHeld, SettleKeepsOpen, SettleCloses DEF TxInv
<1> QED
  BY <1>1, <1>2 DEF IngestOne, NeedsReview

\* ... and leaves all others alone.
LEMMA IngestLeavesOthers ==
    ASSUME TypeOK, NEW t \in Tx, NEW p \in Payload, NEW apply \in BOOLEAN,
           IngestOne(t, p, apply), NEW u \in Tx, u # t
    PROVE  /\ source'[u] = source[u] /\ used'[u] = used[u]
           /\ leg'[u] = leg[u] /\ bank'[u] = bank[u]
  BY DEF IngestOne, MarkReview, Settle, SaveSource, TypeOK

\* What the properties of a transaction depend on.
LEMMA SameTx ==
    ASSUME NEW t \in Tx, TxInv(t), source'[t] = source[t], used'[t] = used[t], leg'[t] = leg[t],
           \A a \in Account, r \in Revision :
                /\ bank'[t][a][r].status = bank[t][a][r].status
                /\ bank'[t][a][r].entry = bank[t][a][r].entry
                /\ bank'[t][a][r].held = bank[t][a][r].held,
           \A a \in Account : leg[t][a].active => leg[t][a].revision \in Revision
    PROVE  TxInv(t)'
<1>1. HeldInv(t)'
  BY DEF TxInv, HeldInv, Submitted
<1>2. OpenInv(t)'
  <2>1. OpenInv(t)
    BY DEF TxInv
  <2> QED
    BY <2>1 DEF OpenInv, Current
<1>3. ClosedInv(t)'
  BY DEF TxInv, ClosedInv
<1> QED
  BY <1>1, <1>2, <1>3 DEF TxInv

\* An uninstall waits until nothing is held, and forgets the rest.
LEMMA ReinstallKeeps ==
    ASSUME ReviewInv, Reinstall, NEW t \in Tx
    PROVE  TxInv(t)'
<1>1. HeldInv(t) /\ ~source[t].needsReview
  BY DEF ReviewInv, TxInv, Reinstall
<1>2. /\ bank' = bank /\ source'[t].payload = NoPayload
      /\ \A a \in Account : ~leg'[t][a].active
  BY DEF Reinstall, NoLeg
<1> QED
  BY <1>1, <1>2 DEF TxInv, HeldInv, OpenInv, ClosedInv

\* The three properties hold together, with the row invariant they rest on.
THEOREM ReviewInvariant == Spec => []ReviewInv
<1>1. Init => \A t \in Tx : TxInv(t)
  BY DEF Init, NoLeg, NoRow, TxInv, HeldInv, OpenInv, ClosedInv, Submitted
<1>2. ReviewInv /\ [Next]_vars => \A t \in Tx : TxInv(t)'
  <2> SUFFICES ASSUME ReviewInv, [Next]_vars, NEW u \in Tx PROVE TxInv(u)'
    OBVIOUS
  <2>1. TypeOK /\ TxInv(u)
    BY DEF ReviewInv, RowsInv
  <2>2. \A a \in Account : leg[u][a].active => leg[u][a].revision \in Revision
    BY CurrentRow DEF ReviewInv
  <2>3. ASSUME NEW t \in Tx, NEW p \in Payload, NEW apply \in BOOLEAN, IngestOne(t, p, apply)
        PROVE  TxInv(u)'
    <3>1. CASE u = t
      BY <2>3, <3>1, IngestKeepsReview
    <3>2. CASE u # t
      BY <2>1, <2>2, <2>3, <3>2, IngestLeavesOthers, SameTx
    <3> QED
      BY <3>1, <3>2
  <2>4. ASSUME NEW t \in Tx, NEW a \in Account, NEW r \in Revision, NEW links \in Links,
               ReconcileRow(t, a, r, links)
        PROVE  TxInv(u)'
    <3>1. source' = source /\ used' = used /\ leg' = leg
      BY <2>4 DEF ReconcileRow
    <3> QED
      BY <2>1, <2>2, <2>4, <3>1, ReconciledRows, SameTx
  <2>5. CASE Reinstall
    BY <2>5, ReinstallKeeps
  <2>6. CASE UNCHANGED <<source, used, leg, bank>>
    BY <2>1, <2>2, <2>6, SameTx
  <2>7. ASSUME NEW t \in Tx, NEW p \in Payload, Ingest(t, p) \/ ReviewAndApply(t, p)
        PROVE  TxInv(u)'
    BY <2>3, <2>7 DEF Ingest, ReviewAndApply
  <2>8. ASSUME NEW a \in Account, NEW st \in {"paused", "enabled"}, NEW pol \in Policy[a],
               SaveMap(a, [status |-> st, policy |-> pol])
        PROVE  TxInv(u)'
    BY <2>6, <2>8 DEF SaveMap
  <2>9. CASE UNCHANGED vars
    BY <2>6, <2>9 DEF vars
  <2> QED
    BY <2>4, <2>5, <2>6, <2>7, <2>8, <2>9 DEF Next, DeleteMap, SetEnabled
<1>3. Init /\ RowsInv => ReviewInv
  BY <1>1 DEF ReviewInv
<1>4. ReviewInv /\ RowsInv' /\ [Next]_vars => ReviewInv'
  BY <1>2 DEF ReviewInv
<1> QED
  BY <1>3, <1>4, RowsInvariant, PTL DEF Spec

\* Whatever was reviewed, paused or resumed in between, a row is never left held
\* without a source that asks for its review.
THEOREM NothingHeldForEver == Spec => []HeldRowsUnderReview
<1>1. ReviewInv => HeldRowsUnderReview
  BY DEF ReviewInv, TxInv, HeldInv, HeldRowsUnderReview
<1> QED
  BY <1>1, ReviewInvariant, PTL

\* A row that can be reconciled freely states the latest version of its
\* transaction, as it was mapped when that was imported.
THEOREM OpenRowsUpToDate == Spec => []OpenRowsAgree
<1>1. ReviewInv => OpenRowsAgree
  BY DEF ReviewInv, TxInv, OpenInv, OpenRowsAgree
<1> QED
  BY <1>1, ReviewInvariant, PTL

\* A source that asks for no review has every row its version calls for.
THEOREM NothingMissing == Spec => []ClosedSourceComplete
<1>1. ReviewInv => ClosedSourceComplete
  BY DEF ReviewInv, TxInv, ClosedInv, ClosedSourceComplete, Exists
<1> QED
  BY <1>1, ReviewInvariant, PTL
-----------------------------------------------------------------------------
(* Every row can be traced *)

\* What a version says of a leg, by a fee policy.
Stated(p, a, pol) ==
    [net |-> IF pol = "Deduct fee from amount" THEN p.amount[a] - p.fee[a] ELSE p.amount[a],
     day |-> p.day]

\* One of the versions states this entry of the leg.
Traced(versions, a, entry) ==
    \E p \in versions :
        /\ p.state = "completed" /\ a \in p.legs
        /\ \E pol \in FeePolicy : entry = Stated(p, a, pol)

\* The versions that are on record.
OnRecord(t) == {p \in Payload : p \in evidence[t] \/ p = source[t].payload}

\* RowsHaveEvidence, without the mappings of the moment.
TraceInv ==
    \A t \in Tx, a \in Account : \A r \in 1..leg[t][a].revision :
        Traced(OnRecord(t), a, bank[t][a][r].entry)

\* What normalize() says depends on the fee policy of that account only.
LEMMA DesiredStated ==
    ASSUME NEW p, NEW a \in Account, NEW m \in [Account -> Mapping]
    PROVE  /\ Desired(p, a, m) = Stated(p, a, m[a].policy)
           /\ \A pol \in FeePolicy :
                 Desired(p, a, [m EXCEPT ![a].policy = pol]) = Stated(p, a, pol)
<1>1. ASSUME NEW k \in [Account -> Mapping] PROVE Desired(p, a, k) = Stated(p, a, k[a].policy)
  BY DEF Desired, Net, Stated
<1>2. ASSUME NEW pol \in FeePolicy
      PROVE  Desired(p, a, [m EXCEPT ![a].policy = pol]) = Stated(p, a, pol)
  <2> DEFINE k == [m EXCEPT ![a] = [m[a] EXCEPT !.policy = pol]]
  <2>1. k \in [Account -> Mapping] /\ k[a].policy = pol
    BY DEF Mapping
  <2>2. [m EXCEPT ![a].policy = pol] = k
    OBVIOUS
  <2> HIDE DEF k
  <2> QED
    BY <1>1, <2>1, <2>2
<1> QED
  BY <1>1, <1>2

\* A version on record stays on record.
LEMMA RecordGrows ==
    ASSUME TypeOK, NEW t \in Tx, NEW p \in Payload, NEW review, SaveSource(t, p, review),
           NEW u \in Tx
    PROVE  OnRecord(u) \subseteq OnRecord(u)'
<1> SUFFICES ASSUME NEW q \in OnRecord(u)
             PROVE  q \in evidence'[u] \/ q = source'[u].payload
  BY DEF OnRecord
<1>0. q \in Payload /\ (q \in evidence[u] \/ q = source[u].payload)
  BY DEF OnRecord
<1>1. CASE u # t
  BY <1>0, <1>1 DEF TypeOK, SaveSource
<1>2. CASE u = t
  <2>1. source'[t].payload = p
    BY SavedSource
  <2>2. CASE Exists(t)
    <3>1. evidence'[t] = evidence[t] \cup ({source[t].payload} \ {p})
      BY <2>2 DEF SaveSource, TypeOK
    <3> QED
      BY <1>0, <1>2, <2>1, <3>1
  <2>3. CASE ~Exists(t)
    <3>1. evidence'[t] = evidence[t] /\ q # source[t].payload
      BY <1>0, <1>2, <2>3, PayloadAssumption DEF SaveSource, TypeOK, Exists
    <3> QED
      BY <1>0, <1>2, <3>1
  <2> QED
    BY <2>2, <2>3
<1> QED
  BY <1>1, <1>2

\* What was traced is traced by any more versions.
LEMMA TraceStays ==
    ASSUME NEW few, NEW more, few \subseteq more, NEW a, NEW entry, Traced(few, a, entry)
    PROVE  Traced(more, a, entry)
  BY DEF Traced

\* The rows of a leg are rows of the bank.
LEMMA LegRows ==
    ASSUME RowsInv, NEW t \in Tx, NEW a \in Account, NEW r \in 1..leg[t][a].revision
    PROVE  r \in Revision /\ bank[t][a][r] \in Row
<1>1. leg[t][a].revision \in 0..MaxRev
  BY DEF RowsInv, TypeOK, Leg
<1>2. r \in Revision
  BY <1>1, BoundAssumption DEF Revision
<1> QED
  BY <1>2 DEF RowsInv, TypeOK

\* A settlement adds rows that state the version it saves, and rewrites none.
LEMMA SettleTraces ==
    ASSUME RowsInv, TraceInv, NEW t \in Tx, NEW p \in Payload, Settle(t, p),
           NEW a \in Account, NEW r \in 1..leg'[t][a].revision
    PROVE  Traced(OnRecord(t)', a, bank'[t][a][r].entry)
<1>1. TypeOK /\ SaveSource(t, p, PausedReview(t))
  BY DEF RowsInv, Settle
<1>1a. OnRecord(t) \subseteq OnRecord(t)'
  BY <1>1, RecordGrows
<1>2. leg[t][a].revision \in Nat
  BY BoundAssumption DEF RowsInv, TypeOK, Leg
<1>3. CASE a \in Created(t, p)
  <2> DEFINE n == NextRevision(t, a)
  <2>1. /\ n \in Revision /\ n = leg[t][a].revision + 1
        /\ leg'[t][a].revision = n /\ bank'[t][a][n] = NewRow(p, a)
    BY <1>3, CreatedRow DEF NextRevision
  <2>2. CASE r = n
    <3>1. bank'[t][a][r].entry = Desired(p, a, map)
      BY <2>1, <2>2 DEF NewRow
    <3>2. map \in [Account -> Mapping]
      BY <1>1 DEF TypeOK
    <3>3. /\ Desired(p, a, map) = Stated(p, a, map[a].policy)
          /\ map[a].policy \in FeePolicy
      BY <3>2, DesiredStated DEF Mapping
    <3>4. p.state = "completed" /\ a \in p.legs
      BY <1>3 DEF Created, Target
    <3>5. p \in OnRecord(t)'
      BY <1>1, SavedSource DEF OnRecord
    <3> QED
      BY <3>1, <3>3, <3>4, <3>5 DEF Traced
  <2>3. CASE r # n
    <3>1. r \in 1..leg[t][a].revision
      BY <1>2, <2>1, <2>3
    <3>2. r \in Revision /\ bank[t][a][r] \in Row
      BY <3>1, LegRows
    <3>3. bank'[t][a][r] = IF leg[t][a].active /\ r = leg[t][a].revision
                           THEN [bank[t][a][r] EXCEPT !.status = "cancelled"]
                           ELSE bank[t][a][r]
      BY <1>3, <2>3, <3>2, CreatedRow
    <3>4. bank'[t][a][r].entry = bank[t][a][r].entry
      BY <3>2, <3>3 DEF Row
    <3>5. Traced(OnRecord(t), a, bank[t][a][r].entry)
      BY <3>1 DEF TraceInv
    <3> QED
      BY <1>1a, <3>4, <3>5, TraceStays
  <2> QED
    BY <2>2, <2>3
<1>4. CASE a \notin Created(t, p)
  <2>1. leg'[t][a].revision = leg[t][a].revision
    BY <1>4, OtherRow
  <2>2. r \in Revision /\ bank[t][a][r] \in Row
    BY <2>1, LegRows
  <2>3. bank'[t][a][r] \in {bank[t][a][r], [bank[t][a][r] EXCEPT !.status = "cancelled"],
                            [bank[t][a][r] EXCEPT !.held = FALSE]}
    <3>1. CASE a \in Conflicts(t, p)
      <4>1. bank'[t][a][r] = IF r = leg[t][a].revision
                             THEN [bank[t][a][r] EXCEPT !.status = "cancelled"]
                             ELSE bank[t][a][r]
        BY <1>4, <2>2, <3>1, OtherRow
      <4> QED
        BY <4>1
    <3>2. CASE a \notin Conflicts(t, p)
      <4>1. bank'[t][a][r] = IF a \in Target(p, map) /\ r = leg[t][a].revision
                             THEN [bank[t][a][r] EXCEPT !.held = FALSE]
                             ELSE bank[t][a][r]
        BY <1>4, <2>2, <3>2, OtherRow
      <4> QED
        BY <4>1
    <3> QED
      BY <3>1, <3>2
  <2>4. bank'[t][a][r].entry = bank[t][a][r].entry
    BY <2>2, <2>3 DEF Row
  <2>5. Traced(OnRecord(t), a, bank[t][a][r].entry)
    BY <2>1 DEF TraceInv
  <2> QED
    BY <1>1a, <2>4, <2>5, TraceStays
<1> QED
  BY <1>3, <1>4
\* A step that leaves leg records and entries alone, and forgets no version.
LEMMA SameRows ==
    ASSUME RowsInv, TraceInv, leg' = leg,
           \A t \in Tx : OnRecord(t) \subseteq OnRecord(t)',
           \A t \in Tx, a \in Account, r \in Revision :
               bank'[t][a][r].entry = bank[t][a][r].entry
    PROVE  TraceInv'
<1> SUFFICES ASSUME NEW t \in Tx, NEW a \in Account, NEW r \in 1..leg[t][a].revision
             PROVE  Traced(OnRecord(t)', a, bank'[t][a][r].entry)
  BY DEF TraceInv
<1>1. bank'[t][a][r].entry = bank[t][a][r].entry
  BY LegRows
<1>2. Traced(OnRecord(t), a, bank[t][a][r].entry)
  BY DEF TraceInv
<1> QED
  BY <1>1, <1>2, TraceStays

\* Every call of ingest() keeps all rows traceable.
LEMMA IngestTraces ==
    ASSUME RowsInv, TraceInv, NEW t \in Tx, NEW p \in Payload, NEW apply \in BOOLEAN,
           IngestOne(t, p, apply)
    PROVE  TraceInv'
<1>1. TypeOK
  BY DEF RowsInv
<1>2. CASE MarkReview(t, p)
  <2>1. leg' = leg /\ \A u \in Tx : OnRecord(u) \subseteq OnRecord(u)'
    BY <1>1, <1>2, RecordGrows DEF MarkReview
  <2>2. ASSUME NEW u \in Tx, NEW a \in Account, NEW r \in Revision
        PROVE  bank'[u][a][r].entry = bank[u][a][r].entry
    <3>1. bank[u][a][r] \in Row
      BY <1>1 DEF TypeOK
    <3>2. CASE u = t
      <4>1. bank'[t][a][r] = IF leg[t][a].active /\ r = leg[t][a].revision
                             THEN [bank[t][a][r] EXCEPT !.held = TRUE] ELSE bank[t][a][r]
        BY <1>1, <1>2, MarkedRows
      <4> QED
        BY <3>1, <3>2, <4>1 DEF Row
    <3>3. CASE u # t
      BY <1>1, <1>2, <3>3 DEF MarkReview, TypeOK
    <3> QED
      BY <3>2, <3>3
  <2> QED
    BY <2>1, <2>2, SameRows
<1>3. CASE Settle(t, p)
  <2> SUFFICES ASSUME NEW u \in Tx, NEW a \in Account, NEW r \in 1..leg'[u][a].revision
               PROVE  Traced(OnRecord(u)', a, bank'[u][a][r].entry)
    BY DEF TraceInv
  <2>1. CASE u = t
    BY <1>3, <2>1, SettleTraces
  <2>2. CASE u # t
    <3>1. leg'[u] = leg[u] /\ bank'[u] = bank[u]
      BY <1>1, <2>2, IngestLeavesOthers
    <3>2. OnRecord(u) \subseteq OnRecord(u)'
      BY <1>1, <1>3, RecordGrows DEF Settle
    <3>3. Traced(OnRecord(u), a, bank[u][a][r].entry)
      BY <3>1 DEF TraceInv
    <3> QED
      BY <3>1, <3>2, <3>3, TraceStays
  <2> QED
    BY <2>1, <2>2
<1> QED
  BY <1>2, <1>3 DEF IngestOne

\* Nothing that a leg ever had in the books is without a version that says so.
THEOREM RowsTraced == Spec => []RowsHaveEvidence
<1>1. Init => TraceInv
  BY DEF Init, NoLeg, TraceInv
<1>2. RowsInv /\ TraceInv /\ [Next]_vars => TraceInv'
  <2> SUFFICES ASSUME RowsInv, TraceInv, [Next]_vars PROVE TraceInv'
    OBVIOUS
  <2>1. ASSUME NEW t \in Tx, NEW p \in Payload, Ingest(t, p) \/ ReviewAndApply(t, p)
        PROVE  TraceInv'
    BY <2>1, IngestTraces DEF Ingest, ReviewAndApply
  <2>2. ASSUME NEW t \in Tx, NEW a \in Account, NEW r \in Revision, NEW links \in Links,
               ReconcileRow(t, a, r, links)
        PROVE  TraceInv'
    <3>1. leg' = leg /\ \A u \in Tx : OnRecord(u)' = OnRecord(u)
      BY <2>2 DEF ReconcileRow, OnRecord
    <3> QED
      BY <2>2, <3>1, ReconciledRows, SameRows DEF RowsInv
  <2>3. CASE UNCHANGED <<source, evidence, leg, bank>>
    BY <2>3, SameRows DEF OnRecord
  <2>4. CASE Reinstall
    BY <2>4 DEF Reinstall, NoLeg, TraceInv
  <2>5. ASSUME NEW a \in Account, NEW st \in {"paused", "enabled"}, NEW pol \in Policy[a],
               SaveMap(a, [status |-> st, policy |-> pol])
        PROVE  TraceInv'
    BY <2>3, <2>5 DEF SaveMap
  <2> QED
    BY <2>1, <2>2, <2>3, <2>4, <2>5 DEF Next, DeleteMap, SetEnabled, vars
<1>3. RowsInv /\ TraceInv => RowsHaveEvidence
  <2> SUFFICES ASSUME RowsInv, TraceInv, NEW t \in Tx, NEW a \in Account,
                      NEW r \in 1..leg[t][a].revision
               PROVE  \E p \in evidence[t] \cup {source[t].payload} :
                        /\ p # NoPayload /\ p.state = "completed" /\ a \in p.legs
                        /\ \E pol \in FeePolicy :
                              bank[t][a][r].entry = Desired(p, a, [map EXCEPT ![a].policy = pol])
    BY DEF RowsHaveEvidence
  <2>1. PICK p \in OnRecord(t) :
            /\ p.state = "completed" /\ a \in p.legs
            /\ \E pol \in FeePolicy : bank[t][a][r].entry = Stated(p, a, pol)
    BY DEF TraceInv, Traced
  <2>2. p # NoPayload /\ p \in evidence[t] \cup {source[t].payload}
    BY PayloadAssumption DEF OnRecord
  <2>3. PICK pol \in FeePolicy : bank[t][a][r].entry = Stated(p, a, pol)
    BY <2>1
  <2>4. map \in [Account -> Mapping]
    BY DEF RowsInv, TypeOK
  <2>5. Desired(p, a, [map EXCEPT ![a].policy = pol]) = Stated(p, a, pol)
    BY <2>4, DesiredStated
  <2> QED
    BY <2>1, <2>2, <2>3, <2>5
<1> QED
  BY <1>1, <1>2, <1>3, RowsInvariant, PTL DEF Spec

-----------------------------------------------------------------------------
(* What becomes of a row *)

\* What one call of ingest() may do to a row.
IngestedRow(old, new) ==
    \/ new = old
    \/ /\ Submitted(old)
       /\ \/ new = [old EXCEPT !.held = TRUE]
          \/ new = [old EXCEPT !.held = FALSE]
          \/ new = [old EXCEPT !.status = "cancelled"]
    \/ /\ old.status = "none" /\ new.status = "submitted"
       /\ new.links = Unlinked /\ ~new.held

\* The row of an active leg is submitted.
LEMMA ActiveRow ==
    ASSUME RowsInv, NEW t \in Tx, NEW a \in Account, leg[t][a].active
    PROVE  leg[t][a].revision \in Revision /\ Submitted(bank[t][a][leg[t][a].revision])
<1>1. leg[t][a].revision \in Revision
  BY CurrentRow
<1> QED
  BY <1>1 DEF RowsInv, LegsMatchRows, Submitted

\* A call of ingest() touches only submitted rows, and posts where there is none.
LEMMA IngestRow ==
    ASSUME RowsInv, NEW t \in Tx, NEW p \in Payload, NEW apply \in BOOLEAN,
           IngestOne(t, p, apply), NEW u \in Tx, NEW a \in Account, NEW r \in Revision
    PROVE  IngestedRow(bank[u][a][r], bank'[u][a][r])
<1>1. TypeOK
  BY DEF RowsInv
<1>2. CASE u # t
  BY <1>1, <1>2, IngestLeavesOthers DEF IngestedRow
<1>3. CASE u = t /\ MarkReview(t, p)
  <2>1. bank'[t][a][r] = IF leg[t][a].active /\ r = leg[t][a].revision
                         THEN [bank[t][a][r] EXCEPT !.held = TRUE] ELSE bank[t][a][r]
    BY <1>1, <1>3, MarkedRows
  <2> QED
    BY <1>3, <2>1, ActiveRow DEF IngestedRow
<1>4. CASE u = t /\ Settle(t, p) /\ a \in Created(t, p)
  <2> DEFINE n == NextRevision(t, a)
  <2>1. CASE r = n
    <3>1. bank'[t][a][r] = NewRow(p, a)
      BY <1>4, <2>1, CreatedRow
    <3>2. bank[t][a][r].status = "none"
      BY <1>4, <2>1 DEF Settle, EntryKeysFree
    <3>3. NewRow(p, a).status = "submitted" /\ NewRow(p, a).links = Unlinked /\ ~NewRow(p, a).held
      BY DEF NewRow
    <3> QED
      BY <1>4, <3>1, <3>2, <3>3 DEF IngestedRow
  <2>2. CASE r # n
    <3>1. bank'[t][a][r] = IF leg[t][a].active /\ r = leg[t][a].revision
                           THEN [bank[t][a][r] EXCEPT !.status = "cancelled"]
                           ELSE bank[t][a][r]
      BY <1>4, <2>2, CreatedRow
    <3> QED
      BY <1>4, <3>1, ActiveRow DEF IngestedRow
  <2> QED
    BY <2>1, <2>2
<1>5. CASE u = t /\ Settle(t, p) /\ a \notin Created(t, p)
  <2>1. CASE a \in Conflicts(t, p)
    <3>1. /\ leg[t][a].active
          /\ bank'[t][a][r] = IF r = leg[t][a].revision
                              THEN [bank[t][a][r] EXCEPT !.status = "cancelled"]
                              ELSE bank[t][a][r]
      BY <1>5, <2>1, OtherRow
    <3> QED
      BY <1>5, <3>1, ActiveRow DEF IngestedRow
  <2>2. CASE a \notin Conflicts(t, p)
    <3>1. bank'[t][a][r] = IF a \in Target(p, map) /\ r = leg[t][a].revision
                           THEN [bank[t][a][r] EXCEPT !.held = FALSE]
                           ELSE bank[t][a][r]
      BY <1>5, <2>2, OtherRow
    <3>2. a \in Target(p, map) => leg[t][a].active
      BY <1>5 DEF Created
    <3> QED
      BY <1>5, <3>1, <3>2, ActiveRow DEF IngestedRow
  <2> QED
    BY <2>1, <2>2
<1> QED
  BY <1>2, <1>3, <1>4, <1>5 DEF IngestOne

\* What reconciling a row changes: its links.
LEMMA ReconciledRow ==
    ASSUME TypeOK, NEW t \in Tx, NEW a \in Account, NEW r \in Revision,
           NEW links \in Links, ReconcileRow(t, a, r, links)
    PROVE  bank'[t][a][r] = [bank[t][a][r] EXCEPT !.links = links]
<1> DEFINE new == [bank[t][a][r] EXCEPT !.links = links]
<1>1. bank' = [bank EXCEPT ![t] =
                  [bank[t] EXCEPT ![a] = [bank[t][a] EXCEPT ![r] = new]]]
  BY DEF ReconcileRow
<1> HIDE DEF new
<1>2. bank'[t][a][r] = new
  BY <1>1 DEF TypeOK
<1> QED
  BY <1>2 DEF new

\* What it leaves alone: every other row.
LEMMA UnreconciledRow ==
    ASSUME TypeOK, NEW t \in Tx, NEW a \in Account, NEW r \in Revision,
           NEW links \in Links, ReconcileRow(t, a, r, links),
           NEW u \in Tx, NEW b \in Account, NEW s \in Revision,
           ~(u = t /\ b = a /\ s = r)
    PROVE  bank'[u][b][s] = bank[u][b][s]
<1> DEFINE new == [bank[t][a][r] EXCEPT !.links = links]
<1>1. bank' = [bank EXCEPT ![t] =
                  [bank[t] EXCEPT ![a] = [bank[t][a] EXCEPT ![r] = new]]]
  BY DEF ReconcileRow
<1> HIDE DEF new
<1> QED
  BY <1>1 DEF TypeOK

-----------------------------------------------------------------------------
(* No row is rewritten *)

\* A row that was never posted has no links.
BlankInv ==
    \A t \in Tx, a \in Account, r \in Revision :
        bank[t][a][r].status = "none" => bank[t][a][r].links = Unlinked

\* RowsNeverRewritten for one row.
NotRewritten(old, new) ==
    /\ old.status # "none" => new.status # "none" /\ new.entry = old.entry
    /\ old.status = "cancelled" => new = old
    /\ old.links # new.links => source' = source /\ leg' = leg

\* What ingest() does to a row rewrites nothing.
LEMMA IngestedKept ==
    ASSUME NEW old \in Row, NEW new \in Row, IngestedRow(old, new),
           old.status = "none" => old.links = Unlinked
    PROVE  NotRewritten(old, new) /\ (new.status = "none" => new.links = Unlinked)
  BY DEF IngestedRow, NotRewritten, Row, Submitted

\* Every step keeps rows that were never posted blank, and rewrites no other.
LEMMA StepKeepsRows ==
    ASSUME RowsInv, TypeOK', BlankInv, [Next]_vars,
           NEW t \in Tx, NEW a \in Account, NEW r \in Revision
    PROVE  /\ NotRewritten(bank[t][a][r], bank'[t][a][r])
           /\ bank'[t][a][r].status = "none" => bank'[t][a][r].links = Unlinked
<1>1. /\ TypeOK /\ bank[t][a][r] \in Row /\ bank'[t][a][r] \in Row
      /\ bank[t][a][r].status = "none" => bank[t][a][r].links = Unlinked
  BY DEF RowsInv, TypeOK, BlankInv
<1>2. ASSUME NEW u \in Tx, NEW p \in Payload, Ingest(u, p) \/ ReviewAndApply(u, p)
      PROVE  IngestedRow(bank[t][a][r], bank'[t][a][r])
  BY <1>2, IngestRow DEF Ingest, ReviewAndApply
<1>3. ASSUME NEW u \in Tx, NEW b \in Account, NEW s \in Revision, NEW links \in Links,
             ReconcileRow(u, b, s, links)
      PROVE  /\ NotRewritten(bank[t][a][r], bank'[t][a][r])
             /\ bank'[t][a][r].status = "none" => bank'[t][a][r].links = Unlinked
  <2>1. source' = source /\ leg' = leg /\ Submitted(bank[u][b][s])
    BY <1>3 DEF ReconcileRow
  <2>2. CASE ~(t = u /\ a = b /\ r = s)
    <3>1. bank'[t][a][r] = bank[t][a][r]
      BY <1>1, <1>3, <2>2, UnreconciledRow
    <3> QED
      BY <1>1, <3>1 DEF NotRewritten
  <2>3. CASE t = u /\ a = b /\ r = s
    <3>1. bank'[t][a][r] = [bank[t][a][r] EXCEPT !.links = links]
      BY <1>1, <1>3, <2>3, ReconciledRow
    <3> QED
      BY <1>1, <2>1, <2>3, <3>1 DEF NotRewritten, Row, Submitted
  <2> QED
    BY <2>2, <2>3
<1>4. CASE bank' = bank
  BY <1>1, <1>4 DEF NotRewritten
<1>5. ASSUME NEW b \in Account, NEW st \in {"paused", "enabled"}, NEW pol \in Policy[b],
             SaveMap(b, [status |-> st, policy |-> pol])
      PROVE  bank' = bank
  BY <1>5 DEF SaveMap
<1>6. CASE ~ \E u \in Tx, p \in Payload : Ingest(u, p) \/ ReviewAndApply(u, p)
  BY <1>3, <1>4, <1>5, <1>6 DEF Next, vars, DeleteMap, SetEnabled, Reinstall
<1> QED
  BY <1>1, <1>2, <1>6, IngestedKept

\* A row keeps the entry it was posted with, and once cancelled everything;
\* links come and go by the accountant's hand only.
THEOREM RowsFrozen == Spec => RowsNeverRewritten
<1>1. Init => BlankInv
  BY DEF Init, NoRow, BlankInv
<1>2. RowsInv /\ RowsInv' /\ BlankInv /\ [Next]_vars => BlankInv'
  BY StepKeepsRows DEF RowsInv, BlankInv
<1>3. RowsInv /\ RowsInv' /\ BlankInv /\ [Next]_vars =>
        [\A t \in Tx, a \in Account, r \in Revision :
          LET old == bank[t][a][r]  new == bank'[t][a][r]
          IN  /\ old.status # "none" => new.status # "none" /\ new.entry = old.entry
              /\ old.status = "cancelled" => new = old
              /\ old.links # new.links => source' = source /\ leg' = leg]_vars
  BY StepKeepsRows DEF RowsInv, NotRewritten
<1> QED
  BY <1>1, <1>2, <1>3, RowsInvariant, PTL DEF Spec, RowsNeverRewritten

-----------------------------------------------------------------------------
(* The lines of the ledger *)

\* The live line of a leg is that of its submitted row, if it has one.
LinesRight ==
    \A t \in Tx, a \in Account :
        /\ \A r \in Revision :
              Submitted(bank[t][a][r]) => LineOf(t, a) = Line(bank[t][a][r])
        /\ (\A r \in Revision : ~Submitted(bank[t][a][r])) => LineOf(t, a) = NoLine

LEMMA LinesOfRows == RowsInv => LinesRight
<1> SUFFICES ASSUME RowsInv, NEW t \in Tx, NEW a \in Account
             PROVE  /\ \A r \in Revision :
                          Submitted(bank[t][a][r]) => LineOf(t, a) = Line(bank[t][a][r])
                    /\ (\A r \in Revision : ~Submitted(bank[t][a][r])) =>
                          LineOf(t, a) = NoLine
  BY DEF LinesRight
<1>1. ASSUME NEW r \in Revision, Submitted(bank[t][a][r])
      PROVE  LineOf(t, a) = Line(bank[t][a][r])
  <2>1. SubmittedRows(t, a) = {r}
    BY <1>1 DEF SubmittedRows, RowsInv, OneSubmittedRow
  <2>2. (CHOOSE s \in SubmittedRows(t, a) : TRUE) = r
    BY <2>1
  <2> QED
    BY <2>1, <2>2 DEF LineOf
<1>2. (\A r \in Revision : ~Submitted(bank[t][a][r])) => LineOf(t, a) = NoLine
  BY DEF LineOf, SubmittedRows
<1> QED
  BY <1>1, <1>2

\* A line is never mistaken for there being none.
LEMMA LineIsLine == ASSUME NEW row PROVE Line(row) # NoLine
<1>1. "status" \in DOMAIN NoLine
  BY DEF NoLine, NoRow
<1>2. "status" \notin DOMAIN Line(row)
  BY DEF Line
<1> QED
  BY <1>1, <1>2

LEMMA LineHeld ==
    ASSUME NEW row \in Row, NEW h \in BOOLEAN
    PROVE  Line([row EXCEPT !.held = h]) = [Line(row) EXCEPT !.held = h]
  BY DEF Line, Row

\* Rows that stay the same leave the line the same.
LEMMA SameLine ==
    ASSUME LinesRight, LinesRight', NEW t \in Tx, NEW a \in Account,
           \A r \in Revision : bank'[t][a][r] = bank[t][a][r]
    PROVE  LineOf(t, a)' = LineOf(t, a)
<1>1. CASE \E r \in Revision : Submitted(bank[t][a][r])
  BY <1>1 DEF LinesRight, Submitted
<1>2. CASE \A r \in Revision : ~Submitted(bank[t][a][r])
  BY <1>2 DEF LinesRight, Submitted
<1> QED
  BY <1>1, <1>2

\* The rows of a leg that is not active are not submitted, once it may get a
\* new one.
LEMMA NothingLive ==
    ASSUME RowsInv, NEW t \in Tx, NEW p \in Payload, Settle(t, p),
           NEW a \in Account, a \in Created(t, p), ~leg[t][a].active
    PROVE  \A r \in Revision : ~Submitted(bank[t][a][r])
<1>1. leg[t][a].revision \in Nat
  BY BoundAssumption DEF RowsInv, TypeOK, Leg
<1>2. LegInv(t, a)
  BY RowsByLeg DEF RowsInv
<1>3. CASE leg[t][a].revision > 0
  <2>1. \A r \in Revision :
            r < leg[t][a].revision \/ r = leg[t][a].revision \/ r > leg[t][a].revision
    BY <1>1 DEF Revision
  <2> QED
    BY <1>2, <1>3, <2>1 DEF LegInv, Submitted
<1>4. CASE leg[t][a].revision = 0
  <2>1. 1 \in Revision /\ bank[t][a][1].status = "none"
    BY <1>4, BoundAssumption DEF Settle, EntryKeysFree, NextRevision, Revision
  <2>2. \A r \in Revision : r = 1 \/ 1 < r
    BY DEF Revision
  <2> QED
    BY <1>2, <2>1, <2>2 DEF LegInv, Submitted
<1> QED
  BY <1>1, <1>3, <1>4

\* A new row makes a fresh line.
LEMMA NewLineFresh ==
    ASSUME TypeOK, NEW t \in Tx, NEW p \in Payload, ~MustReview(p, map),
           NEW a \in Account, a \in Created(t, p)
    PROVE  Ledger!Fresh(Line(NewRow(p, a)))
<1>1. /\ p.state = "completed" /\ a \in p.legs
      /\ a \in EnabledAccounts(map) /\ Net(p, a, map) # 0
  BY DEF Created, Target
<1>2. p.day # 0
  BY <1>1 DEF MustReview
<1>3. Desired(p, a, map) \in Entry
  BY DesiredType DEF TypeOK
<1>4. Net(p, a, map) \in Int /\ p.day \in Nat
  BY <1>3 DEF Desired, Entry
<1>5. Desired(p, a, map) \in [net : Int \ {0}, day : Nat \ {0}]
  BY <1>1, <1>2, <1>4 DEF Desired
<1>6. Unlinked \in [Voucher -> Nat] /\ Unlinked = Ledger!Unlinked
  BY DEF Unlinked, Ledger!Unlinked
<1> QED
  BY <1>5, <1>6 DEF Ledger!Fresh, Ledger!Line, Line, NewRow

\* A line whose row is put under review or released, and nothing else.
LEMMA HeldLine ==
    ASSUME RowsInv, LinesRight, LinesRight', NEW t \in Tx, NEW a \in Account,
           leg[t][a].active, NEW h \in BOOLEAN,
           bank'[t][a][leg[t][a].revision] =
               [bank[t][a][leg[t][a].revision] EXCEPT !.held = h]
    PROVE  LineOf(t, a) # NoLine /\ LineOf(t, a)' = [LineOf(t, a) EXCEPT !.held = h]
<1> DEFINE r == leg[t][a].revision
<1>1. r \in Revision /\ Submitted(bank[t][a][r])
  BY ActiveRow
<1>2. bank[t][a][r] \in Row
  BY <1>1 DEF RowsInv, TypeOK
<1>3. LineOf(t, a) = Line(bank[t][a][r])
  BY <1>1 DEF LinesRight
<1>4. Submitted(bank'[t][a][r])
  BY <1>1, <1>2 DEF Submitted, Row
<1>5. LineOf(t, a)' = Line(bank'[t][a][r])
  BY <1>1, <1>4 DEF LinesRight, Line, Submitted
<1>6. Line(bank'[t][a][r]) = [Line(bank[t][a][r]) EXCEPT !.held = h]
  BY <1>2, LineHeld
<1> QED
  BY <1>3, <1>5, <1>6, LineIsLine

\* An active leg in conflict has an unlinked line.
LEMMA ConflictLine ==
    ASSUME RowsInv, LinesRight, NEW t \in Tx, NEW p \in Payload, Settle(t, p),
           NEW a \in Account, a \in Conflicts(t, p)
    PROVE  LineOf(t, a).links = Ledger!Unlinked
<1>1. Current(t, a).links = Unlinked /\ leg[t][a].active
  BY DEF Settle, ConflictsUnlinked, Conflicts
<1>2. LineOf(t, a) = Line(Current(t, a))
  BY <1>1, ActiveRow DEF LinesRight, Current
<1> QED
  BY <1>1, <1>2 DEF Line, Unlinked, Ledger!Unlinked

\* What a settlement does to each line of its transaction.
LEMMA SettledLine ==
    ASSUME RowsInv, LinesRight, LinesRight', NEW t \in Tx, NEW p \in Payload,
           ~MustReview(p, map), Settle(t, p), NEW a \in Account
    PROVE  Ledger!MaySettle(LineOf(t, a), LineOf(t, a)')
<1>1. TypeOK
  BY DEF RowsInv
<1>2. CASE a \in Created(t, p)
  <2> DEFINE n == NextRevision(t, a)
  <2>1. n \in Revision /\ bank'[t][a][n] = NewRow(p, a)
    BY <1>2, CreatedRow
  <2>2. Submitted(bank'[t][a][n])
    BY <2>1 DEF Submitted, NewRow
  <2>3. LineOf(t, a)' = Line(NewRow(p, a))
    BY <2>1, <2>2 DEF LinesRight, Line, Submitted
  <2>4. LineOf(t, a) # NoLine => LineOf(t, a).links = Ledger!Unlinked
    <3>1. CASE leg[t][a].active
      BY <1>2, <3>1, ConflictLine DEF Created
    <3>2. CASE ~leg[t][a].active
      BY <1>2, <3>2, NothingLive DEF LinesRight
    <3> QED
      BY <3>1, <3>2
  <2> QED
    BY <1>1, <1>2, <2>3, <2>4, NewLineFresh DEF Ledger!MaySettle
<1>3. CASE a \notin Created(t, p) /\ a \in Conflicts(t, p)
  <2>1. \A r \in Revision : ~Submitted(bank'[t][a][r])
    <3>1. /\ leg[t][a].active
          /\ \A r \in Revision :
                bank'[t][a][r] = IF r = leg[t][a].revision
                                 THEN [bank[t][a][r] EXCEPT !.status = "cancelled"]
                                 ELSE bank[t][a][r]
      BY <1>3, OtherRow
    <3>2. leg[t][a].revision \in Revision /\ Submitted(bank[t][a][leg[t][a].revision])
      BY <3>1, ActiveRow
    <3>3. \A r \in Revision : r # leg[t][a].revision => ~Submitted(bank[t][a][r])
      BY <3>2 DEF RowsInv, OneSubmittedRow
    <3>4. \A r \in Revision : bank[t][a][r] \in Row
      BY <1>1 DEF TypeOK
    <3> QED
      BY <3>1, <3>3, <3>4 DEF Submitted, Row
  <2>2. LineOf(t, a)' = NoLine
    BY <2>1 DEF LinesRight, Submitted, NoLine, NoRow, Unlinked, NoEntry
  <2> QED
    BY <1>3, <2>2, ConflictLine DEF Ledger!MaySettle
<1>4. CASE a \notin Created(t, p) /\ a \notin Conflicts(t, p)
  <2>1. \A r \in Revision :
            bank'[t][a][r] = IF a \in Target(p, map) /\ r = leg[t][a].revision
                             THEN [bank[t][a][r] EXCEPT !.held = FALSE]
                             ELSE bank[t][a][r]
    BY <1>4, OtherRow
  <2>2. CASE a \in Target(p, map)
    <3>1. leg[t][a].active
      BY <1>4, <2>2 DEF Created
    <3>2. bank'[t][a][leg[t][a].revision] =
              [bank[t][a][leg[t][a].revision] EXCEPT !.held = FALSE]
      BY <2>1, <2>2, <3>1, ActiveRow
    <3> QED
      BY <3>1, <3>2, HeldLine DEF Ledger!MaySettle
  <2>3. CASE a \notin Target(p, map)
    BY <2>1, <2>3, SameLine DEF Ledger!MaySettle
  <2> QED
    BY <2>2, <2>3
<1> QED
  BY <1>2, <1>3, <1>4

\* A transaction whose rows stay the same keeps its lines.
LEMMA OtherLines ==
    ASSUME RowsInv, LinesRight, LinesRight', NEW t \in Tx, NEW p \in Payload,
           NEW apply \in BOOLEAN, IngestOne(t, p, apply)
    PROVE  \A u \in Tx \ {t}, a \in Account : LineOf(u, a)' = LineOf(u, a)
<1> SUFFICES ASSUME NEW u \in Tx \ {t}, NEW a \in Account
             PROVE  LineOf(u, a)' = LineOf(u, a)
  OBVIOUS
<1>1. \A r \in Revision : bank'[u][a][r] = bank[u][a][r]
  BY IngestLeavesOthers DEF RowsInv
<1> QED
  BY <1>1, SameLine

\* Putting rows under review puts their lines under review.
LEMMA MarkedLine ==
    ASSUME RowsInv, LinesRight, LinesRight', NEW t \in Tx, NEW p \in Payload,
           MarkReview(t, p), NEW a \in Account
    PROVE  \/ LineOf(t, a)' = LineOf(t, a)
           \/ /\ LineOf(t, a) # NoLine
              /\ LineOf(t, a)' = [LineOf(t, a) EXCEPT !.held = TRUE]
<1>1. \A r \in Revision :
          bank'[t][a][r] = IF leg[t][a].active /\ r = leg[t][a].revision
                           THEN [bank[t][a][r] EXCEPT !.held = TRUE] ELSE bank[t][a][r]
  BY MarkedRows DEF RowsInv
<1>2. CASE leg[t][a].active
  <2>1. bank'[t][a][leg[t][a].revision] =
            [bank[t][a][leg[t][a].revision] EXCEPT !.held = TRUE]
    BY <1>1, <1>2, ActiveRow
  <2> QED
    BY <1>2, <2>1, HeldLine
<1>3. CASE ~leg[t][a].active
  BY <1>1, <1>3, SameLine
<1> QED
  BY <1>2, <1>3

\* Reconciling a row changes the links of its line, within what a review allows.
LEMMA ReconciledLine ==
    ASSUME RowsInv, LinesRight, LinesRight', NEW t \in Tx, NEW a \in Account,
           NEW r \in Revision, NEW links \in Links, ReconcileRow(t, a, r, links)
    PROVE  /\ LineOf(t, a) # NoLine
           /\ LineOf(t, a)' = [LineOf(t, a) EXCEPT !.links = LineOf(t, a)'.links]
           /\ LineOf(t, a).held =>
                \A v \in Voucher : LineOf(t, a)'.links[v] <= LineOf(t, a).links[v]
<1>1. /\ Submitted(bank[t][a][r])
      /\ bank[t][a][r].held => \A v \in Voucher : links[v] <= bank[t][a][r].links[v]
  BY DEF ReconcileRow, MayRelink
<1>2. bank[t][a][r] \in Row
  BY DEF RowsInv, TypeOK
<1>3. bank'[t][a][r] = [bank[t][a][r] EXCEPT !.links = links]
  BY ReconciledRow DEF RowsInv
<1>4. /\ Submitted(bank'[t][a][r])
      /\ bank'[t][a][r].links = links
      /\ bank'[t][a][r].held = bank[t][a][r].held
      /\ bank'[t][a][r].entry = bank[t][a][r].entry
  BY <1>1, <1>2, <1>3 DEF Submitted, Row
<1>5. LineOf(t, a) = Line(bank[t][a][r])
  BY <1>1 DEF LinesRight
<1>6. LineOf(t, a)' = Line(bank'[t][a][r])
  BY <1>4 DEF LinesRight, Line, Submitted
<1>7. Line(bank'[t][a][r]) =
          [entry |-> bank[t][a][r].entry, held |-> bank[t][a][r].held, links |-> links]
  BY <1>4 DEF Line
<1> QED
  BY <1>1, <1>5, <1>6, <1>7, LineIsLine DEF Line

-----------------------------------------------------------------------------
(* The importer implements the ledger *)

\* The variable of the ledger.
Lines == [t \in Tx |-> [a \in Account |-> LineOf(t, a)]]

LEMMA LinesInit == Init => Ledger!LedgerInit
<1> SUFFICES ASSUME Init PROVE Ledger!LedgerInit
  OBVIOUS
<1>1. ASSUME NEW t \in Tx, NEW a \in Account PROVE LineOf(t, a) = NoLine
  <2>1. \A r \in Revision : ~Submitted(bank[t][a][r])
    BY DEF Init, NoRow, Submitted
  <2> QED
    BY <2>1 DEF LineOf, SubmittedRows
<1> QED
  BY <1>1 DEF Ledger!LedgerInit

\* Settling, holding and reconciling rows are the three steps of the ledger;
\* no other step changes a line.
LEMMA LedgerStep ==
    ASSUME RowsInv, LinesRight, LinesRight', [Next]_vars
    PROVE  [Ledger!LedgerNext]_Lines
<1>1. ASSUME NEW t \in Tx, NEW p \in Payload, NEW apply \in BOOLEAN, IngestOne(t, p, apply)
      PROVE  Ledger!LedgerNext
  <2>1. \A u \in Tx \ {t}, a \in Account : LineOf(u, a)' = LineOf(u, a)
    BY <1>1, OtherLines
  <2>2. \A u \in Tx \ {t} : Lines'[u] = Lines[u]
    BY <2>1 DEF Lines
  <2>3. CASE MarkReview(t, p)
    <3>1. \A a \in Account :
              \/ Lines'[t][a] = Lines[t][a]
              \/ /\ Lines[t][a] # NoLine
                 /\ Lines'[t][a] = [Lines[t][a] EXCEPT !.held = TRUE]
      BY <2>3, MarkedLine DEF Lines
    <3> QED
      BY <2>2, <3>1 DEF Ledger!LedgerNext, Ledger!Hold, Lines
  <2>4. CASE ~MustReview(p, map) /\ Settle(t, p)
    <3>1. \A a \in Account : Ledger!MaySettle(LineOf(t, a), LineOf(t, a)')
      BY <2>4, SettledLine
    <3>2. \A a \in Account : Ledger!MaySettle(Lines[t][a], Lines'[t][a])
      BY <3>1 DEF Lines
    <3> QED
      BY <2>2, <3>2 DEF Ledger!LedgerNext, Ledger!Settle, Lines
  <2> QED
    BY <1>1, <2>3, <2>4 DEF IngestOne, NeedsReview
<1>2. ASSUME NEW t \in Tx, NEW a \in Account, NEW r \in Revision, NEW links \in Links,
             ReconcileRow(t, a, r, links)
      PROVE  Ledger!LedgerNext
  <2>1. /\ Lines[t][a] # NoLine
        /\ Lines'[t][a] = [Lines[t][a] EXCEPT !.links = Lines'[t][a].links]
        /\ Lines[t][a].held =>
              \A v \in Voucher : Lines'[t][a].links[v] <= Lines[t][a].links[v]
    BY <1>2, ReconciledLine DEF Lines
  <2>2. ASSUME NEW u \in Tx, NEW b \in Account, <<u, b>> # <<t, a>>
        PROVE  Lines'[u][b] = Lines[u][b]
    <3>1. ~(u = t /\ b = a)
      BY <2>2
    <3>2. \A s \in Revision : bank'[u][b][s] = bank[u][b][s]
      BY <1>2, <3>1, UnreconciledRow DEF RowsInv
    <3>3. LineOf(u, b)' = LineOf(u, b)
      BY <3>2, SameLine
    <3> QED
      BY <3>3 DEF Lines
  <2> QED
    BY <2>1, <2>2 DEF Ledger!LedgerNext, Ledger!Reconcile, Lines
<1>3. CASE bank' = bank
  <2>1. \A t \in Tx, a \in Account : LineOf(t, a)' = LineOf(t, a)
    BY <1>3 DEF LineOf, SubmittedRows
  <2> QED
    BY <2>1 DEF Lines
<1>4. ASSUME NEW a \in Account, NEW st \in {"paused", "enabled"}, NEW pol \in Policy[a],
             SaveMap(a, [status |-> st, policy |-> pol])
      PROVE  bank' = bank
  BY <1>4 DEF SaveMap
<1>5. ASSUME NEW t \in Tx, NEW p \in Payload, Ingest(t, p) \/ ReviewAndApply(t, p)
      PROVE  Ledger!LedgerNext
  BY <1>1, <1>5 DEF Ingest, ReviewAndApply
<1> QED
  BY <1>2, <1>3, <1>4, <1>5 DEF Next, vars, DeleteMap, SetEnabled, Reinstall

\* A line is voided or replaced only while nothing is reconciled against it,
\* its entry is never edited, and it gains no link while it is held.
THEOREM ImporterImplementsLedger == Spec => ImplementsLedger
<1>1. RowsInv /\ LinesRight /\ LinesRight' /\ [Next]_vars => [Ledger!LedgerNext]_Lines
  BY LedgerStep
<1>2. Lines' = Lines => UNCHANGED [t \in Tx |-> [a \in Account |-> LineOf(t, a)]]
  BY DEF Lines
<1>3. RowsInv /\ LinesRight /\ LinesRight' /\ [Next]_vars =>
          [Ledger!LedgerNext]_[t \in Tx |-> [a \in Account |-> LineOf(t, a)]]
  BY <1>1, <1>2
<1> QED
  BY <1>3, LinesInit, LinesOfRows, RowsInvariant, PTL
     DEF Spec, ImplementsLedger, Ledger!LedgerSpec
=============================================================================
