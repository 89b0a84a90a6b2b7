--------------------------- MODULE StatementLedger ---------------------------
(***************************************************************************)
(* What the bank feed promises an accountant, without saying how: for      *)
(* every leg of a bank transaction the books hold at most one live         *)
(* statement line.  A line is posted once and its entry (amount and day)   *)
(* is never edited.  It is voided or replaced only while nothing is        *)
(* reconciled against it, and while it is held for review no               *)
(* reconciliation may be added.                                            *)
(*                                                                         *)
(* The lines of one transaction are settled together; module Importer      *)
(* shows how the importer, the review action and the document guards of    *)
(* the app implement this.                                                 *)
(***************************************************************************)
EXTENDS Naturals

CONSTANTS
    Tx,         \* bank transaction identifiers
    Account,    \* the accounts a transaction can have a leg in
    Voucher,    \* accounting vouchers a line can be reconciled against
    Entry,      \* what a line can state: a non-zero amount on a day
    NoLine      \* there is no live line for a leg

VARIABLE line   \* line[t][a]: the live statement line of leg a of t, or NoLine

Unlinked == [v \in Voucher |-> 0]

Line == [entry : Entry, held : BOOLEAN, links : [Voucher -> Nat]]

Fresh(l) == l \in Line /\ ~l.held /\ l.links = Unlinked

LedgerInit == line = [t \in Tx |-> [a \in Account |-> NoLine]]

\* One leg's share of a settlement: it is left alone, released from review
\* with its entry and links untouched, posted, or -- unlinked -- voided or
\* replaced by a fresh line.
MaySettle(old, new) ==
    \/ new = old
    \/ old # NoLine /\ new = [old EXCEPT !.held = FALSE]
    \/ /\ old # NoLine => old.links = Unlinked
       /\ new # NoLine => Fresh(new)

Settle(t) ==
    /\ \A a \in Account : MaySettle(line[t][a], line'[t][a])
    /\ \A u \in Tx \ {t} : line'[u] = line[u]

\* Lines of one transaction are put under review; entries and links stay.
Hold(t) ==
    /\ \A a \in Account :
          \/ line'[t][a] = line[t][a]
          \/ /\ line[t][a] # NoLine
             /\ line'[t][a] = [line[t][a] EXCEPT !.held = TRUE]
    /\ \A u \in Tx \ {t} : line'[u] = line[u]

\* An accountant changes the reconciliation of one live line.
Reconcile(t, a) ==
    /\ line[t][a] # NoLine
    /\ line'[t][a] = [line[t][a] EXCEPT !.links = line'[t][a].links]
    /\ line[t][a].held =>
          \A v \in Voucher : line'[t][a].links[v] <= line[t][a].links[v]
    /\ \A u \in Tx, b \in Account :
          <<u, b>> # <<t, a>> => line'[u][b] = line[u][b]

LedgerNext ==
    \E t \in Tx : Settle(t) \/ Hold(t) \/ \E a \in Account : Reconcile(t, a)

LedgerSpec == LedgerInit /\ [][LedgerNext]_line
=============================================================================
