------------------------------- MODULE Evidence -------------------------------
(***************************************************************************)
(* enrichment.run and the phases that have no cursor: snapshots of the     *)
(* accounts, daily quotes and daily catalogues.  (Expenses and receipts    *)
(* have modules of their own, and only end or fail here.)  A daily phase   *)
(* commits item by item, begins at its first item each time, and is left   *)
(* alone for a day once it got to its last.                                *)
(*                                                                         *)
(* An account stands for its currency.  A row of a catalogue comes with    *)
(* what belongs to it: the labels of a label group are committed with it.  *)
(***************************************************************************)
EXTENDS SequencesExt

CONSTANTS
    Account, Base,  \* accounts, and the one in the currency of the company
    Sorted,         \* the accounts by the name of their currency
    Upstream,       \* what may become of an account: "active", "inactive", "absent"
    Rows,           \* the catalogues' rows, in the order they are read
    Bad,            \* currencies and rows that never come through
    Broken,         \* phases that never come through
    MaxFailures     \* bound: requests, answers, workers that fail

ASSUME ItemAssumption ==
    /\ Base \in Account /\ Sorted \in Seq(Account) /\ Account \cap ToSet(Rows) = {}
    /\ Upstream \subseteq {"active", "inactive", "absent"}
    /\ MaxFailures \in Nat

Phases == <<"accounts", "expenses", "receipts", "catalogs", "fx">>

Task == {"catalogs", "fx"}

VARIABLES
    remote,         \* the bank: each account's state, or "absent"
    shown,          \* upstream_state of each snapshot
    print,          \* its fingerprint
    listed,         \* history: the list that was last recorded
    record,         \* quotes and rows: "none", "old", or "current"
    due,            \* of each daily phase: a day has passed since it was done
    run,            \* the job: its phase, whether that is at work, the items left,
                    \* the list of accounts
    failures

evidenceVars == <<remote, shown, print, listed, record, due, run, failures>>

Item == (Account \ {Base}) \cup ToSet(Rows)

NoList == [a \in Account |-> "absent"]

NoRun == [phase |-> 0, on |-> FALSE, todo |-> <<>>, known |-> FALSE, list |-> NoList]

Phase == IF run.phase = 0 THEN "none" ELSE Phases[run.phase]

Fault == failures < MaxFailures /\ failures' = failures + 1

-----------------------------------------------------------------------------
(* The bank, and time *)

Change(a) ==
    /\ \E s \in Upstream \ {remote[a]} : remote' = [remote EXCEPT ![a] = s]
    /\ UNCHANGED <<shown, print, listed, record, due, run, failures>>

\* Quotes are of yesterday, rows may have changed, and daily phases are due.
NextDay ==
    /\ record' = [i \in Item |-> IF record[i] = "current" THEN "old" ELSE record[i]]
    /\ due' = [t \in Task |-> TRUE]
    /\ UNCHANGED <<remote, shown, print, listed, run, failures>>

-----------------------------------------------------------------------------
(* run *)

On(phase) == phase \in Task /\ due[phase]

\* What there is to do when a daily phase begins, if it is due.
Todo(phase, list) ==
    IF ~On(phase) THEN <<>>
    ELSE IF phase = "catalogs" THEN Rows
    ELSE SelectSeq(Sorted, LAMBDA a : a # Base /\ list[a] = "active")

\* The next phase, after one that ended or failed; fx only with a list of accounts.
\* After the last phase the run is over.
NextPhase(r) ==
    IF \/ r.phase = Len(Phases)
       \/ Phases[r.phase + 1] = "fx" /\ ~r.known
    THEN NoRun
    ELSE [r EXCEPT !.phase = @ + 1, !.on = On(Phases[r.phase + 1]),
                    !.todo = Todo(Phases[r.phase + 1], r.list)]

BeginRun ==
    /\ run = NoRun
    /\ run' = [NoRun EXCEPT !.phase = 1]
    /\ UNCHANGED <<remote, shown, print, listed, record, due, failures>>

\* The list is there, and recorded: the other phases can use it even if that fails.
ReadAccounts ==
    /\ Phase = "accounts" /\ ~run.known
    /\ run' = [run EXCEPT !.known = TRUE, !.list = remote]
    /\ UNCHANGED <<remote, shown, print, listed, record, due, failures>>

\* Mutant: an account that is missing keeps its fingerprint.
MissingPrintKept(a) == print[a]

MissingPrint(a) == IF print[a] = "none" THEN "none" ELSE "missing"

\* account_snapshots: an upsert is a write only when the fingerprint differs, and
\* what is recorded but not listed is marked.
RecordAccounts ==
    /\ Phase = "accounts" /\ run.known
    /\ shown' = [a \in Account |->
           IF run.list[a] # "absent"
           THEN IF print[a] # run.list[a] THEN run.list[a] ELSE shown[a]
           ELSE IF print[a] = "none" THEN "none" ELSE "missing"]
    /\ print' = [a \in Account |-> IF run.list[a] # "absent" THEN run.list[a] ELSE MissingPrint(a)]
    /\ listed' = run.list
    /\ run' = NextPhase(run)
    /\ UNCHANGED <<remote, record, due, failures>>

\* Expenses and receipts.
OtherPhase ==
    /\ Phase \in {"expenses", "receipts"} \ Broken
    /\ run' = NextPhase(run)
    /\ UNCHANGED <<remote, shown, print, listed, record, due, failures>>

\* One quote, or one row: fetched, checked, recorded, committed.
DoItem ==
    /\ run.todo # <<>> /\ Head(run.todo) \notin Bad
    /\ record' = [record EXCEPT ![Head(run.todo)] = "current"]
    /\ run' = [run EXCEPT !.todo = Tail(@)]
    /\ UNCHANGED <<remote, shown, print, listed, due, failures>>

\* last_catalog_at or last_fx_at, if the phase was due; otherwise it returns at once.
EndDaily ==
    /\ Phase \in Task /\ run.todo = <<>>
    /\ due' = IF run.on THEN [due EXCEPT ![Phase] = FALSE] ELSE due
    /\ run' = NextPhase(run)
    /\ UNCHANGED <<remote, shown, print, listed, record, failures>>

\* Mutant: a phase that fails ends the run.
FailedStops == NoRun

Failed == NextPhase(run)

\* What a phase has not committed is rolled back; the next one has its turn.
PhaseFails ==
    /\ run # NoRun
    /\ IF Phase \in Broken \/ (run.todo # <<>> /\ Head(run.todo) \in Bad)
       THEN UNCHANGED failures
       ELSE Fault
    /\ run' = Failed
    /\ UNCHANGED <<remote, shown, print, listed, record, due>>

Die ==
    /\ run # NoRun /\ Fault
    /\ run' = NoRun
    /\ UNCHANGED <<remote, shown, print, listed, record, due>>

-----------------------------------------------------------------------------

EvidenceInit ==
    /\ remote \in [Account -> {"active", "absent"}]
    /\ shown = [a \in Account |-> "none"] /\ print = shown /\ listed = NoList
    /\ record = [i \in Item |-> "none"]
    /\ due = [t \in Task |-> TRUE]
    /\ run = NoRun /\ failures = 0

Work == ReadAccounts \/ RecordAccounts \/ OtherPhase \/ DoItem \/ EndDaily \/ PhaseFails

EvidenceNext == BeginRun \/ Work \/ Die \/ NextDay \/ \E a \in Account : Change(a)

EvidenceSpec == EvidenceInit /\ [][EvidenceNext]_evidenceVars

\* The scheduler starts a run now and again, a run goes on, days go by.
FairEvidenceSpec ==
    /\ EvidenceSpec
    /\ WF_evidenceVars(BeginRun) /\ WF_evidenceVars(Work) /\ WF_evidenceVars(NextDay)

-----------------------------------------------------------------------------
(* Properties *)

\* Every variable keeps its shape; only daily phases have items.
EvidenceTypeOK ==
    /\ remote \in [Account -> {"active", "inactive", "absent"}]
    /\ listed \in [Account -> {"active", "inactive", "absent"}]
    /\ {shown, print} \subseteq [Account -> {"none", "active", "inactive", "missing"}]
    /\ record \in [Item -> {"none", "old", "current"}]
    /\ due \in [Task -> BOOLEAN]
    /\ run.phase \in 0..Len(Phases) /\ {run.on, run.known} \subseteq BOOLEAN
    /\ (run.todo # <<>> => run.on) /\ (run.on => Phase \in Task)
    /\ failures \in 0..MaxFailures

\* A snapshot says what the last recorded list said of the account, also after
\* the account was missing for a while and came back as it was.
SnapshotsTell ==
    /\ EvidenceTypeOK
    /\ \A a \in Account :
          /\ listed[a] # "absent" => shown[a] = listed[a]
          /\ listed[a] = "absent" => shown[a] \in {"none", "missing"}

\* Every active currency is quoted, and every row of the catalogues recorded,
\* again and again, whatever becomes of the other phases.  (docs/sync-reference.md:
\* "Daily, each active account currency")
DailyRenewed ==
    /\ \A a \in Account \ (Bad \cup {Base}) :
          <>[](remote[a] = "active") => []<>(record[a] = "current")
    /\ \A i \in ToSet(Rows) \ Bad : []<>(record[i] = "current")
=============================================================================
