------------------------------ MODULE Lifecycle ------------------------------
(***************************************************************************)
(* Requests that change a connection next to the job that reads it:        *)
(* api.start_backfill, setup.pause and activate, the validation of account *)
(* maps, and the start of a run.  A request checks what is committed, and  *)
(* is itself committed only after it has released the connection lock (a   *)
(* map only looks whether the lock is free); activate commits before.      *)
(* The connection's row belongs to who has written it until he commits.    *)
(***************************************************************************)
EXTENDS Integers, FiniteSets

CONSTANTS
    Request,        \* requests in flight
    BackfillRange,  \* backfills that are asked for, each once
    Windows,        \* windows that a backfill takes, one per run
    MaxEdits        \* bound: map edits

ASSUME RequestAssumption == Request \cap {"none", "free", "run"} = {}
ASSUME NumberAssumption ==
    Windows \in Nat \ {0} /\ MaxEdits \in Nat

VARIABLES
    enabled,
    backfill,       \* backfill_next and backfill_end: the range and windows left
    maps,           \* version of the account maps
    req,            \* each request's local state
    lock,           \* "free", "run" or the request that holds the connection lock
    writer,         \* the request whose write of the connection is not committed
    run,            \* the job's local state, with its copies of connection and maps
    accepted,       \* history: backfills that were answered "queued"
    imported,       \* history: windows of each range that were imported
    crossed         \* history: what was read while a request had yet to commit it

vars == <<enabled, backfill, maps, req, lock, writer, run, accepted, imported, crossed>>

None == [range |-> "none", left |-> 0]

Idle == [kind |-> "none", step |-> "idle", range |-> "none"]

NoRun == [step |-> "none", backfill |-> None, maps |-> 0]

Free == lock = "free"

\* A request of this kind has looked, and is not committed.
Underway(kind) == \E r \in Request : req[r].kind = kind

Crossed(what, kind) == crossed' = IF Underway(kind) THEN crossed \cup {what} ELSE crossed

-----------------------------------------------------------------------------
(* Requests *)

Enter(r, kind, range) ==
    /\ req[r] = Idle /\ Free
    /\ req' = [req EXCEPT ![r] = [kind |-> kind, step |-> "checked", range |-> range]]
    /\ lock' = r
    /\ UNCHANGED <<enabled, backfill, maps, writer, run, accepted, imported>>

\* Mutant: a backfill is accepted while one is under way.
MayBackfillAlways == enabled

MayBackfill == enabled /\ backfill = None

\* backfill_already_active is what the request reads, not what it overwrites.
StartBackfill(r, b) ==
    /\ b \notin accepted /\ \A q \in Request : req[q].range # b
    /\ MayBackfill
    /\ Enter(r, "backfill", b)
    /\ Crossed("backfill", "backfill")

Pause(r) == Enter(r, "pause", "none") /\ UNCHANGED crossed

\* The write waits for the row; then the lock is released.
Write(r) ==
    /\ req[r].step = "checked" /\ lock = r /\ writer = "none"
    /\ writer' = r
    /\ lock' = "free"
    /\ req' = [req EXCEPT ![r].step = "written"]
    /\ UNCHANGED <<enabled, backfill, maps, run, accepted, imported, crossed>>

Commit(r) ==
    /\ req[r].step = "written" /\ req[r].kind \in {"backfill", "pause"}
    /\ IF req[r].kind = "pause"
       THEN enabled' = FALSE /\ UNCHANGED <<backfill, accepted>>
       ELSE /\ backfill' = [range |-> req[r].range, left |-> Windows]
            /\ accepted' = accepted \cup {req[r].range}
            /\ UNCHANGED enabled
    /\ writer' = "none"
    /\ req' = [req EXCEPT ![r] = Idle]
    /\ UNCHANGED <<maps, lock, run, imported, crossed>>

\* activate commits within the lock.
Activate ==
    /\ Free /\ writer = "none"
    /\ enabled' = TRUE
    /\ UNCHANGED <<backfill, maps, req, lock, writer, run, accepted, imported, crossed>>

\* Mutant: a map is saved without a look at the connection or its lock.
CheckMapNever(r) ==
    /\ req[r] = Idle /\ maps + Cardinality({q \in Request : req[q].kind = "map"}) < MaxEdits
    /\ req' = [req EXCEPT ![r] = [kind |-> "map", step |-> "written", range |-> "none"]]
    /\ UNCHANGED <<enabled, backfill, maps, lock, writer, run, accepted, imported, crossed>>

\* A map is validated: the connection is disabled ...
CheckMap(r) ==
    /\ req[r] = Idle /\ maps + Cardinality({q \in Request : req[q].kind = "map"}) < MaxEdits
    /\ ~enabled
    /\ req' = [req EXCEPT ![r] = [kind |-> "map", step |-> "checked", range |-> "none"]]
    /\ UNCHANGED <<enabled, backfill, maps, lock, writer, run, accepted, imported, crossed>>

\* ... and the lock is free, for a moment.
CheckLock(r) ==
    /\ req[r].kind = "map" /\ req[r].step = "checked"
    /\ Free
    /\ req' = [req EXCEPT ![r].step = "written"]
    /\ UNCHANGED <<enabled, backfill, maps, lock, writer, run, accepted, imported, crossed>>

CommitMap(r) ==
    /\ req[r].kind = "map" /\ req[r].step = "written"
    /\ maps' = maps + 1
    /\ req' = [req EXCEPT ![r] = Idle]
    /\ UNCHANGED <<enabled, backfill, lock, writer, run, accepted, imported, crossed>>

\* A request fails or dies, and is rolled back.
Abort(r) ==
    /\ req[r] # Idle
    /\ req' = [req EXCEPT ![r] = Idle]
    /\ lock' = IF lock = r THEN "free" ELSE lock
    /\ writer' = IF writer = r THEN "none" ELSE writer
    /\ UNCHANGED <<enabled, backfill, maps, run, accepted, imported, crossed>>

-----------------------------------------------------------------------------
(* The job *)

\* The run reads the connection, and keeps what it read.
StartRun ==
    /\ Free /\ enabled
    /\ lock' = "run"
    /\ run' = [step |-> "begin", backfill |-> backfill, maps |-> 0]
    /\ Crossed("maps", "map")
    /\ UNCHANGED <<enabled, backfill, maps, req, writer, accepted, imported>>

\* last_attempt_at is written, which waits for the row, and the maps are read.
ReadMaps ==
    /\ run.step = "begin" /\ writer = "none"
    /\ run' = [run EXCEPT !.step = "work", !.maps = maps]
    /\ UNCHANGED <<enabled, backfill, maps, req, lock, writer, accepted, imported, crossed>>

\* Mutant: the range is given up after its first window.
LeftNone == None

Left == IF run.backfill.left = 1 THEN None ELSE [run.backfill EXCEPT !.left = @ - 1]

\* _backfill: the next window of the backfill that the run read.
ImportWindow ==
    /\ run.step = "work" /\ writer = "none"
    /\ IF run.backfill = None THEN UNCHANGED <<backfill, imported, crossed>>
       ELSE /\ backfill' = Left
            /\ imported' = [imported EXCEPT ![run.backfill.range] =
                               @ \cup {run.backfill.left}]
    /\ run' = [run EXCEPT !.step = "end"]
    /\ UNCHANGED <<enabled, maps, req, lock, writer, accepted, crossed>>

\* With or without its window: the backfill may fail, and is tried again.
EndRun ==
    /\ run.step \in {"work", "end"}
    /\ run' = NoRun
    /\ lock' = "free"
    /\ UNCHANGED <<enabled, backfill, maps, req, writer, accepted, imported, crossed>>

-----------------------------------------------------------------------------

Init ==
    /\ enabled = TRUE /\ backfill = None /\ maps = 0
    /\ req = [r \in Request |-> Idle]
    /\ lock = "free" /\ writer = "none" /\ run = NoRun
    /\ accepted = {} /\ imported = [b \in BackfillRange |-> {}] /\ crossed = {}

Next ==
    \/ \E r \in Request :
          \/ Pause(r) \/ Write(r) \/ Commit(r) \/ CheckMap(r) \/ CheckLock(r) \/ CommitMap(r)
          \/ Abort(r)
          \/ \E b \in BackfillRange : StartBackfill(r, b)
    \/ Activate \/ StartRun \/ ReadMaps \/ ImportWindow \/ EndRun

Spec == Init /\ [][Next]_vars

\* Runs start between requests, go on, and do their backfill now and again.
FairSpec ==
    /\ Spec
    /\ SF_vars(StartRun) /\ WF_vars(ReadMaps) /\ SF_vars(ImportWindow) /\ WF_vars(EndRun)
    /\ \A r \in Request : WF_vars(Write(r)) /\ WF_vars(Commit(r))

-----------------------------------------------------------------------------
(* Properties *)

\* Every variable keeps its shape; who holds the lock or the row is at work.
TypeOK ==
    /\ enabled \in BOOLEAN /\ maps \in 0..MaxEdits
    /\ backfill \in {None} \cup [range : BackfillRange, left : 1..Windows]
    /\ req \in [Request -> [kind : {"none", "backfill", "pause", "map"},
                            step : {"idle", "checked", "written"},
                            range : BackfillRange \cup {"none"}]]
    /\ lock \in Request \cup {"free", "run"} /\ writer \in Request \cup {"none"}
    /\ (lock = "run") = (run # NoRun)
    /\ lock \in Request => req[lock].step = "checked"
    /\ writer \in Request => req[writer].step = "written"
    /\ accepted \subseteq BackfillRange /\ imported \in [BackfillRange -> SUBSET (1..Windows)]
    /\ crossed \subseteq {"backfill", "maps"}

\* A backfill that was accepted is under way until all of it is imported: none
\* replaces another, unless one was asked for before the other was committed.
\* (api.py: raise FeedError("backfill_already_active"))  The lock and the row have
\* the owners they seem to have.
BackfillKept ==
    /\ TypeOK
    /\ "backfill" \notin crossed =>
          \A b \in accepted : imported[b] = 1..Windows \/ backfill.range = b

\* The maps do not change under a run that has read them, unless it began while one
\* was being saved.  (revolut_account_map.py: "Disable and save the connection
\* before editing its account mappings.")
MapsStable ==
    "maps" \notin crossed /\ run.step \in {"work", "end"} => run.maps = maps

\* A backfill that was accepted is imported in the end.
BackfillServed ==
    <>[]enabled => \A b \in BackfillRange :
        (b \in accepted) ~> (imported[b] = 1..Windows \/ "backfill" \in crossed)
=============================================================================
