-------------------------------- MODULE Lease --------------------------------
(***************************************************************************)
(* auth.connection_lock as a lease of limited time, the runs that work     *)
(* under it, and what cleanup makes of the log rows of those that died.    *)
(* A run is one execution of sync.run, enrichment.run or a request of the  *)
(* Desk.  Time is counted in ticks.                                        *)
(*                                                                         *)
(* A job ends by itself when its budget of 600 seconds is spent, at the    *)
(* latest when RQ stops it.  A request has no budget of its own: what ends *)
(* it is the web server's timeout, which is not part of this code.         *)
(***************************************************************************)
EXTENDS Integers

CONSTANTS
    Run, Job,       \* runs, and those of them that are jobs
    NoRun,          \* nobody
    JobLimit,       \* RQ's timeout of a job, 900 s
    RequestLimit,   \* the web server's timeout of a request
    LeaseTime,      \* timeout of the lock, 960 s
    StaleAge        \* age from which cleanup takes a run for dead, 30 min

ASSUME RunAssumption == Job \subseteq Run /\ NoRun \notin Run
ASSUME TimeAssumption ==
    /\ {JobLimit, RequestLimit, LeaseTime, StaleAge} \subseteq Nat
    /\ JobLimit < LeaseTime /\ RequestLimit < LeaseTime /\ LeaseTime <= StaleAge

VARIABLES
    status,         \* of each run: "new", "working", "ended" or "dead"
    age,            \* ticks since it took the lock, up to StaleAge
    token,          \* the run whose token is in Redis, or NoRun
    left,           \* ticks until the token lapses
    log             \* status of the run's log row: "none", "Running", "Final", "Interrupted"

vars == <<status, age, token, left, log>>

\* Mutant: a job has no time limit.
LimitNone(p) == IF p \in Job THEN StaleAge ELSE RequestLimit

Limit(p) == IF p \in Job THEN JobLimit ELSE RequestLimit

\* The job inserts its log row at once if the connection is enabled; a request
\* has none.
Start(p) ==
    /\ status[p] = "new" /\ token = NoRun
    /\ status' = [status EXCEPT ![p] = "working"]
    /\ age' = [age EXCEPT ![p] = 0]
    /\ token' = p /\ left' = LeaseTime
    /\ \/ p \in Job /\ log' = [log EXCEPT ![p] = "Running"]
       \/ UNCHANGED log

\* connection_busy
Busy(p) ==
    /\ status[p] = "new" /\ token # NoRun
    /\ status' = [status EXCEPT ![p] = "ended"]
    /\ UNCHANGED <<age, token, left, log>>

\* A lock that is not one's own is left alone.
Released(p) == IF token = p THEN NoRun ELSE token

End(p) ==
    /\ status[p] = "working"
    /\ status' = [status EXCEPT ![p] = "ended"]
    /\ log' = [log EXCEPT ![p] = IF log[p] = "none" THEN "none" ELSE "Final"]
    /\ token' = Released(p)
    /\ UNCHANGED <<age, left>>

\* A hard-killed worker: neither the log row nor the lock is dealt with.
Die(p) ==
    /\ status[p] = "working"
    /\ status' = [status EXCEPT ![p] = "dead"]
    /\ UNCHANGED <<age, token, left, log>>

\* Mutant: the comparison with started_at is the wrong way round.
AbandonedSoon(p) == log[p] = "Running" /\ age[p] < StaleAge

Abandoned(p) == log[p] = "Running" /\ age[p] = StaleAge

Cleanup(p) ==
    /\ Abandoned(p)
    /\ log' = [log EXCEPT ![p] = "Interrupted"]
    /\ UNCHANGED <<status, age, token, left>>

\* Mutant: the lock has no timeout.
LapsedNever == token

Lapsed == IF left <= 1 THEN NoRun ELSE token

\* No run goes on beyond its limit.
Tick ==
    /\ \A p \in Run : status[p] = "working" => age[p] < Limit(p)
    /\ age' = [p \in Run |-> IF age[p] < StaleAge THEN age[p] + 1 ELSE StaleAge]
    /\ token' = Lapsed
    /\ left' = IF left = 0 THEN 0 ELSE left - 1
    /\ UNCHANGED <<status, log>>

Init ==
    /\ status = [p \in Run |-> "new"] /\ age = [p \in Run |-> 0]
    /\ token = NoRun /\ left = 0
    /\ log = [p \in Run |-> "none"]

Next ==
    \/ \E p \in Run : Start(p) \/ Busy(p) \/ End(p) \/ Die(p) \/ Cleanup(p)
    \/ Tick

Spec == Init /\ [][Next]_vars

\* Time passes, and cleanup runs every day.
FairSpec == Spec /\ WF_vars(Tick) /\ \A p \in Run : WF_vars(Cleanup(p)) /\ WF_vars(End(p))

-----------------------------------------------------------------------------
(* Properties *)

\* Every variable keeps its shape; a lapsed lock has no time left.
TypeOK ==
    /\ status \in [Run -> {"new", "working", "ended", "dead"}]
    /\ age \in [Run -> 0..StaleAge]
    /\ token \in Run \cup {NoRun} /\ left \in 0..LeaseTime
    /\ (token # NoRun => left > 0)
    /\ log \in [Run -> {"none", "Running", "Final", "Interrupted"}]

\* Who works on the connection; CHOOSE is that run as long as there is but one.
Worker ==
    IF \E p \in Run : status[p] = "working" THEN CHOOSE p \in Run : status[p] = "working"
    ELSE NoRun

ConnectionLock == INSTANCE Exclusive WITH worker <- Worker

\* connection_lock keeps its promise, although the lock lapses by itself: the
\* lease outlives every run.
ImplementsExclusive == ConnectionLock!Spec

\* Two runs never work on the connection at once.
OneWorker == \A p, q \in Run : status[p] = "working" /\ status[q] = "working" => p = q

\* Only the row of a dead worker is marked Interrupted.
InterruptedAreDead == \A p \in Run : log[p] = "Interrupted" => status[p] = "dead"

\* The dead do not stay in the way: their lock lapses, and cleanup makes the rows
\* they abandoned visible.
DeadCleared ==
    \A p \in Run :
        /\ (token = p) ~> (token # p)
        /\ (log[p] = "Running") ~> (log[p] # "Running")
=============================================================================
