------------------------------ MODULE LockProofs ------------------------------
(***************************************************************************)
(* Theorems about Lease for every set of runs and all times that keep the  *)
(* order of the constants: limits below the lease, the lease below the age *)
(* at which cleanup gives a run up.  And about Tokens, whose callers hold  *)
(* that lock: the tokens in the database keep up with those of the bank,   *)
(* for any number of callers, attempts and faults, and any life of a       *)
(* token.  The two share no name, so that one module can be about both;    *)
(* neither says anything of the other's state.                             *)
(***************************************************************************)
EXTENDS Lease, Tokens, TLAPS

\* A run that works holds the lock, and holds it long enough.
Holds(p) ==
    status[p] = "working" =>
        /\ token = p
        /\ left = LeaseTime - age[p]
        /\ age[p] <= Limit(p)

\* A row is Running while its run works or after it died.
RowInv(p) ==
    /\ log[p] = "Running" => status[p] \in {"working", "dead"}
    /\ log[p] = "Interrupted" => status[p] = "dead"

LeaseInv == TypeOK /\ \A p \in Run : Holds(p) /\ RowInv(p)

LEMMA LimitBelow == \A p \in Run : Limit(p) \in Nat /\ Limit(p) < LeaseTime /\ Limit(p) < StaleAge
  BY RunAssumption, TimeAssumption DEF Limit

LEMMA InitHolds == Init => LeaseInv
  BY TimeAssumption DEF Init, LeaseInv, TypeOK, Holds, RowInv

\* Only the holder works, so a free lock means that nobody does.
LEMMA StartKeeps ==
  ASSUME LeaseInv, NEW p \in Run, Start(p)
  PROVE  LeaseInv'
<1>1. \A q \in Run : status[q] # "working"
  BY RunAssumption DEF LeaseInv, Holds, Start
<1>2. TypeOK'
  BY TimeAssumption, LimitBelow DEF LeaseInv, TypeOK, Start
<1>3. ASSUME NEW q \in Run PROVE Holds(q)'
  <2>1. CASE q = p
    BY <2>1, TimeAssumption, LimitBelow DEF LeaseInv, TypeOK, Holds, Start, Limit
  <2>2. CASE q # p
    BY <2>2, <1>1 DEF LeaseInv, TypeOK, Holds, Start
  <2>3. QED BY <2>1, <2>2
<1>4. ASSUME NEW q \in Run PROVE RowInv(q)'
  BY DEF LeaseInv, TypeOK, RowInv, Start
<1>5. QED BY <1>2, <1>3, <1>4 DEF LeaseInv

LEMMA BusyKeeps ==
  ASSUME LeaseInv, NEW p \in Run, Busy(p)
  PROVE  LeaseInv'
<1>1. TypeOK'
  BY DEF LeaseInv, TypeOK, Busy
<1>2. ASSUME NEW q \in Run PROVE Holds(q)' /\ RowInv(q)'
  BY DEF LeaseInv, TypeOK, Holds, RowInv, Busy, Limit
<1>3. QED BY <1>1, <1>2 DEF LeaseInv

LEMMA EndKeeps ==
  ASSUME LeaseInv, NEW p \in Run, End(p)
  PROVE  LeaseInv'
<1>1. token = p
  BY DEF LeaseInv, Holds, End
<1>2. TypeOK'
  BY <1>1, RunAssumption DEF LeaseInv, TypeOK, End, Released
<1>3. ASSUME NEW q \in Run PROVE Holds(q)'
  <2>1. CASE q = p
    BY <2>1 DEF LeaseInv, TypeOK, Holds, End
  <2>2. CASE q # p
    BY <2>2, <1>1 DEF LeaseInv, TypeOK, Holds, End
  <2>3. QED BY <2>1, <2>2
<1>4. ASSUME NEW q \in Run PROVE RowInv(q)'
  BY DEF LeaseInv, TypeOK, RowInv, End
<1>5. QED BY <1>2, <1>3, <1>4 DEF LeaseInv

LEMMA DieKeeps ==
  ASSUME LeaseInv, NEW p \in Run, Die(p)
  PROVE  LeaseInv'
<1>1. TypeOK'
  BY DEF LeaseInv, TypeOK, Die
<1>2. ASSUME NEW q \in Run PROVE Holds(q)' /\ RowInv(q)'
  BY DEF LeaseInv, TypeOK, Holds, RowInv, Die, Limit
<1>3. QED BY <1>1, <1>2 DEF LeaseInv

\* A run that works is younger than its limit, and so is its row.
LEMMA CleanupKeeps ==
  ASSUME LeaseInv, NEW p \in Run, Cleanup(p)
  PROVE  LeaseInv'
<1>1. status[p] = "dead"
  BY LimitBelow, TimeAssumption DEF LeaseInv, TypeOK, Holds, RowInv, Cleanup, Abandoned
<1>2. TypeOK'
  BY DEF LeaseInv, TypeOK, Cleanup
<1>3. ASSUME NEW q \in Run PROVE Holds(q)' /\ RowInv(q)'
  BY <1>1 DEF LeaseInv, TypeOK, Holds, RowInv, Cleanup, Limit
<1>4. QED BY <1>2, <1>3 DEF LeaseInv

\* The lease of a run that works has more than a tick left before its last.
LEMMA TickKeeps ==
  ASSUME LeaseInv, Tick
  PROVE  LeaseInv'
<1>1. TypeOK'
  BY TimeAssumption DEF LeaseInv, TypeOK, Tick, Lapsed
<1>2. ASSUME NEW p \in Run, status[p] = "working" PROVE Holds(p)'
  <2>1. age[p] \in 0..StaleAge /\ age[p] < Limit(p) /\ left = LeaseTime - age[p] /\ token = p
    BY <1>2 DEF LeaseInv, TypeOK, Holds, Tick
  <2>2. left > 1 /\ age'[p] = age[p] + 1
    BY <2>1, LimitBelow, TimeAssumption DEF Tick
  <2>3. QED
    BY <1>2, <2>1, <2>2, LimitBelow, TimeAssumption DEF Holds, Tick, Lapsed, Limit
<1>3. ASSUME NEW p \in Run PROVE Holds(p)' /\ RowInv(p)'
  BY <1>2 DEF LeaseInv, Holds, RowInv, Tick
<1>4. QED BY <1>1, <1>3 DEF LeaseInv

LEMMA StepKeeps == LeaseInv /\ [Next]_vars => LeaseInv'
<1> SUFFICES ASSUME LeaseInv, [Next]_vars PROVE LeaseInv'
  OBVIOUS
<1>1. CASE UNCHANGED vars
  BY <1>1 DEF LeaseInv, TypeOK, Holds, RowInv, Limit, vars
<1>2. CASE Tick
  BY <1>2, TickKeeps
<1>3. ASSUME NEW p \in Run, Start(p) \/ Busy(p) \/ End(p) \/ Die(p) \/ Cleanup(p) PROVE LeaseInv'
  BY <1>3, StartKeeps, BusyKeeps, EndKeeps, DieKeeps, CleanupKeeps
<1>4. QED BY <1>1, <1>2, <1>3 DEF Next

\* Leases, log rows and deadlines go together, whoever dies and however late
\* cleanup comes.
THEOREM LeaseHolds == Spec => []LeaseInv
  BY InitHolds, StepKeeps, PTL DEF Spec

\* Whatever is killed, and however long it takes: two runs never work on the
\* connection at once.
THEOREM OneWorkerAtATime == Spec => []OneWorker
<1>1. LeaseInv => OneWorker
  BY DEF LeaseInv, Holds, OneWorker
<1>2. QED BY <1>1, LeaseHolds, PTL

\* Cleanup never gives up a run that is still at work.
THEOREM OnlyDeadInterrupted == Spec => []InterruptedAreDead
<1>1. LeaseInv => InterruptedAreDead
  BY DEF LeaseInv, RowInv, InterruptedAreDead
<1>2. QED BY <1>1, LeaseHolds, PTL

-----------------------------------------------------------------------------
(* The lease implements the lock *)

LEMMA WorkerIs ==
  ASSUME OneWorker, NEW p \in Run, status[p] = "working"
  PROVE  Worker = p
  BY DEF OneWorker, Worker

LEMMA WorkerNone ==
  ASSUME \A p \in Run : status[p] # "working"
  PROVE  Worker = NoRun
  BY DEF Worker

\* connection_lock lapses by itself, and yet keeps what auth.py promises its callers:
\* every behaviour of the lease is one of the abstract lock.
THEOREM LeaseImplementsLock == Spec => ImplementsExclusive
<1>1. Init => ConnectionLock!Init
  BY WorkerNone DEF Init, ConnectionLock!Init
<1>2. LeaseInv /\ LeaseInv' /\ [Next]_vars => [ConnectionLock!Next]_Worker
  <2> SUFFICES ASSUME LeaseInv, LeaseInv', [Next]_vars PROVE [ConnectionLock!Next]_Worker
    OBVIOUS
  <2>1. OneWorker /\ OneWorker'
    BY DEF LeaseInv, Holds, OneWorker
  <2>2. CASE status' = status
    <3>1. Worker' = Worker
      BY <2>2 DEF Worker
    <3>2. QED BY <3>1
  <2>3. ASSUME NEW p \in Run, Start(p) PROVE ConnectionLock!Next
    <3>1. \A q \in Run : status[q] # "working"
      BY <2>3, RunAssumption DEF LeaseInv, Holds, Start
    <3>2. Worker = NoRun
      BY <3>1, WorkerNone
    <3>3. status'[p] = "working"
      BY <2>3 DEF LeaseInv, TypeOK, Start
    <3>4. Worker' = p
      BY <3>3, <2>1 DEF OneWorker, Worker
    <3>5. QED BY <3>2, <3>4 DEF ConnectionLock!Next, ConnectionLock!Enter
  <2>4. ASSUME NEW p \in Run, End(p) \/ Die(p) PROVE ConnectionLock!Next
    <3>1. status[p] = "working" /\ \A q \in Run : status'[q] # "working"
      BY <2>4, <2>1 DEF LeaseInv, TypeOK, OneWorker, End, Die
    <3>2. Worker = p
      BY <3>1, <2>1, WorkerIs
    <3>3. Worker' = NoRun
      BY <3>1 DEF Worker
    <3>4. QED BY <3>2, <3>3, RunAssumption DEF ConnectionLock!Next, ConnectionLock!Leave
  <2>5. ASSUME NEW p \in Run, Busy(p) PROVE Worker' = Worker
    <3>1. \A q \in Run : (status'[q] = "working") = (status[q] = "working")
      BY <2>5 DEF LeaseInv, TypeOK, Busy
    <3>2. QED BY <3>1 DEF Worker
  <2>6. QED BY <2>2, <2>3, <2>4, <2>5 DEF Next, vars, Cleanup, Tick
<1>3. QED BY <1>1, <1>2, LeaseHolds, PTL DEF Spec, ImplementsExclusive, ConnectionLock!Spec

-----------------------------------------------------------------------------
(* Tokens: what the holder of the lock does with the connection's tokens *)

LEMMA Limits ==
    /\ Nobody \notin Caller
    /\ {Life, Attempts, MaxFaults, MaxConsents} \subseteq Nat
    /\ Life > 1 /\ Attempts > 0
  BY CallerAssumption, NumberAssumption

\* What the bank gave to a caller is not overtaken while it holds the lock.
AnswersCurrent ==
    \A p \in Caller : call[p].step = "answer" => call[p].refresh \in {"current", "none"}

\* The inductive invariant: that an answer without a refresh token leaves the saved
\* one in force needs that its holder is the only one at work.
ClientInv == ClientTypeOK /\ AnswersCurrent /\ NoLockout

\* A caller that is done has nothing in hand.
LEMMA IdleType == Idle \in Local /\ Idle.step = "idle"
  BY Limits DEF Idle, Local, Token

\* The holder of the lock is the only caller at work.
LEMMA OthersIdle ==
  ASSUME ClientTypeOK, NEW p \in Caller, call[p].step # "idle"
  PROVE  lock = p /\ \A q \in Caller : q # p => call[q] = Idle /\ call[q].step = "idle"
  BY IdleType DEF ClientTypeOK

LEMMA InitClient ==
  ASSUME ClientInit
  PROVE  ClientInv
<1>1. ClientTypeOK
  <2>1. /\ saved \in [access : Token, refresh : Token, fresh : 0..Life]
        /\ life \in 0..Life
    BY Limits DEF ClientInit, Token
  <2>2. call \in [Caller -> Local] /\ \A p \in Caller : call[p] = Idle
    BY IdleType DEF ClientInit
  <2>3. faults \in 0..MaxFaults /\ consents \in 0..MaxConsents
    BY Limits DEF ClientInit
  <2>4. QED BY <2>1, <2>2, <2>3 DEF ClientInit, ClientTypeOK
<1>2. AnswersCurrent
  BY IdleType DEF ClientInit, AnswersCurrent
<1>3. NoLockout
  BY DEF ClientInit, NoLockout
<1>4. QED BY <1>1, <1>2, <1>3 DEF ClientInv

\* A caller may finish when the token it holds, if any, is counted as lost.
LEMMA FinishKeeps ==
  ASSUME ClientInv, NEW p \in Caller, call[p].step # "idle",
         NEW result \in {"open", "ok", "failed", "none"}, Finish(p, result),
         UNCHANGED <<granted, life, saved, consents>>, faults' \in 0..MaxFaults,
         lost' = (lost \/ (call[p].step = "answer" /\ call[p].refresh = "current"))
  PROVE  ClientInv'
<1>1. ClientTypeOK'
  BY IdleType, OthersIdle DEF ClientInv, ClientTypeOK, Finish
<1>2. AnswersCurrent'
  BY IdleType DEF ClientInv, ClientTypeOK, Finish, AnswersCurrent
<1>3. NoLockout'
  BY IdleType, OthersIdle DEF ClientInv, ClientTypeOK, Finish, NoLockout
<1>4. QED BY <1>1, <1>2, <1>3 DEF ClientInv

\* A caller that has no answer in hand goes on, and nothing else changes.
LEMMA CallKeeps ==
  ASSUME ClientInv, NEW p \in Caller, NEW c \in Local,
         call[p].step # "answer", c.step # "answer",
         call' = [call EXCEPT ![p] = c], lock' = p, lock \in {p, Nobody},
         last' \in {"none", "open", "ok", "failed"},
         UNCHANGED <<granted, life, saved, lost>>,
         faults' \in 0..MaxFaults, consents' \in 0..MaxConsents
  PROVE  ClientInv'
<1>1. ClientTypeOK'
  BY Limits DEF ClientInv, ClientTypeOK
<1>2. AnswersCurrent'
  BY DEF ClientInv, ClientTypeOK, AnswersCurrent
<1>3. NoLockout'
  BY DEF ClientInv, ClientTypeOK, NoLockout
<1>4. QED BY <1>1, <1>2, <1>3 DEF ClientInv

LEMMA IssueKeeps ==
  ASSUME ClientInv, NEW p \in Caller, NEW rotate \in BOOLEAN, Issue(p, rotate)
  PROVE  ClientInv'
<1> DEFINE mine == [call[p] EXCEPT !.step = "answer", !.access = "current",
                                   !.refresh = IF rotate THEN "current" ELSE "none"]
<1> DEFINE other(q) == [call[q] EXCEPT !.access = Aged(@),
                                       !.refresh = IF rotate THEN Aged(@) ELSE @]
<1>1. /\ mine \in Local /\ mine.step = "answer"
      /\ mine.refresh = IF rotate THEN "current" ELSE "none"
  <2>1. call[p] \in Local
    BY DEF ClientInv, ClientTypeOK
  <2>2. QED BY <2>1 DEF Local, Token
<1>2. \A q \in Caller : q # p => other(q) = Idle
  <2>1. [Idle EXCEPT !.access = Aged(@),
                            !.refresh = IF rotate THEN Aged(@) ELSE @] = Idle
    BY DEF Idle, Aged
  <2>2. \A q \in Caller : q # p => call[q] = Idle
    BY OthersIdle DEF ClientInv, Issue
  <2>3. QED BY <2>1, <2>2
<1>3. call' = [q \in Caller |-> IF q = p THEN mine ELSE other(q)]
  BY DEF Issue
<1>4. \A q \in Caller : call'[q] = IF q = p THEN mine ELSE Idle
  BY <1>2, <1>3
<1> HIDE DEF mine, other
<1>5. lock = p
  BY OthersIdle DEF ClientInv, Issue
<1>6. ClientTypeOK'
  <2>1. saved' \in [access : Token, refresh : Token, fresh : 0..Life]
    BY DEF ClientInv, ClientTypeOK, Issue, Aged, Token
  <2>2. call' \in [Caller -> Local] /\ \A q \in Caller : call'[q] # Idle => lock' = q
    BY <1>1, <1>2, <1>3, <1>4, <1>5, IdleType DEF Issue
  <2>3. granted' \in BOOLEAN /\ life' \in 0..Life /\ lost' \in BOOLEAN
    <3>1. lost' \in BOOLEAN
      BY Zenon DEF Issue
    <3>2. granted' \in BOOLEAN
      BY DEF Issue
    <3>3. life' \in 0..Life
      <4>1. life' = Life
        BY DEF Issue
      <4>2. QED BY <4>1, Limits
    <3>4. QED BY <3>1, <3>2, <3>3
  <2>4. QED BY <2>1, <2>2, <2>3 DEF ClientInv, ClientTypeOK, Issue
<1>7. AnswersCurrent'
  BY <1>1, <1>4, IdleType DEF AnswersCurrent
<1>8. NoLockout'
  <2>1. CASE rotate
    BY <2>1, <1>1, <1>4 DEF NoLockout
  <2>2. CASE ~rotate
    <3>1. \A q \in Caller : call[q].step # "answer"
      BY OthersIdle DEF ClientInv, Issue
    <3>2. granted /\ ~lost' => saved.refresh = "current" /\ saved'.refresh = saved.refresh
      BY <3>1, <2>2 DEF ClientInv, ClientTypeOK, NoLockout, Issue
    <3>3. ~call[p].code /\ granted
      BY <2>2 DEF Issue, Accepted
    <3>4. QED BY <3>2, <3>3 DEF NoLockout
  <2>3. QED BY <2>1, <2>2
<1>9. QED BY <1>6, <1>7, <1>8 DEF ClientInv

LEMMA SaveKeeps ==
  ASSUME ClientInv, NEW p \in Caller, Save(p)
  PROVE  ClientInv'
<1> DEFINE kept == IF call[p].refresh = "none" THEN saved.refresh ELSE "current"
<1>1. saved' = [access |-> call[p].access, refresh |-> kept, fresh |-> Life]
  BY DEF ClientInv, AnswersCurrent, Save, Kept
<1>2. granted /\ ~lost => kept = "current"
  BY OthersIdle DEF ClientInv, ClientTypeOK, NoLockout, Save
<1>3. NoLockout'
  BY <1>1, <1>2 DEF NoLockout, Save
<1>4. /\ saved' \in [access : Token, refresh : Token, fresh : 0..Life]
  BY <1>1, Limits DEF ClientInv, ClientTypeOK, Local, Token
<1>5. PICK c \in Local :
          /\ c.step # "answer" /\ call' = [call EXCEPT ![p] = c]
          /\ lock' = p \/ (c = Idle /\ lock' = Nobody)
  <2>1. CASE call[p].code
    BY <2>1, IdleType DEF Save, Finish
  <2>2. CASE ~call[p].code
    BY <2>2, OthersIdle DEF Save, ClientInv, ClientTypeOK, Local
  <2>3. QED BY <2>1, <2>2
<1>6. call' \in [Caller -> Local] /\ AnswersCurrent'
  BY <1>5 DEF ClientInv, ClientTypeOK, AnswersCurrent
<1>7. lock' \in Caller \cup {Nobody} /\ \A q \in Caller : call'[q] # Idle => lock' = q
  BY <1>5, OthersIdle DEF ClientInv, ClientTypeOK, Save
<1>8. last' = last
  BY DEF Save, Finish
<1>9. QED BY <1>3, <1>4, <1>6, <1>7, <1>8 DEF ClientInv, ClientTypeOK, Save

LEMMA AgesKeep ==
  ASSUME ClientInv, TimePasses
  PROVE  ClientInv'
<1>1. \A q \in Caller : /\ call'[q] \in Local /\ call'[q].step = call[q].step
                        /\ call'[q].refresh = call[q].refresh
                        /\ call[q] = Idle => call'[q] = Idle
  <2> SUFFICES ASSUME NEW q \in Caller
               PROVE  /\ call'[q] \in Local /\ call'[q].step = call[q].step
                      /\ call'[q].refresh = call[q].refresh
                      /\ call[q] = Idle => call'[q] = Idle
    OBVIOUS
  <2>1. call'[q] = IF call[q] = Idle THEN Idle ELSE [call[q] EXCEPT !.late = TRUE]
    BY DEF TimePasses
  <2>2. CASE call[q] = Idle
    BY <2>1, <2>2, IdleType
  <2>3. CASE call[q] # Idle
    <3>1. call[q] \in Local
      BY DEF ClientInv, ClientTypeOK
    <3>2. QED BY <2>1, <2>3, <3>1 DEF Local
  <2>4. QED BY <2>2, <2>3
<1>2. call' \in [Caller -> Local]
  BY <1>1 DEF TimePasses
<1>3. saved' \in [access : Token, refresh : Token, fresh : 0..Life]
      /\ saved'.refresh = saved.refresh /\ life' \in 0..Life
  BY Limits DEF ClientInv, ClientTypeOK, TimePasses, Token
<1>4. ClientTypeOK'
  BY <1>1, <1>2, <1>3 DEF ClientInv, ClientTypeOK, TimePasses
<1>5. AnswersCurrent' /\ NoLockout'
  BY <1>1, <1>3 DEF ClientInv, AnswersCurrent, NoLockout, TimePasses
<1>6. QED BY <1>4, <1>5 DEF ClientInv

LEMMA RevokeKeeps ==
  ASSUME ClientInv, Revoke
  PROVE  ClientInv'
<1>1. ClientTypeOK' /\ AnswersCurrent'
  BY Limits DEF ClientInv, ClientTypeOK, AnswersCurrent, Revoke, Fault
<1>2. NoLockout'
  BY DEF ClientInv, NoLockout, Revoke
<1>3. QED BY <1>1, <1>2 DEF ClientInv

\* What access_token hands out is well-formed, and no answer.
LEMMA ProvidedType ==
  ASSUME ClientTypeOK, NEW c \in Local, NEW force \in BOOLEAN
  PROVE  Provided(c, force) \in Local /\ Provided(c, force).step # "answer"
  BY DEF ClientTypeOK, Provided, Local

LEMMA StepClient ==
  ASSUME ClientInv, [ClientNext]_clientVars
  PROVE  ClientInv'
<1>1. ASSUME NEW p \in Caller, BeginGet(p) PROVE ClientInv'
  <2>1. /\ Provided(Idle, FALSE) \in Local
        /\ Provided(Idle, FALSE).step # "answer"
    BY ProvidedType, IdleType DEF ClientInv
  <2>2. call[p].step # "answer" /\ lock = Nobody
    BY <1>1, IdleType DEF BeginGet, MayEnter
  <2>3. QED BY <1>1, <2>1, <2>2, CallKeeps DEF BeginGet, ClientInv, ClientTypeOK
<1>2. ASSUME NEW p \in Caller, BeginExchange(p) PROVE ClientInv'
  <2> DEFINE c == [Idle EXCEPT !.step = "ask", !.code = TRUE]
  <2>1. c \in Local /\ c.step # "answer"
    BY IdleType DEF Local
  <2>2. call[p].step # "answer" /\ lock = Nobody /\ call' = [call EXCEPT ![p] = c]
    BY <1>2, IdleType DEF BeginExchange, MayEnter
  <2> HIDE DEF c
  <2>3. consents' \in 0..MaxConsents
    BY <1>2, Limits DEF BeginExchange, ClientInv, ClientTypeOK
  <2>4. QED BY <1>2, <2>1, <2>2, <2>3, CallKeeps DEF BeginExchange, ClientInv, ClientTypeOK
<1>3. ASSUME NEW p \in Caller, Progress(p) PROVE ClientInv'
  <2>1. ASSUME NEW rotate \in BOOLEAN, Issue(p, rotate) PROVE ClientInv'
    BY <2>1, IssueKeeps
  <2>2. CASE Save(p)
    BY <2>2, SaveKeeps
  <2>3. CASE Refuse(p) \/ Succeed(p) \/ Exhausted(p)
    <3>1. PICK result \in {"open", "ok", "failed", "none"} : Finish(p, result)
      BY <2>3 DEF Refuse, Succeed, Exhausted
    <3>2. call[p].step \notin {"idle", "answer"} /\ lost' = lost
          /\ UNCHANGED <<granted, life, saved, consents, faults>>
      BY <2>3 DEF Refuse, Succeed, Exhausted, Sends
    <3>3. lost' = (lost \/ (call[p].step = "answer" /\ call[p].refresh = "current"))
      BY <3>2 DEF ClientInv, ClientTypeOK
    <3>4. QED BY <3>1, <3>2, <3>3, FinishKeeps DEF ClientInv, ClientTypeOK
  <2>4. CASE Unauthorized(p)
    <3>1. call[p].step = "send" /\ lock = p /\ lost' = lost
          /\ UNCHANGED <<granted, life, saved, faults, consents>>
      BY <2>4, OthersIdle DEF Unauthorized, Sends, ClientInv
    <3>2. CASE call[p].forced
      <4>1. Finish(p, "failed")
        BY <2>4, <3>2 DEF Unauthorized
      <4>2. lost' = (lost \/ (call[p].step = "answer" /\ call[p].refresh = "current"))
        BY <3>1 DEF ClientInv, ClientTypeOK
      <4>3. QED BY <3>1, <4>1, <4>2, FinishKeeps DEF ClientInv, ClientTypeOK
    <3>3. CASE ~call[p].forced
      <4> DEFINE c == [call[p] EXCEPT !.tries = call[p].tries + 1, !.forced = TRUE]
      <4>1. c \in Local
        <5>1. call[p] \in Local /\ call[p].tries < Attempts /\ call[p].tries \in 0..Attempts
          BY <2>4 DEF Unauthorized, Sends, ClientInv, ClientTypeOK, Local
        <5>2. call[p].tries + 1 \in 0..Attempts
          BY <5>1, Limits
        <5>3. QED BY <5>1, <5>2 DEF Local
      <4>2. call' = [call EXCEPT ![p] = Provided(c, TRUE)] /\ lock' = lock /\ last' = last
        BY <2>4, <3>3 DEF Unauthorized
      <4> HIDE DEF c
      <4>3. Provided(c, TRUE) \in Local /\ Provided(c, TRUE).step # "answer"
        BY <4>1, ProvidedType DEF ClientInv
      <4>4. QED BY <3>1, <4>2, <4>3, CallKeeps DEF ClientInv, ClientTypeOK
    <3>4. QED BY <3>2, <3>3
  <2>5. QED BY <1>3, <2>1, <2>2, <2>3, <2>4 DEF Progress
<1>4. ASSUME NEW p \in Caller, Fail(p) PROVE ClientInv'
  <2>1. faults' \in 0..MaxFaults
    BY <1>4, Limits DEF Fail, Fault, ClientInv, ClientTypeOK
  <2>2. QED BY <1>4, <2>1, FinishKeeps DEF Fail, ClientInv, ClientTypeOK
<1>5. ASSUME NEW p \in Caller, Retry(p) PROVE ClientInv'
  <2> DEFINE c == [call[p] EXCEPT !.tries = call[p].tries + 1]
  <2>1. c \in Local /\ c.step = "send"
    BY <1>5, Limits DEF Retry, Sends, ClientInv, ClientTypeOK, Local
  <2>2. call' = [call EXCEPT ![p] = c] /\ call[p].step = "send" /\ lock = p /\ lock' = p
    BY <1>5, OthersIdle DEF Retry, Sends, ClientInv
  <2> HIDE DEF c
  <2>3. faults' \in 0..MaxFaults
    BY <1>5, Limits DEF Retry, Fault, ClientInv, ClientTypeOK
  <2>4. QED BY <1>5, <2>1, <2>2, <2>3, CallKeeps DEF Retry, ClientInv, ClientTypeOK
<1>6. CASE TimePasses
  BY <1>6, AgesKeep
<1>7. CASE Revoke
  BY <1>7, RevokeKeeps
<1>8. CASE UNCHANGED clientVars
  BY <1>8 DEF clientVars, ClientInv, ClientTypeOK, AnswersCurrent, NoLockout
<1>9. QED BY <1>1, <1>2, <1>3, <1>4, <1>5, <1>6, <1>7, <1>8 DEF ClientNext

\* The shape of the state, and that only the holder of the connection lock is at
\* work, hold in every behaviour.
THEOREM TokensTyped == ClientSpec => []ClientTypeOK
<1>1. ClientInv => ClientTypeOK
  BY DEF ClientInv
<1>2. QED BY <1>1, InitClient, StepClient, PTL DEF ClientSpec

\* The connection is never locked out of a consent that is in force, unless an
\* answer that carried a new refresh token was lost.
THEOREM NeverLockedOut == ClientSpec => []NoLockout
<1>1. ClientInv => NoLockout
  BY DEF ClientInv
<1>2. QED BY <1>1, InitClient, StepClient, PTL DEF ClientSpec

-----------------------------------------------------------------------------
(* The callers exclude one another *)

\* The caller that is at work, as its own state says.
AtWork ==
    IF \E p \in Caller : call[p] # Idle THEN CHOOSE p \in Caller : call[p] # Idle
    ELSE Nobody

Client == INSTANCE Exclusive WITH Run <- Caller, NoRun <- Nobody, worker <- AtWork

LEMMA AtWorkIs ==
  ASSUME ClientTypeOK, NEW p \in Caller, call[p] # Idle
  PROVE  AtWork = p
  BY DEF ClientTypeOK, AtWork

LEMMA AtWorkNone ==
  ASSUME \A p \in Caller : call[p] = Idle
  PROVE  AtWork = Nobody
  BY DEF AtWork

\* A call that is at work ends, or goes on in its own state: what it is given to
\* send or to ask, an answer, or another try.
LEMMA GoesOn ==
  ASSUME ClientInv, NEW p \in Caller, Progress(p) \/ Fail(p) \/ Retry(p)
  PROVE  /\ call[p] # Idle
         /\ \/ \A q \in Caller : call'[q] = Idle
            \/ call'[p] # Idle
<1>1. call[p] \in Local /\ call[p].step # "idle"
  BY DEF Progress, Fail, Retry, Issue, Save, Refuse, Succeed, Unauthorized, Exhausted, Sends,
              ClientInv, ClientTypeOK
<1>2. call[p] # Idle /\ \A q \in Caller : q # p => call[q] = Idle
  BY <1>1, IdleType, OthersIdle DEF ClientInv
<1>3. ASSUME NEW result, Finish(p, result) PROVE \A q \in Caller : call'[q] = Idle
  BY <1>2, <1>3 DEF Finish, ClientInv, ClientTypeOK
<1>4. ASSUME NEW rotate \in BOOLEAN, Issue(p, rotate) PROVE call'[p].step = "answer"
  BY <1>1, <1>4 DEF Issue, Local
<1>5. CASE Save(p)
  <2>1. CASE call[p].code
    BY <1>2, <1>3, <1>5, <2>1 DEF Save
  <2>2. CASE ~call[p].code
    <3>1. call'[p].step = "send"
      BY <1>1, <1>5, <2>2 DEF Save, ClientInv, ClientTypeOK, Local
    <3>2. QED BY <1>2, <3>1, IdleType
  <2>3. QED BY <1>2, <2>1, <2>2
<1>6. CASE Unauthorized(p)
  <2>1. CASE call[p].forced
    BY <1>2, <1>3, <1>6, <2>1 DEF Unauthorized
  <2>2. CASE ~call[p].forced
    <3> DEFINE c == [call[p] EXCEPT !.tries = call[p].tries + 1, !.forced = TRUE]
    <3>1. call'[p] = Provided(c, TRUE)
      BY <1>6, <2>2 DEF Unauthorized, ClientInv, ClientTypeOK
    <3>2. Provided(c, TRUE).step \in {"send", "ask"}
      BY <1>1 DEF Provided, Local
    <3>3. QED BY <1>2, <3>1, <3>2, IdleType
  <2>3. QED BY <1>2, <2>1, <2>2
<1>7. CASE Retry(p)
  <2>1. call'[p].step = "send"
    BY <1>1, <1>7 DEF Retry, Sends, ClientInv, ClientTypeOK, Local
  <2>2. QED BY <1>2, <2>1, IdleType
<1>8. QED
  BY <1>2, <1>3, <1>4, <1>5, <1>6, <1>7, IdleType
  DEF Progress, Refuse, Succeed, Exhausted, Fail

\* One call at a time uses the connection's tokens, from the first look at them to
\* its result, over all its retries and refreshes: every behaviour of the callers is
\* one of the lock that Lease implements.
THEOREM CallersExclude == ClientSpec => Client!Spec
<1>1. ClientInit => Client!Init
  BY AtWorkNone DEF ClientInit, Client!Init
<1>2. ClientInv /\ ClientInv' /\ [ClientNext]_clientVars => [Client!Next]_AtWork
  <2> SUFFICES ASSUME ClientInv, ClientInv', [ClientNext]_clientVars
               PROVE  [Client!Next]_AtWork
    OBVIOUS
  <2>1. ASSUME NEW p \in Caller, BeginGet(p) \/ BeginExchange(p) PROVE Client!Next
    <3>1. \A q \in Caller : call[q] = Idle
      BY <2>1, Limits DEF BeginGet, BeginExchange, MayEnter, ClientInv, ClientTypeOK
    <3>2. call'[p].step \in {"send", "ask"}
      <4> DEFINE c == IF BeginGet(p) THEN Provided(Idle, FALSE)
                      ELSE [Idle EXCEPT !.step = "ask", !.code = TRUE]
      <4>1. c.step \in {"send", "ask"}
        BY DEF Provided, Idle
      <4>2. call' = [call EXCEPT ![p] = c]
        BY <2>1 DEF BeginGet, BeginExchange
      <4> HIDE DEF c
      <4>3. QED BY <4>1, <4>2 DEF ClientInv, ClientTypeOK
    <3>3. AtWork = Nobody
      BY <3>1, AtWorkNone
    <3>4. AtWork' = p
      BY <3>2, IdleType DEF ClientInv, ClientTypeOK, AtWork
    <3>5. QED BY <3>3, <3>4 DEF Client!Next, Client!Enter
  <2>2. ASSUME NEW p \in Caller, Progress(p) \/ Fail(p) \/ Retry(p)
        PROVE  [Client!Next]_AtWork
    <3>1. AtWork = p
      BY <2>2, GoesOn, AtWorkIs DEF ClientInv
    <3>2. CASE \A q \in Caller : call'[q] = Idle
      <4>1. AtWork' = Nobody
        BY <3>2 DEF AtWork
      <4>2. QED BY <3>1, <4>1, Limits DEF Client!Next, Client!Leave
    <3>3. CASE call'[p] # Idle
      <4>1. AtWork' = p
        BY <3>3 DEF ClientInv, ClientTypeOK, AtWork
      <4>2. QED BY <3>1, <4>1
    <3>4. QED BY <2>2, <3>2, <3>3, GoesOn
  <2>3. CASE TimePasses
    <3>1. \A q \in Caller : (call'[q] = Idle) = (call[q] = Idle)
      <4> SUFFICES ASSUME NEW q \in Caller PROVE (call'[q] = Idle) = (call[q] = Idle)
        OBVIOUS
      <4>1. call[q] \in Local
        BY DEF ClientInv, ClientTypeOK
      <4>2. call'[q] = IF call[q] = Idle THEN Idle ELSE [call[q] EXCEPT !.late = TRUE]
        BY <2>3 DEF TimePasses
      <4>3. [call[q] EXCEPT !.late = TRUE].late = TRUE /\ Idle.late = FALSE
        BY <4>1 DEF Local, Idle
      <4>4. QED BY <4>2, <4>3
    <3>2. AtWork' = AtWork
      BY <3>1 DEF AtWork
    <3>3. QED BY <3>2
  <2>4. CASE Revoke \/ UNCHANGED clientVars
    BY <2>4 DEF Revoke, clientVars, AtWork
  <2>5. QED BY <2>1, <2>2, <2>3, <2>4 DEF ClientNext
<1>3. ClientInv /\ [ClientNext]_clientVars => ClientInv'
  BY StepClient
<1>4. ClientInit => ClientInv
  BY InitClient
<1>5. QED BY <1>1, <1>2, <1>3, <1>4, PTL DEF ClientSpec, Client!Spec
=============================================================================
