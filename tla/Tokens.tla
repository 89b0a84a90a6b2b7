-------------------------------- MODULE Tokens --------------------------------
(***************************************************************************)
(* The bank's consent and the tokens it grants: Client.get with its        *)
(* retries, access_token, token_request, save_tokens and the exchange of a *)
(* code.  A token is known by whether it is the last one the bank gave out *)
(* ("current"), an earlier one ("old") or missing.  Time is in ticks of    *)
(* the margin of 90 seconds; a request takes no more than one.             *)
(*                                                                         *)
(* A failed answer, a job out of time and a dead worker are faults.        *)
(***************************************************************************)
EXTENDS Integers

CONSTANTS
    Caller, Nobody, \* jobs and requests that call the bank
    Life,           \* expires_in, in ticks
    Attempts,       \* attempts of one GET (5)
    MaxFaults, MaxConsents      \* bounds

ASSUME CallerAssumption == Nobody \notin Caller
ASSUME NumberAssumption ==
    /\ {Life, Attempts, MaxFaults, MaxConsents} \subseteq Nat
    /\ Life > 1 /\ Attempts > 0

VARIABLES
    granted,        \* the bank: the consent is in force
    life,           \* the bank: ticks left to the current access token
    saved,          \* committed: the two tokens and the ticks until token_expires_at
    call,           \* each caller's local state
    lock,           \* the caller that holds the connection lock, or Nobody
    last,           \* how the last GET ended
    lost,           \* history: the current refresh token never reached the database
    faults, consents

clientVars == <<granted, life, saved, call, lock, last, lost, faults, consents>>

Token == {"none", "current", "old"}

\* What a caller knows: access and refresh are the tokens this caller uses or has been given.
Idle == [step |-> "idle", code |-> FALSE, access |-> "none", refresh |-> "none",
         tries |-> 0, forced |-> FALSE, late |-> FALSE]

Local == [step : {"idle", "send", "ask", "answer"}, code : BOOLEAN, access : Token,
          refresh : Token, tries : 0..Attempts, forced : BOOLEAN, late : BOOLEAN]

Aged(t) == IF t = "current" THEN "old" ELSE t

Fault == faults < MaxFaults /\ faults' = faults + 1

\* The caller is done, and leaves the lock.
Finish(p, result) ==
    /\ call' = [call EXCEPT ![p] = Idle]
    /\ lock' = Nobody
    /\ last' = result

-----------------------------------------------------------------------------
(* access_token *)

\* Mutant: a forced refresh is answered with the cached token.
UsableForced(force) == saved.access # "none" /\ saved.fresh > 1

Usable(force) == saved.access # "none" /\ ~force /\ saved.fresh > 1

\* The cached token, or the refresh token to ask for another.
Provided(c, force) ==
    IF Usable(force) THEN [c EXCEPT !.step = "send", !.access = saved.access]
    ELSE [c EXCEPT !.step = "ask", !.refresh = saved.refresh]

-----------------------------------------------------------------------------
(* Calls *)

MayEnter == lock = Nobody

\* Without any refresh token nothing is asked: authorization_required.
BeginGet(p) ==
    /\ call[p] = Idle /\ MayEnter
    /\ Usable(FALSE) \/ saved.refresh # "none"
    /\ call' = [call EXCEPT ![p] = Provided(Idle, FALSE)]
    /\ lock' = p /\ last' = "open"
    /\ UNCHANGED <<granted, life, saved, lost, faults, consents>>

\* exchange: the user has consented and pastes the code.
BeginExchange(p) ==
    /\ call[p] = Idle /\ MayEnter
    /\ consents < MaxConsents
    /\ consents' = consents + 1
    /\ call' = [call EXCEPT ![p] = [Idle EXCEPT !.step = "ask", !.code = TRUE]]
    /\ lock' = p
    /\ UNCHANGED <<granted, life, saved, last, lost, faults>>

Accepted(p) == call[p].code \/ (granted /\ call[p].refresh = "current")

\* The bank answers a token request: the access token before ends, and so does
\* the refresh token when it gives a new one, as it always does for a code.
Issue(p, rotate) ==
    /\ call[p].step = "ask" /\ Accepted(p)
    /\ call[p].code => rotate
    /\ granted' = TRUE /\ life' = Life
    /\ saved' = [saved EXCEPT !.access = Aged(@), !.refresh = IF rotate THEN Aged(@) ELSE @]
    /\ call' = [q \in Caller |->
                   IF q = p
                   THEN [call[p] EXCEPT !.step = "answer", !.access = "current",
                                        !.refresh = IF rotate THEN "current" ELSE "none"]
                   ELSE [call[q] EXCEPT !.access = Aged(@),
                                        !.refresh = IF rotate THEN Aged(@) ELSE @]]
    /\ lost' = (lost /\ ~rotate)
    /\ UNCHANGED <<lock, last, faults, consents>>

\* token_http_400: an old refresh token, or a consent that was withdrawn.
Refuse(p) ==
    /\ call[p].step = "ask" /\ ~Accepted(p)
    /\ Finish(p, "failed")
    /\ UNCHANGED <<granted, life, saved, lost, faults, consents>>

\* The request never reaches the bank, the answer is lost or refused for what
\* it says, the time is up, or the worker dies: at any step.
Fail(p) ==
    /\ call[p].step # "idle" /\ Fault
    /\ lost' = (lost \/ (call[p].step = "answer" /\ call[p].refresh = "current"))
    /\ Finish(p, "failed")
    /\ UNCHANGED <<granted, life, saved, consents>>

\* Mutant: the refresh token that comes with a refresh is not stored.
KeptOld(p) == saved.refresh

Kept(p) == IF call[p].refresh = "none" THEN saved.refresh ELSE call[p].refresh

\* save_tokens, committed at once.
Save(p) ==
    /\ call[p].step = "answer"
    /\ saved' = [access |-> call[p].access, refresh |-> Kept(p), fresh |-> Life]
    /\ IF call[p].code THEN Finish(p, last)
       ELSE call' = [call EXCEPT ![p].step = "send"] /\ UNCHANGED <<lock, last>>
    /\ UNCHANGED <<granted, life, lost, faults, consents>>

Valid(p) == granted /\ life > 0 /\ call[p].access = "current"

Sends(p) == call[p].step = "send" /\ call[p].tries < Attempts

Succeed(p) ==
    /\ Sends(p) /\ Valid(p)
    /\ Finish(p, "ok")
    /\ UNCHANGED <<granted, life, saved, lost, faults, consents>>

\* A 401 uses up an attempt, and forces a refresh once.
Unauthorized(p) ==
    /\ Sends(p) /\ ~Valid(p)
    /\ IF call[p].forced THEN Finish(p, "failed")
       ELSE /\ call' = [call EXCEPT ![p] =
                           Provided([call[p] EXCEPT !.tries = call[p].tries + 1, !.forced = TRUE], TRUE)]
            /\ UNCHANGED <<lock, last>>
    /\ UNCHANGED <<granted, life, saved, lost, faults, consents>>

\* No answer, 429 or 5xx: tried again, except after the last attempt.
Retry(p) ==
    /\ Sends(p) /\ call[p].tries < Attempts - 1 /\ Fault
    /\ call' = [call EXCEPT ![p].tries = @ + 1]
    /\ UNCHANGED <<granted, life, saved, lock, last, lost, consents>>

\* revolut_retry_limit
Exhausted(p) ==
    /\ call[p].step = "send" /\ call[p].tries = Attempts
    /\ Finish(p, "failed")
    /\ UNCHANGED <<granted, life, saved, lost, faults, consents>>

-----------------------------------------------------------------------------
(* Time and the bank *)

TimePasses ==
    /\ \A p \in Caller : ~call[p].late
    /\ call' = [p \in Caller |-> IF call[p] = Idle THEN Idle ELSE [call[p] EXCEPT !.late = TRUE]]
    /\ life' = IF life = 0 THEN 0 ELSE life - 1
    /\ saved' = [saved EXCEPT !.fresh = IF @ = 0 THEN 0 ELSE @ - 1]
    /\ UNCHANGED <<granted, lock, last, lost, faults, consents>>

\* The bank ends the access token early, or the user withdraws the consent.
Revoke ==
    /\ granted /\ life > 0 /\ Fault
    /\ life' = 0
    /\ granted' \in BOOLEAN
    /\ UNCHANGED <<saved, call, lock, last, lost, consents>>

-----------------------------------------------------------------------------

ClientInit ==
    /\ granted = FALSE /\ life = 0
    /\ saved = [access |-> "none", refresh |-> "none", fresh |-> 0]
    /\ call = [p \in Caller |-> Idle] /\ lock = Nobody
    /\ last = "none" /\ lost = FALSE
    /\ faults = 0 /\ consents = 0

Progress(p) ==
    \/ \E rotate \in BOOLEAN : Issue(p, rotate)
    \/ Refuse(p) \/ Save(p) \/ Succeed(p) \/ Unauthorized(p) \/ Exhausted(p)

ClientNext ==
    \/ \E p \in Caller :
          BeginGet(p) \/ BeginExchange(p) \/ Progress(p) \/ Fail(p) \/ Retry(p)
    \/ TimePasses \/ Revoke

ClientSpec == ClientInit /\ [][ClientNext]_clientVars

\* Runs come round for ever, and a call goes on.
FairClientSpec ==
    /\ ClientSpec
    /\ WF_clientVars(\E p \in Caller : BeginGet(p))
    /\ \A p \in Caller : WF_clientVars(Progress(p))

-----------------------------------------------------------------------------
(* Properties *)

\* Every variable keeps its shape; who is at work holds the lock.
ClientTypeOK ==
    /\ granted \in BOOLEAN /\ life \in 0..Life
    /\ saved \in [access : Token, refresh : Token, fresh : 0..Life]
    /\ call \in [Caller -> Local]
    /\ lock \in Caller \cup {Nobody} /\ \A p \in Caller : call[p] # Idle => lock = p
    /\ last \in {"none", "open", "ok", "failed"} /\ lost \in BOOLEAN
    /\ faults \in 0..MaxFaults /\ consents \in 0..MaxConsents

\* As long as no answer of the bank is lost, the database has the refresh token
\* that the bank accepts, or a caller is about to save it: the connection is not
\* locked out of a consent that is in force.  (auth.save_tokens: "Token refresh
\* invalidates the old token remotely.")
NoLockout ==
    granted /\ ~lost =>
        \/ saved.refresh = "current"
        \/ \E p \in Caller : call[p].step = "answer" /\ call[p].refresh = "current"

\* Then reads succeed for ever after: expired, refused and forgotten access tokens
\* are replaced without anyone's help.
ReadsGoOn == <>[](granted /\ ~lost) => []<>(last = "ok")
=============================================================================
