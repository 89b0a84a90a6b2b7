-------------------------------- MODULE Setup --------------------------------
(***************************************************************************)
(* Setting up a connection: the steps of the wizard (generate_certificate, *)
(* save_client_id, connect_from_paste, activate), set_private_key, and     *)
(* forms of the connection that someone has open in the Desk.              *)
(*                                                                         *)
(* Frappe's side of a save: the row is read again and locked until commit, *)
(* a document older than `modified` is refused, every field is written, a  *)
(* password field that is blank loses its secret, and one that is masked   *)
(* keeps it.                                                               *)
(***************************************************************************)
EXTENDS Naturals

CONSTANTS
    Request,        \* requests and open forms
    Client,         \* client IDs at the bank
    Generated,      \* private keys made by generate_certificate
    Manual          \* private keys that users bring

ASSUME SetupAssumption ==
    /\ "none" \notin Generated \cup Manual \cup Client \cup Request
    /\ "pending" \notin Client /\ Generated \cap Manual = {}

VARIABLES
    row,            \* the connection as committed
    auth,           \* its secrets: the key, and the client whose tokens these are
    req,            \* local state of requests and forms
    lock,           \* who holds the connection lock, or "none"
    writer,         \* whose save of the row is not committed, or "none"
    edited,         \* history: a form changed the client of an authorized connection
    overlap         \* history: a request began before another one was committed

vars == <<row, auth, req, lock, writer, edited, overlap>>

Key == Generated \cup Manual

\* The columns keyMark and tokenMark say whether the password fields are masked or blank.
Row == [client : Client \cup {"pending"}, cert : Generated \cup {"none"}, authorized : BOOLEAN,
        enabled : BOOLEAN, keyMark : BOOLEAN, tokenMark : BOOLEAN]

\* A document: a copy of the row, whether `modified` is still the same, a key typed.
Doc == [row : Row, latest : BOOLEAN, typed : Key \cup {"none"}]

Loaded == [row |-> row, latest |-> TRUE, typed |-> "none"]

NewRow == [client |-> "pending", cert |-> "none", authorized |-> FALSE, enabled |-> FALSE,
           keyMark |-> FALSE, tokenMark |-> FALSE]

Idle == [kind |-> "none", step |-> "idle",
         doc |-> [row |-> NewRow, latest |-> FALSE, typed |-> "none"]]

\* A form that is open is no request.
Alone(r) == \A q \in Request \ {r} : req[q].kind \in {"none", "form"} /\ req[q].step # "saved"

Begin(r) == overlap' = (overlap \/ ~Alone(r))

\* `modified` changes: documents loaded before are out of date.
Outdated(except) ==
    [q \in Request |-> IF q = except THEN Idle ELSE [req[q] EXCEPT !.doc.latest = FALSE]]

-----------------------------------------------------------------------------
(* RevolutConnection.validate and Frappe's save *)

\* Mutant: fields that belong to the connector are not compared.
ProtectedNone(d) == TRUE

Protected(d) ==
    /\ d.row.cert = row.cert /\ d.row.authorized = row.authorized
    /\ d.row.tokenMark = row.tokenMark

\* Mutant: nothing is asked of a connection that is to be enabled.
MayEnableAlways(d) == TRUE

MayEnable(d) == d.row.enabled => d.row.authorized

MaySave(d) ==
    /\ writer = "none" /\ d.latest
    /\ MayEnable(d)
    /\ Protected(d)
    /\ row.enabled => /\ d.row.client = row.client /\ d.row.keyMark = row.keyMark
                      /\ d.typed = "none"

SavedRow(d) == [d.row EXCEPT !.keyMark = @ \/ d.typed # "none"]

SavedAuth(d) ==
    [key   |-> IF d.typed # "none" THEN d.typed
               ELSE IF d.row.keyMark THEN auth.key ELSE "none",
     token |-> IF d.row.tokenMark THEN auth.token ELSE "none"]

Save(r, d) ==
    /\ MaySave(d)
    /\ writer' = r
    /\ req' = [req EXCEPT ![r].step = "saved", ![r].doc = d]

Commit(r) ==
    /\ req[r].step = "saved"
    /\ row' = SavedRow(req[r].doc) /\ auth' = SavedAuth(req[r].doc)
    /\ edited' = (\/ edited
                  \/ req[r].kind = "form" /\ row.authorized /\ row.client # row'.client)
    /\ req' = Outdated(r)
    /\ writer' = "none"
    /\ UNCHANGED <<lock, overlap>>

\* A request or a form is refused, fails or is given up, and is rolled back.
Abort(r) ==
    /\ req[r] # Idle
    /\ req' = [req EXCEPT ![r] = Idle]
    /\ lock' = IF lock = r THEN "none" ELSE lock
    /\ writer' = IF writer = r THEN "none" ELSE writer
    /\ UNCHANGED <<row, auth, edited, overlap>>

-----------------------------------------------------------------------------
(* Forms *)

OpenForm(r) ==
    /\ req[r] = Idle
    /\ req' = [req EXCEPT ![r] = [kind |-> "form", step |-> "open", doc |-> Loaded]]
    /\ UNCHANGED <<row, auth, lock, writer, edited, overlap>>

\* The user changes the client, types a key, switches the connection on or off, or
\* something else; the lock is free for a moment.
SaveForm(r) ==
    /\ req[r].kind = "form" /\ req[r].step = "open" /\ Begin(r)
    /\ lock = "none"
    /\ \E client \in Client \cup {req[r].doc.row.client}, typed \in Manual \cup {"none"},
          enabled \in BOOLEAN :
          Save(r, [req[r].doc EXCEPT !.row.client = client, !.row.enabled = enabled,
                                     !.typed = typed])
    /\ UNCHANGED <<row, auth, lock, edited>>

-----------------------------------------------------------------------------
(* Requests *)

\* connect_from_paste reads the connection before it waits for the lock.
BeginConnect(r) ==
    /\ req[r] = Idle /\ Begin(r)
    /\ row.client # "pending"
    /\ req' = [req EXCEPT ![r] = [kind |-> "connect", step |-> "open", doc |-> Loaded]]
    /\ UNCHANGED <<row, auth, lock, writer, edited>>

\* Mutant: a key that came without a certificate is not noticed.
MayGenerateUncertified == ~row.enabled /\ ~row.authorized /\ row.cert = "none"

\* With recover_missing_key the certificate may be there already.
MayGenerate == ~row.enabled /\ ~row.authorized /\ auth.key = "none" /\ auth.token = "none"

\* Mutant: the client may be changed as long as the connection is disabled.
MayChangeClientAuthorized == ~row.enabled

MayChangeClient == ~row.enabled /\ ~row.authorized

\* The other requests check what is committed when they have the lock.
Enter(r) ==
    /\ lock = "none" /\ lock' = r
    /\ \/ /\ req[r].kind = "connect" /\ req[r].step = "open"
          /\ req' = [req EXCEPT ![r].step = "in"]
          /\ UNCHANGED overlap
       \/ /\ req[r] = Idle /\ Begin(r)
          /\ \E kind \in {"generate", "key", "client", "activate"} :
                /\ kind = "generate" => MayGenerate
                /\ kind = "key" => ~row.enabled
                /\ kind = "client" => MayChangeClient
                /\ kind = "activate" => row.authorized
                /\ req' = [req EXCEPT ![r] = [kind |-> kind, step |-> "in", doc |-> Loaded]]
    /\ UNCHANGED <<row, auth, writer, edited>>

In(r, kind) == req[r].kind = kind /\ req[r].step = "in"

\* Written and committed under the lock, after any other save; `modified` stays.
Generate(r, k) ==
    /\ In(r, "generate") /\ writer = "none"
    /\ auth' = [auth EXCEPT !.key = k]
    /\ row' = [row EXCEPT !.client = "pending", !.cert = k, !.keyMark = TRUE]
    /\ req' = [req EXCEPT ![r] = Idle]
    /\ lock' = "none"
    /\ UNCHANGED <<writer, edited, overlap>>

\* exchange with the client that was read, and save_tokens.
Connect(r) ==
    /\ In(r, "connect") /\ writer = "none" /\ auth.key # "none"
    /\ auth' = [auth EXCEPT !.token = req[r].doc.row.client]
    /\ row' = [row EXCEPT !.authorized = TRUE, !.tokenMark = TRUE]
    /\ edited' = FALSE
    /\ req' = [req EXCEPT ![r] = Idle]
    /\ lock' = "none"
    /\ UNCHANGED <<writer, overlap>>

Activate(r) ==
    /\ In(r, "activate") /\ writer = "none"
    /\ row' = [row EXCEPT !.enabled = TRUE]
    /\ req' = Outdated(r)
    /\ lock' = "none"
    /\ UNCHANGED <<auth, writer, edited, overlap>>

\* doc.save under the lock, which is free before the commit.
SetPrivateKey(r, k) ==
    /\ In(r, "key")
    /\ Save(r, [req[r].doc EXCEPT !.typed = k])
    /\ lock' = "none"
    /\ UNCHANGED <<row, auth, edited, overlap>>

SaveClientId(r, c) ==
    /\ In(r, "client")
    /\ Save(r, [req[r].doc EXCEPT !.row.client = c])
    /\ lock' = "none"
    /\ UNCHANGED <<row, auth, edited, overlap>>

-----------------------------------------------------------------------------

\* create_connection
Init ==
    /\ row = NewRow /\ auth = [key |-> "none", token |-> "none"]
    /\ req = [r \in Request |-> Idle]
    /\ lock = "none" /\ writer = "none" /\ edited = FALSE /\ overlap = FALSE

Next == \E r \in Request :
    \/ OpenForm(r) \/ SaveForm(r) \/ BeginConnect(r) \/ Enter(r) \/ Commit(r) \/ Abort(r)
    \/ Connect(r) \/ Activate(r)
    \/ \E k \in Generated : Generate(r, k)
    \/ \E k \in Manual : SetPrivateKey(r, k)
    \/ \E c \in Client : SaveClientId(r, c)

Spec == Init /\ [][Next]_vars

-----------------------------------------------------------------------------
(* Properties *)

\* Every variable keeps its shape; a connection is enabled only with authorization,
\* and a masked field has its secret.
TypeOK ==
    /\ row \in Row /\ (row.enabled => row.authorized)
    /\ auth \in [key : Key \cup {"none"}, token : Client \cup {"none"}]
    /\ row.keyMark = (auth.key # "none") /\ row.tokenMark = (auth.token # "none")
    /\ req \in [Request -> [kind : {"none", "form", "connect", "generate", "key", "client",
                                    "activate"},
                            step : {"idle", "open", "in", "saved"}, doc : Doc]]
    /\ {lock, writer} \subseteq Request \cup {"none"} /\ {edited, overlap} \subseteq BOOLEAN

\* No save removes a secret that it did not know of: a form or a request that loaded
\* the connection before the secret was stored is refused.  (setup.py: "Frappe
\* deletes encrypted secrets on save when their Password field is blank.")
SecretsKept ==
    [][ /\ auth.key # "none" => auth'.key # "none"
        /\ auth.token # "none" => auth'.token # "none" ]_vars

\* A generated key never takes the place of another one, as long as requests do not
\* overlap.  (setup.py: raise
\* FeedError("certificate_already_configured_use_advanced_settings_to_rotate"))
KeyNotReplaced ==
    [][ auth.key # "none" /\ auth'.key \in Generated /\ ~overlap' => auth'.key = auth.key ]_vars

\* The tokens are those of the connection's client, unless someone changed that in
\* the advanced settings, or requests overlapped.  (setup.py: raise
\* FeedError("use_advanced_settings_to_change_authorized_client"))
TokensOfClient == auth.token \in {"none", row.client} \/ edited \/ overlap
=============================================================================
