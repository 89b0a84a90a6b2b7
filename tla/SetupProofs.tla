----------------------------- MODULE SetupProofs -----------------------------
(***************************************************************************)
(* No save of the connection removes its key or its tokens, for any number *)
(* of requests and forms, and however they overlap; while requests do not  *)
(* overlap, no key is replaced and the tokens fit the client.              *)
(***************************************************************************)
EXTENDS Setup, TLAPS

Kind == {"none", "form", "connect", "generate", "key", "client", "activate"}
Step == {"idle", "open", "in", "saved"}
Local == [kind : Kind, step : Step, doc : Doc]

\* What is committed: the row and its secrets.
Committed ==
    /\ row \in Row /\ (row.enabled => row.authorized)
    /\ auth \in [key : Key \cup {"none"}, token : Client \cup {"none"}]
    /\ row.keyMark = (auth.key # "none") /\ row.tokenMark = (auth.token # "none")
    /\ row.cert # "none" => row.keyMark

Control ==
    /\ lock \in Request \cup {"none"} /\ writer \in Request \cup {"none"}
    /\ edited \in BOOLEAN /\ overlap \in BOOLEAN

\* What a document knows of the row.  A certificate comes with its key, so a document
\* that has the row's certificate and is not out of date has the row's mark of the key.
Knows(d) ==
    /\ d.row.cert # "none" => d.row.keyMark
    /\ d.latest /\ d.row.cert = row.cert => d.row.keyMark = row.keyMark

Checked(c) ==
    /\ c.kind = "activate" => row.authorized
    /\ c.kind = "connect" => c.doc.row.client # "pending"

\* A save that is not committed is one that is still allowed: nobody else has changed
\* the row since.
Allowed(d) == d.latest /\ Protected(d) /\ MayEnable(d)

Held(q, c) == c.step = "saved" => writer = q /\ Allowed(c.doc)

Good(q, c) == Knows(c.doc) /\ Checked(c) /\ Held(q, c)

\* Authorization is for good.
Lasting(old, new) == old.authorized => new.authorized

\* The inductive invariant.
IInv ==
    /\ Committed /\ Control
    /\ req \in [Request -> Local] /\ \A q \in Request : Good(q, req[q])

LEMMA IdleType ==
  /\ Idle \in Local /\ Idle.doc \in Doc /\ Idle.kind = "none" /\ Idle.step = "idle"
  /\ Idle.doc.latest = FALSE /\ Idle.doc.row.cert = "none"
<1>1. NewRow \in Row /\ NewRow.cert = "none"
  BY SetupAssumption DEF NewRow, Row
<1>2. QED BY <1>1 DEF Idle, Doc, Local, Kind, Step

LEMMA IdleGood == \A q \in Request : Good(q, Idle)
  BY IdleType DEF Good, Knows, Checked, Held

LEMMA InitHolds == Init => IInv
<1> SUFFICES ASSUME Init PROVE IInv
  OBVIOUS
<1>1. Committed
  <2>1. NewRow \in Row /\ NewRow.cert = "none"
    BY SetupAssumption DEF NewRow, Row
  <2>2. QED BY <2>1 DEF Init, NewRow, Committed
<1>2. Control
  BY DEF Init, Control
<1>3. req \in [Request -> Local] /\ \A q \in Request : req[q] = Idle
  BY IdleType DEF Init
<1>4. QED BY <1>1, <1>2, <1>3, IdleGood DEF IInv

\* While nobody holds the row, no save is under way.
LEMMA NoneSaved ==
  ASSUME IInv, writer = "none"
  PROVE  \A q \in Request : req[q].step # "saved"
  BY SetupAssumption DEF IInv, Good, Held

\* A request goes on, and what is committed stays.
LEMMA RequestKeeps ==
  ASSUME IInv, NEW r \in Request, NEW c \in Local, req' = [req EXCEPT ![r] = c],
         UNCHANGED <<row, auth>>, Control',
         writer' = writer \/ (writer' = r /\ writer = "none") \/ (writer' = "none" /\ writer = r),
         Knows(c.doc), Checked(c),
         c.step = "saved" => writer' = r /\ Allowed(c.doc)
  PROVE  IInv'
<1>1. req' \in [Request -> Local] /\ Committed'
  BY DEF IInv, Committed
<1>2. ASSUME NEW q \in Request PROVE Good(q, req[q])'
  <2>1. CASE q = r
    <3>1. req'[q] = c
      BY <2>1 DEF IInv
    <3>2. QED BY <2>1, <3>1 DEF Good, Knows, Held, Checked, Allowed, Protected, MayEnable
  <2>2. CASE q # r
    <3>1. req'[q] = req[q] /\ Good(q, req[q])
      BY <2>2 DEF IInv
    <3>2. req[q].step = "saved" => writer' = q
      BY <2>2, <3>1, SetupAssumption DEF Good, Held
    <3>3. QED BY <3>1, <3>2 DEF Good, Knows, Held, Checked, Allowed, Protected, MayEnable
  <2>3. QED BY <2>1, <2>2
<1>3. QED BY <1>1, <1>2 DEF IInv

\* A change of the row that outdates every other document.
LEMMA OutdatedKeeps ==
  ASSUME IInv, NEW r \in Request, req' = Outdated(r), \A q \in Request \ {r} : req[q].step # "saved",
         Committed', Control', Lasting(row, row')
  PROVE  IInv'
<1>1. ASSUME NEW q \in Request PROVE req'[q] \in Local /\ Good(q, req[q])'
  <2>1. CASE q = r
    <3>1. req'[q] = Idle
      BY <2>1 DEF Outdated
    <3>2. QED BY <3>1, IdleType DEF Good, Knows, Held, Checked
  <2>2. CASE q # r
    <3>1. req'[q] = [req[q] EXCEPT !.doc.latest = FALSE]
      BY <2>2 DEF Outdated
    <3>2. /\ req[q] \in Local /\ req[q].step # "saved"
          /\ Knows(req[q].doc) /\ Checked(req[q])
      BY <2>2 DEF IInv, Good
    <3>3. /\ req'[q].kind = req[q].kind /\ req'[q].step = req[q].step
          /\ req'[q].doc.row = req[q].doc.row /\ req'[q].doc.latest = FALSE
          /\ req'[q] \in Local
      <4> DEFINE d == [req[q].doc EXCEPT !.latest = FALSE]
      <4>1. d \in Doc /\ d.row = req[q].doc.row /\ d.latest = FALSE
        BY <3>2 DEF Local, Doc
      <4>2. req'[q] = [req[q] EXCEPT !.doc = d]
        BY <3>1
      <4> HIDE DEF d
      <4>3. QED BY <3>2, <4>1, <4>2 DEF Local
    <3>4. QED BY <3>2, <3>3 DEF Good, Knows, Checked, Held, Lasting
  <2>3. QED BY <2>1, <2>2
<1>2. req' \in [Request -> Local]
  BY <1>1 DEF Outdated
<1>3. QED BY <1>1, <1>2 DEF IInv

\* A write of the row that leaves `modified` as it is: no save is under way.
LEMMA WriteKeeps ==
  ASSUME IInv, NEW r \in Request, writer = "none", req' = [req EXCEPT ![r] = Idle],
         Committed', Control', Lasting(row, row'),
         row'.cert # "none" \/ (row'.cert = row.cert /\ row'.keyMark = row.keyMark)
  PROVE  IInv'
<1>1. ASSUME NEW q \in Request PROVE req'[q] \in Local /\ Good(q, req[q])'
  <2>1. CASE q = r
    <3>1. req'[q] = Idle
      BY <2>1 DEF IInv
    <3>2. QED BY <3>1, IdleType DEF Good, Knows, Held, Checked
  <2>2. CASE q # r
    <3>1. req'[q] = req[q]
      BY <2>2 DEF IInv
    <3>2. /\ req[q] \in Local /\ Knows(req[q].doc) /\ Checked(req[q])
          /\ req[q].step # "saved"
      BY NoneSaved DEF IInv, Good
    <3>3. req[q].doc.row.keyMark \in BOOLEAN
      BY <3>2 DEF Local, Doc, Row
    <3>4. row' \in Row /\ (row'.cert # "none" => row'.keyMark)
      BY DEF Committed
    <3>5. Knows(req[q].doc)'
      BY <3>1, <3>2, <3>3, <3>4 DEF Knows, Row
    <3>6. QED BY <3>1, <3>2, <3>5 DEF Good, Checked, Held, Lasting
  <2>3. QED BY <2>1, <2>2
<1>2. req' \in [Request -> Local]
  BY IdleType DEF IInv
<1>3. QED BY <1>1, <1>2 DEF IInv

LEMMA CommitKeeps ==
  ASSUME IInv, NEW r \in Request, Commit(r)
  PROVE  /\ IInv'
         /\ auth.key # "none" => auth'.key # "none"
         /\ auth.token # "none" => auth'.token # "none"
<1> DEFINE d == req[r].doc
<1>1. /\ d \in Doc /\ d.latest /\ Protected(d) /\ MayEnable(d) /\ Knows(d) /\ writer = r
      /\ row' = SavedRow(d) /\ auth' = SavedAuth(d)
  BY DEF IInv, Good, Local, Held, Allowed, Commit
<1>2. \A q \in Request \ {r} : req[q].step # "saved"
  BY <1>1 DEF IInv, Good, Held
<1>3. d.row.keyMark = (auth.key # "none") /\ d.row.tokenMark = (auth.token # "none")
  BY <1>1 DEF IInv, Committed, Protected, Knows
<1> HIDE DEF d
<1>4. /\ row'.client = d.row.client /\ row'.cert = d.row.cert /\ row'.enabled = d.row.enabled
      /\ row'.authorized = row.authorized /\ row'.tokenMark = row.tokenMark
      /\ row'.keyMark = (d.row.keyMark \/ d.typed # "none")
      /\ row' \in Row
  BY <1>1 DEF SavedRow, Protected, Doc, Row
<1>5. /\ auth' \in [key : Key \cup {"none"}, token : Client \cup {"none"}]
      /\ auth'.key = IF d.typed # "none" THEN d.typed
                     ELSE IF d.row.keyMark THEN auth.key ELSE "none"
      /\ auth'.token = auth.token
  BY <1>1, <1>3 DEF SavedAuth, IInv, Committed, Doc
<1>6. row'.keyMark = (auth'.key # "none") /\ row'.tokenMark = (auth'.token # "none")
  BY <1>3, <1>4, <1>5 DEF IInv, Committed
<1>7. row'.enabled => row'.authorized
  BY <1>1, <1>4 DEF MayEnable, Protected
<1>8. row'.cert # "none" => row'.keyMark
  BY <1>1, <1>4 DEF Knows
<1>9. Committed'
  BY <1>4, <1>5, <1>6, <1>7, <1>8 DEF Committed
<1>10. Control'
  <2>1. edited' \in BOOLEAN
    BY Zenon DEF Commit
  <2>2. QED BY <2>1 DEF Commit, IInv, Control
<1>11. req' = Outdated(r) /\ Lasting(row, row')
  BY <1>4 DEF Commit, Lasting
<1>12. IInv'
  BY <1>2, <1>9, <1>10, <1>11, OutdatedKeeps
<1>13. QED BY <1>3, <1>5, <1>12

LEMMA GenerateKeeps ==
  ASSUME IInv, NEW r \in Request, NEW k \in Generated, Generate(r, k)
  PROVE  IInv' /\ auth'.key # "none" /\ auth'.token = auth.token
<1>1. k # "none" /\ k \in Key
  BY SetupAssumption DEF Key
<1>2. /\ row' \in Row /\ row'.cert = k /\ row'.keyMark = TRUE
      /\ row'.enabled = row.enabled /\ row'.authorized = row.authorized
      /\ row'.tokenMark = row.tokenMark
  BY DEF Generate, IInv, Committed, Row
<1>3. /\ auth' \in [key : Key \cup {"none"}, token : Client \cup {"none"}]
      /\ auth'.key = k /\ auth'.token = auth.token
  BY <1>1 DEF Generate, IInv, Committed
<1>4. Committed'
  BY <1>1, <1>2, <1>3 DEF IInv, Committed
<1>5. Control' /\ writer = "none" /\ req' = [req EXCEPT ![r] = Idle]
  BY DEF Generate, IInv, Control
<1>6. Lasting(row, row') /\ row'.cert # "none"
  BY <1>1, <1>2 DEF Lasting
<1>7. IInv'
  BY <1>4, <1>5, <1>6, WriteKeeps
<1>8. QED BY <1>1, <1>3, <1>7

LEMMA ConnectKeeps ==
  ASSUME IInv, NEW r \in Request, Connect(r)
  PROVE  IInv' /\ auth'.key = auth.key /\ auth'.token # "none"
<1>1. req[r].doc.row.client \in Client /\ req[r].doc.row.client # "none"
  <2>1. req[r] \in Local /\ req[r].doc.row.client # "pending"
    BY DEF Connect, In, IInv, Good, Checked
  <2>2. QED BY <2>1, SetupAssumption DEF Local, Doc, Row
<1>2. /\ row' \in Row /\ row'.cert = row.cert /\ row'.keyMark = row.keyMark
      /\ row'.authorized = TRUE /\ row'.tokenMark = TRUE
  BY DEF Connect, IInv, Committed, Row
<1>3. /\ auth' \in [key : Key \cup {"none"}, token : Client \cup {"none"}]
      /\ auth'.key = auth.key /\ auth'.token = req[r].doc.row.client
  BY <1>1 DEF Connect, IInv, Committed
<1>4. Committed'
  BY <1>1, <1>2, <1>3 DEF IInv, Committed
<1>5. Control' /\ writer = "none" /\ req' = [req EXCEPT ![r] = Idle]
  BY DEF Connect, IInv, Control
<1>6. IInv'
  BY <1>2, <1>4, <1>5, WriteKeeps DEF Lasting
<1>7. QED BY <1>1, <1>3, <1>6

LEMMA ActivateKeeps ==
  ASSUME IInv, NEW r \in Request, Activate(r)
  PROVE  IInv' /\ auth' = auth
<1>1. row.authorized
  BY DEF Activate, In, IInv, Good, Checked
<1>2. /\ row' \in Row /\ row'.cert = row.cert /\ row'.keyMark = row.keyMark
      /\ row'.authorized = row.authorized /\ row'.tokenMark = row.tokenMark
  BY DEF Activate, IInv, Committed, Row
<1>3. auth' = auth /\ req' = Outdated(r) /\ writer = "none" /\ Control'
  BY DEF Activate, IInv, Control
<1>4. Committed'
  BY <1>1, <1>2, <1>3 DEF IInv, Committed
<1>5. IInv'
  BY <1>1, <1>2, <1>3, <1>4, NoneSaved, OutdatedKeeps DEF Lasting
<1>6. QED BY <1>3, <1>5

\* What Save asks of the document is what Held says of it.
LEMMA SaveKeeps ==
  ASSUME IInv, NEW r \in Request, NEW d \in Doc, Save(r, d),
         req[r].kind \in {"form", "key", "client"},
         d.row.cert = req[r].doc.row.cert, d.row.keyMark = req[r].doc.row.keyMark,
         d.latest = req[r].doc.latest,
         UNCHANGED <<row, auth>>, Control'
  PROVE  IInv'
<1> DEFINE c == [req[r] EXCEPT !.step = "saved", !.doc = d]
<1>1. /\ c \in Local /\ c.step = "saved" /\ c.doc = d /\ c.kind = req[r].kind
      /\ req' = [req EXCEPT ![r] = c]
  BY DEF IInv, Save, Local, Kind, Step
<1> HIDE DEF c
<1>2. Knows(c.doc)
  BY <1>1 DEF IInv, Good, Knows
<1>3. Checked(c)
  BY <1>1 DEF Checked
<1>4. /\ writer' = r /\ writer = "none"
      /\ Allowed(c.doc)
  BY <1>1 DEF Save, MaySave, Allowed
<1>5. QED BY <1>1, <1>2, <1>3, <1>4, RequestKeeps

LEMMA StepHolds ==
  ASSUME IInv, Next
  PROVE  /\ IInv'
         /\ auth.key # "none" => auth'.key # "none"
         /\ auth.token # "none" => auth'.token # "none"
<1>1. Loaded \in Doc /\ Knows(Loaded) /\ Loaded.row = row
  BY DEF IInv, Committed, Loaded, Doc, Knows
<1>2. PICK r \in Request :
         \/ OpenForm(r) \/ SaveForm(r) \/ BeginConnect(r) \/ Enter(r) \/ Commit(r) \/ Abort(r)
         \/ Connect(r) \/ Activate(r)
         \/ \E k \in Generated : Generate(r, k)
         \/ \E k \in Manual : SetPrivateKey(r, k)
         \/ \E c \in Client : SaveClientId(r, c)
  BY DEF Next
<1>3. /\ req[r] \in Local /\ req[r].doc \in Doc /\ Knows(req[r].doc) /\ Checked(req[r])
      /\ req[r].kind \in Kind
  BY DEF IInv, Good, Local
<1>0. Begin(r) => overlap' \in BOOLEAN
  BY Zenon DEF Begin
<1>4. CASE OpenForm(r)
  <2> DEFINE c == [kind |-> "form", step |-> "open", doc |-> Loaded]
  <2>1. c \in Local /\ c.kind = "form" /\ c.step = "open" /\ c.doc = Loaded
    BY <1>1 DEF Local, Kind, Step
  <2>2. req' = [req EXCEPT ![r] = c] /\ UNCHANGED <<row, auth>> /\ writer' = writer /\ Control'
    BY <1>4 DEF OpenForm, IInv, Control
  <2> HIDE DEF c
  <2>3. Knows(c.doc) /\ Checked(c)
    BY <1>1, <2>1 DEF Checked
  <2>4. IInv'
    BY <2>1, <2>2, <2>3, RequestKeeps
  <2>5. QED BY <2>2, <2>4
<1>5. CASE BeginConnect(r)
  <2> DEFINE c == [kind |-> "connect", step |-> "open", doc |-> Loaded]
  <2>1. c \in Local /\ c.kind = "connect" /\ c.step = "open" /\ c.doc = Loaded
    BY <1>1 DEF Local, Kind, Step
  <2>2. /\ req' = [req EXCEPT ![r] = c] /\ UNCHANGED <<row, auth>> /\ writer' = writer
        /\ row.client # "pending" /\ Control'
    BY <1>5, <1>0 DEF BeginConnect, IInv, Control
  <2> HIDE DEF c
  <2>3. Knows(c.doc) /\ Checked(c)
    BY <1>1, <2>1, <2>2 DEF Checked
  <2>4. IInv'
    BY <2>1, <2>2, <2>3, RequestKeeps
  <2>5. QED BY <2>2, <2>4
<1>6. CASE Enter(r)
  <2>1. UNCHANGED <<row, auth>> /\ writer' = writer
    BY <1>6 DEF Enter
  <2>2. Control'
    <3>1. overlap' = overlap \/ Begin(r)
      BY <1>6 DEF Enter
    <3>2. overlap' \in BOOLEAN
      BY <3>1, <1>0 DEF IInv, Control
    <3>3. QED BY <1>6, <3>2 DEF Enter, IInv, Control
  <2>3. CASE req[r].kind = "connect" /\ req' = [req EXCEPT ![r].step = "in"]
    <3> DEFINE c == [req[r] EXCEPT !.step = "in"]
    <3>1. /\ c \in Local /\ c.kind = "connect" /\ c.step = "in" /\ c.doc = req[r].doc
          /\ req' = [req EXCEPT ![r] = c]
      BY <1>3, <2>3 DEF Local, Kind, Step
    <3> HIDE DEF c
    <3>2. Knows(c.doc) /\ Checked(c)
      BY <1>3, <2>3, <3>1 DEF Checked
    <3>3. IInv'
      BY <2>1, <2>2, <3>1, <3>2, RequestKeeps
    <3>4. QED BY <2>1, <3>3
  <2>4. ASSUME NEW kind \in {"generate", "key", "client", "activate"},
               kind = "activate" => row.authorized,
               req' = [req EXCEPT ![r] = [kind |-> kind, step |-> "in", doc |-> Loaded]]
        PROVE  IInv'
    <3> DEFINE c == [kind |-> kind, step |-> "in", doc |-> Loaded]
    <3>1. /\ c \in Local /\ c.kind = kind /\ c.step = "in" /\ c.doc = Loaded
          /\ req' = [req EXCEPT ![r] = c]
      BY <1>1, <2>4 DEF Local, Kind, Step
    <3> HIDE DEF c
    <3>2. Knows(c.doc) /\ Checked(c)
      BY <1>1, <2>4, <3>1 DEF Checked
    <3>3. QED BY <2>1, <2>2, <3>1, <3>2, RequestKeeps
  <2>5. \/ req[r].kind = "connect" /\ req' = [req EXCEPT ![r].step = "in"]
        \/ \E kind \in {"generate", "key", "client", "activate"} :
              /\ kind = "activate" => row.authorized
              /\ req' = [req EXCEPT ![r] = [kind |-> kind, step |-> "in", doc |-> Loaded]]
    BY <1>6 DEF Enter
  <2>6. IInv'
    BY <2>3, <2>4, <2>5
  <2>7. QED BY <2>1, <2>6
<1>7. CASE Abort(r)
  <2>1. /\ req' = [req EXCEPT ![r] = Idle] /\ UNCHANGED <<row, auth>> /\ Control'
        /\ writer' = writer \/ (writer' = "none" /\ writer = r)
    BY <1>7 DEF Abort, IInv, Control
  <2>2. Knows(Idle.doc) /\ Checked(Idle)
    BY IdleType DEF Knows, Checked
  <2>3. IInv'
    BY <2>1, <2>2, IdleType, RequestKeeps
  <2>4. QED BY <2>1, <2>3
<1>8. CASE SaveForm(r)
  <2>1. PICK client \in Client \cup {req[r].doc.row.client}, typed \in Manual \cup {"none"},
             enabled \in BOOLEAN :
          Save(r, [req[r].doc EXCEPT !.row.client = client, !.row.enabled = enabled,
                                     !.typed = typed])
    BY <1>8 DEF SaveForm
  <2> DEFINE d == [req[r].doc EXCEPT !.row.client = client, !.row.enabled = enabled,
                                     !.typed = typed]
  <2>2. /\ d \in Doc /\ d.row.cert = req[r].doc.row.cert
        /\ d.row.keyMark = req[r].doc.row.keyMark /\ d.latest = req[r].doc.latest
    BY <1>3 DEF Doc, Row, Key
  <2>3. Save(r, d)
    BY <2>1
  <2> HIDE DEF d
  <2>4. writer' = r /\ req[r].kind = "form" /\ UNCHANGED <<row, auth>>
    BY <1>8, <2>3 DEF SaveForm, Save
  <2>5. Control'
    BY <1>8, <1>0, <2>4 DEF SaveForm, IInv, Control
  <2>6. IInv'
    BY <2>2, <2>3, <2>4, <2>5, SaveKeeps
  <2>7. QED BY <2>4, <2>6
<1>9. ASSUME NEW k \in Manual, SetPrivateKey(r, k) PROVE IInv' /\ auth' = auth
  <2> DEFINE d == [req[r].doc EXCEPT !.typed = k]
  <2>1. d \in Doc /\ d.row = req[r].doc.row /\ d.latest = req[r].doc.latest
    BY <1>3 DEF Doc, Key
  <2>2. Save(r, d) /\ req[r].kind = "key" /\ UNCHANGED <<row, auth>>
    BY <1>9 DEF SetPrivateKey, In
  <2> HIDE DEF d
  <2>3. Control'
    BY <1>9 DEF SetPrivateKey, Save, IInv, Control
  <2>4. IInv'
    BY <2>1, <2>2, <2>3, SaveKeeps
  <2>5. QED BY <2>2, <2>4
<1>10. ASSUME NEW c \in Client, SaveClientId(r, c) PROVE IInv' /\ auth' = auth
  <2> DEFINE d == [req[r].doc EXCEPT !.row.client = c]
  <2>1. /\ d \in Doc /\ d.row.cert = req[r].doc.row.cert
        /\ d.row.keyMark = req[r].doc.row.keyMark /\ d.latest = req[r].doc.latest
    BY <1>3 DEF Doc, Row
  <2>2. Save(r, d) /\ req[r].kind = "client" /\ UNCHANGED <<row, auth>>
    BY <1>10 DEF SaveClientId, In
  <2> HIDE DEF d
  <2>3. Control'
    BY <1>10 DEF SaveClientId, Save, IInv, Control
  <2>4. IInv'
    BY <2>1, <2>2, <2>3, SaveKeeps
  <2>5. QED BY <2>2, <2>4
<1>11. QED
  BY <1>2, <1>4, <1>5, <1>6, <1>7, <1>8, <1>9, <1>10, CommitKeeps, GenerateKeeps,
     ConnectKeeps, ActivateKeeps

LEMMA StepKeeps == IInv /\ [Next]_vars => IInv'
<1>1. IInv /\ UNCHANGED vars => IInv'
  BY DEF vars, IInv, Committed, Control, Good, Knows, Held, Checked, Allowed, Protected, MayEnable
<1>2. QED BY <1>1, StepHolds

\* The shape of the state, that the row's marks tell which secrets are there, and
\* that a connection is enabled only with authorization.
THEOREM SetupTyped == Spec => []TypeOK
<1>1. IInv => TypeOK
  BY DEF IInv, Committed, Control, TypeOK, Local, Kind, Step
<1>2. QED BY <1>1, InitHolds, StepKeeps, PTL DEF Spec

\* No save removes a secret that it did not know of, however requests overlap.
THEOREM NoSecretLost == Spec => SecretsKept
<1>1. IInv /\ [Next]_vars =>
        [ /\ auth.key # "none" => auth'.key # "none"
          /\ auth.token # "none" => auth'.token # "none" ]_vars
  BY StepHolds
<1>2. QED BY <1>1, InitHolds, StepKeeps, PTL DEF Spec, SecretsKept

-----------------------------------------------------------------------------
(* One request after another *)

\* A request is under way; a form is only while its save is not committed.
Active(c) == c.kind \notin {"none", "form"} \/ c.step = "saved"

\* What a request relies on while nobody else is at work.
Relies(c) ==
    /\ c.kind = "generate" => auth.key = "none" /\ auth.token = "none"
    /\ c.kind \in {"connect", "key"} => c.doc.row.client = row.client
    /\ c.kind = "client" => ~row.authorized

SoleInv ==
    ~overlap =>
        /\ \A q, r \in Request : Active(req[q]) /\ Active(req[r]) => q = r
        /\ \A r \in Request : Relies(req[r])
        /\ auth.token \in {"none", row.client} \/ edited

\* Authorization comes with tokens, and keys are typed by users
\* into what is saved.
OwnInv ==
    /\ row.authorized = row.tokenMark
    /\ \A r \in Request :
          /\ req[r].doc.typed \in Manual \cup {"none"}
          /\ req[r].step = "saved" => req[r].kind \in {"form", "key", "client"}

AloneInv == IInv /\ SoleInv /\ OwnInv

LEMMA IdleRelies == /\ Idle \in Local /\ ~Active(Idle) /\ Relies(Idle)
                    /\ Idle.kind = "none" /\ Idle.step = "idle" /\ Idle.doc.typed = "none"
  BY IdleType DEF Idle, Active, Relies

LEMMA InitAlone == Init => AloneInv
<1> SUFFICES ASSUME Init PROVE AloneInv
  OBVIOUS
<1>1. \A r \in Request : req[r] = Idle
  BY DEF Init
<1>2. row.authorized = row.tokenMark /\ auth.token = "none"
  BY DEF Init, NewRow
<1>3. SoleInv
  BY <1>1, <1>2, IdleRelies DEF SoleInv
<1>4. OwnInv
  BY <1>1, <1>2, IdleRelies DEF OwnInv
<1> QED
  BY <1>3, <1>4, InitHolds DEF AloneInv

\* A request begins, goes on or ends, and what is committed stays.
LEMMA RequestAlone ==
  ASSUME AloneInv, NEW r \in Request, NEW c \in Local, req' = [req EXCEPT ![r] = c],
         UNCHANGED <<row, auth, edited>>, c.doc.typed \in Manual \cup {"none"},
         c.step = "saved" => c.kind \in {"form", "key", "client"},
         ~overlap' => /\ ~overlap /\ Relies(c)
                      /\ Active(c) => Active(req[r]) \/ Alone(r)
  PROVE  SoleInv' /\ OwnInv'
<1>1. /\ req'[r] = c /\ \A q \in Request \ {r} : req'[q] = req[q]
  BY DEF AloneInv, IInv
<1>2. OwnInv'
  BY <1>1 DEF AloneInv, OwnInv
<1>3. SoleInv'
  <2> SUFFICES ASSUME ~overlap' PROVE SoleInv'
    BY DEF SoleInv
  <2>1. /\ ~overlap /\ Relies(c) /\ (Active(c) => Active(req[r]) \/ Alone(r))
    OBVIOUS
  <2>2. Active(c) => \A q \in Request \ {r} : ~Active(req[q])
    BY <2>1 DEF AloneInv, SoleInv, Alone, Active
  <2>3. \A q, s \in Request : Active(req'[q]) /\ Active(req'[s]) => q = s
    <3> SUFFICES ASSUME NEW q \in Request, NEW s \in Request, Active(req'[q]), Active(req'[s])
                 PROVE  q = s
      OBVIOUS
    <3>1. CASE q # r /\ s # r
      <4>1. Active(req[q]) /\ Active(req[s])
        BY <1>1, <3>1
      <4> QED
        BY <2>1, <4>1 DEF AloneInv, SoleInv
    <3>2. CASE q = r /\ s # r
      <4>1. Active(c) /\ Active(req[s])
        BY <1>1, <3>2
      <4> QED
        BY <2>2, <3>2, <4>1
    <3>3. CASE q # r /\ s = r
      <4>1. Active(c) /\ Active(req[q])
        BY <1>1, <3>3
      <4> QED
        BY <2>2, <3>3, <4>1
    <3> QED
      BY <3>1, <3>2, <3>3
  <2>4. \A q \in Request : Relies(req[q])'
    BY <1>1, <2>1 DEF AloneInv, SoleInv, Relies
  <2>5. auth'.token \in {"none", row'.client} \/ edited'
    BY <2>1 DEF AloneInv, SoleInv
  <2>6. \A q, s \in Request : (Active(req[q]) /\ Active(req[s]))' => q = s
    BY <2>3 DEF Active
  <2> QED
    BY <2>4, <2>5, <2>6 DEF SoleInv
<1> QED
  BY <1>2, <1>3

\* The only request under way writes, and is over.
LEMMA EndAlone ==
  ASSUME AloneInv, NEW r \in Request, Active(req[r]), req'[r] = Idle,
         \A q \in Request \ {r} : /\ req'[q].kind = req[q].kind /\ req'[q].step = req[q].step
                                  /\ req'[q].doc.typed = req[q].doc.typed,
         overlap' = overlap, row'.authorized = row'.tokenMark,
         ~overlap => auth'.token \in {"none", row'.client} \/ edited'
  PROVE  SoleInv' /\ OwnInv'
<1>1. OwnInv'
  BY IdleRelies DEF AloneInv, OwnInv
<1>2. SoleInv'
  <2> SUFFICES ASSUME ~overlap' PROVE SoleInv'
    BY DEF SoleInv
  <2>1. \A q \in Request \ {r} : ~Active(req[q])
    BY DEF AloneInv, SoleInv
  <2>2. \A q \in Request : req'[q].kind \in {"none", "form"} /\ req'[q].step # "saved"
    BY <2>1, IdleRelies DEF Active
  <2>3. \A q \in Request : ~Active(req[q])' /\ Relies(req[q])'
    BY <2>2 DEF Active, Relies
  <2> QED
    BY <2>3 DEF SoleInv
<1> QED
  BY <1>1, <1>2

\* KeyNotReplaced for one step.
NotReplaced ==
    auth.key # "none" /\ auth'.key \in Generated /\ ~overlap' => auth'.key = auth.key

LEMMA CommitAlone ==
  ASSUME AloneInv, NEW r \in Request, Commit(r)
  PROVE  SoleInv' /\ OwnInv' /\ NotReplaced
<1> DEFINE d == req[r].doc
<1>1. /\ req[r] \in Local /\ d \in Doc /\ req[r].step = "saved" /\ Protected(d) /\ Knows(d)
      /\ d.latest /\ row' = SavedRow(d) /\ auth' = SavedAuth(d) /\ req' = Outdated(r)
      /\ overlap' = overlap /\ d.typed \in Manual \cup {"none"}
  BY DEF AloneInv, OwnInv, IInv, Good, Local, Held, Allowed, Commit
<1>2. /\ req'[r] = Idle
      /\ \A q \in Request \ {r} : /\ req'[q].kind = req[q].kind /\ req'[q].step = req[q].step
                                  /\ req'[q].doc.typed = req[q].doc.typed
  <2>1. ASSUME NEW q \in Request \ {r}
        PROVE  /\ req'[q].kind = req[q].kind /\ req'[q].step = req[q].step
               /\ req'[q].doc.typed = req[q].doc.typed
    <3> DEFINE e == [req[q].doc EXCEPT !.latest = FALSE]
    <3>1. req[q] \in Local /\ e.typed = req[q].doc.typed
      BY DEF AloneInv, IInv, Local, Doc
    <3>2. req'[q] = [req[q] EXCEPT !.doc = e]
      BY <1>1 DEF Outdated
    <3> HIDE DEF e
    <3> QED
      BY <3>1, <3>2 DEF Local
  <2> QED
    BY <1>1, <2>1 DEF Outdated
<1>3. d.row.keyMark = (auth.key # "none") /\ d.row.tokenMark = (auth.token # "none")
  BY <1>1 DEF AloneInv, IInv, Committed, Protected, Knows
<1>4. edited' = (\/ edited
                 \/ req[r].kind = "form" /\ row.authorized /\ row.client # row'.client)
  BY DEF Commit
<1> HIDE DEF d
<1>5. /\ row'.client = d.row.client /\ row'.authorized = row.authorized
      /\ row'.tokenMark = row.tokenMark
  BY <1>1 DEF SavedRow, Protected, Doc, Row
<1>6. /\ auth'.key = IF d.typed # "none" THEN d.typed
                     ELSE IF d.row.keyMark THEN auth.key ELSE "none"
      /\ auth'.token = auth.token
  BY <1>1, <1>3 DEF SavedAuth, AloneInv, IInv, Committed, Doc
<1>7. NotReplaced
  BY <1>1, <1>6, SetupAssumption DEF NotReplaced
<1>8. Active(req[r])
  BY <1>1 DEF Active
<1>9. row.authorized <=> auth.token # "none"
  BY DEF AloneInv, OwnInv, IInv, Committed
<1>10. ASSUME ~overlap
       PROVE  auth'.token \in {"none", row'.client} \/ edited'
  <2>1. Relies(req[r]) /\ (auth.token \in {"none", row.client} \/ edited)
    BY <1>10 DEF AloneInv, SoleInv
  <2>2. CASE auth.token = "none"
    BY <1>6, <2>2
  <2>3. CASE edited
    BY <1>4, <2>3
  <2>4. CASE auth.token # "none" /\ auth.token = row.client
    <3>1. CASE row'.client = row.client
      BY <1>6, <2>4, <3>1
    <3>2. CASE row'.client # row.client
      <4>1. req[r].kind \in {"form", "key", "client"}
        BY <1>1 DEF AloneInv, OwnInv
      <4>2. req[r].kind # "key" /\ req[r].kind # "client"
        BY <1>5, <1>9, <2>1, <2>4, <3>2 DEF Relies, d
      <4> QED
        BY <1>4, <1>9, <2>4, <3>2, <4>1, <4>2
    <3> QED
      BY <3>1, <3>2
  <2> QED
    BY <2>1, <2>2, <2>3, <2>4
<1>11. row'.authorized = row'.tokenMark
  BY <1>5 DEF AloneInv, OwnInv
<1> QED
  BY <1>1, <1>2, <1>7, <1>8, <1>10, <1>11, EndAlone

LEMMA GenerateAlone ==
  ASSUME AloneInv, NEW r \in Request, NEW k \in Generated, Generate(r, k)
  PROVE  SoleInv' /\ OwnInv' /\ NotReplaced
<1>1. /\ req[r].kind = "generate" /\ req' = [req EXCEPT ![r] = Idle] /\ overlap' = overlap
      /\ edited' = edited
  BY DEF Generate, In
<1>2. Active(req[r]) /\ req'[r] = Idle /\ \A q \in Request \ {r} : req'[q] = req[q]
  BY <1>1 DEF Active, AloneInv, IInv
<1>3. row'.authorized = row.authorized /\ row'.tokenMark = row.tokenMark
  BY DEF Generate, AloneInv, IInv, Committed, Row
<1>4. auth'.token = auth.token
  BY GenerateKeeps DEF AloneInv
<1>5. ~overlap => auth.key = "none" /\ auth.token = "none"
  BY <1>1 DEF AloneInv, SoleInv, Relies
<1>6. NotReplaced
  BY <1>1, <1>5 DEF NotReplaced
<1>7. row'.authorized = row'.tokenMark
  BY <1>3 DEF AloneInv, OwnInv
<1> QED
  BY <1>1, <1>2, <1>4, <1>5, <1>6, <1>7, EndAlone

LEMMA ConnectAlone ==
  ASSUME AloneInv, NEW r \in Request, Connect(r)
  PROVE  SoleInv' /\ OwnInv' /\ NotReplaced
<1>1. /\ req[r].kind = "connect" /\ req' = [req EXCEPT ![r] = Idle] /\ overlap' = overlap
  BY DEF Connect, In
<1>2. Active(req[r]) /\ req'[r] = Idle /\ \A q \in Request \ {r} : req'[q] = req[q]
  BY <1>1 DEF Active, AloneInv, IInv
<1>3. row'.authorized = TRUE /\ row'.tokenMark = TRUE /\ row'.client = row.client
  BY DEF Connect, AloneInv, IInv, Committed, Row
<1>4. auth'.token = req[r].doc.row.client /\ auth'.key = auth.key
  BY DEF Connect, AloneInv, IInv, Committed
<1>5. ~overlap => req[r].doc.row.client = row.client
  BY <1>1 DEF AloneInv, SoleInv, Relies
<1> QED
  BY <1>1, <1>2, <1>3, <1>4, <1>5, EndAlone DEF NotReplaced

LEMMA ActivateAlone ==
  ASSUME AloneInv, NEW r \in Request, Activate(r)
  PROVE  SoleInv' /\ OwnInv' /\ NotReplaced
<1>1. /\ req[r].kind = "activate" /\ req' = Outdated(r) /\ overlap' = overlap
      /\ auth' = auth /\ edited' = edited
  BY DEF Activate, In
<1>2. /\ Active(req[r]) /\ req'[r] = Idle
      /\ \A q \in Request \ {r} : /\ req'[q].kind = req[q].kind /\ req'[q].step = req[q].step
                                  /\ req'[q].doc.typed = req[q].doc.typed
  <2>1. ASSUME NEW q \in Request \ {r}
        PROVE  /\ req'[q].kind = req[q].kind /\ req'[q].step = req[q].step
               /\ req'[q].doc.typed = req[q].doc.typed
    <3> DEFINE e == [req[q].doc EXCEPT !.latest = FALSE]
    <3>1. req[q] \in Local /\ e.typed = req[q].doc.typed
      BY DEF AloneInv, IInv, Local, Doc
    <3>2. req'[q] = [req[q] EXCEPT !.doc = e]
      BY <1>1 DEF Outdated
    <3> HIDE DEF e
    <3> QED
      BY <3>1, <3>2 DEF Local
  <2> QED
    BY <1>1, <2>1 DEF Outdated, Active
<1>3. /\ row'.authorized = row.authorized /\ row'.tokenMark = row.tokenMark
      /\ row'.client = row.client
  BY DEF Activate, AloneInv, IInv, Committed, Row
<1>4. row'.authorized = row'.tokenMark
  BY <1>3 DEF AloneInv, OwnInv
<1>5. ~overlap => auth'.token \in {"none", row'.client} \/ edited'
  BY <1>1, <1>3 DEF AloneInv, SoleInv
<1> QED
  BY <1>1, <1>2, <1>4, <1>5, EndAlone DEF NotReplaced

\* Save goes on with the document of a form or a request.
LEMMA SaveAlone ==
  ASSUME AloneInv, NEW r \in Request, NEW d \in Doc, Save(r, d),
         UNCHANGED <<row, auth, edited>>, d.typed \in Manual \cup {"none"},
         \/ /\ req[r].kind = "form"
            /\ Begin(r)
         \/ /\ req[r].kind = "key" /\ d.row = req[r].doc.row
            /\ overlap' = overlap
         \/ req[r].kind = "client" /\ overlap' = overlap
  PROVE  SoleInv' /\ OwnInv'
<1> DEFINE c == [req[r] EXCEPT !.step = "saved", !.doc = d]
<1>1. /\ c \in Local /\ c.step = "saved" /\ c.doc = d /\ c.kind = req[r].kind
      /\ req' = [req EXCEPT ![r] = c]
  BY DEF AloneInv, IInv, Save, Local, Kind, Step
<1> HIDE DEF c
<1>2. ASSUME ~overlap'
      PROVE  ~overlap /\ Relies(c) /\ (Active(c) => Active(req[r]) \/ Alone(r))
  <2>1. CASE req[r].kind = "form" /\ Begin(r)
    BY <1>1, <1>2, <2>1 DEF Begin, Relies
  <2>2. CASE req[r].kind = "key" /\ d.row = req[r].doc.row /\ overlap' = overlap
    BY <1>1, <1>2, <2>2 DEF AloneInv, SoleInv, Relies, Active
  <2>3. CASE req[r].kind = "client" /\ overlap' = overlap
    BY <1>1, <1>2, <2>3 DEF AloneInv, SoleInv, Relies, Active
  <2> QED
    BY <2>1, <2>2, <2>3
<1> QED
  BY <1>1, <1>2, RequestAlone

LEMMA StepAlone ==
  ASSUME AloneInv, Next
  PROVE  SoleInv' /\ OwnInv' /\ NotReplaced
<1>1. Loaded \in Doc /\ Loaded.row = row /\ Loaded.typed = "none"
  BY DEF AloneInv, IInv, Committed, Loaded, Doc
<1>2. PICK r \in Request :
         \/ OpenForm(r) \/ SaveForm(r) \/ BeginConnect(r) \/ Enter(r) \/ Commit(r) \/ Abort(r)
         \/ Connect(r) \/ Activate(r)
         \/ \E k \in Generated : Generate(r, k)
         \/ \E k \in Manual : SetPrivateKey(r, k)
         \/ \E c \in Client : SaveClientId(r, c)
  BY DEF Next
<1>3. req[r] \in Local /\ req[r].doc \in Doc /\ req[r].doc.typed \in Manual \cup {"none"}
  BY DEF AloneInv, OwnInv, IInv, Local
<1>4. auth' = auth => NotReplaced
  BY DEF NotReplaced
<1>5. CASE OpenForm(r)
  <2> DEFINE c == [kind |-> "form", step |-> "open", doc |-> Loaded]
  <2>1. /\ c \in Local /\ c.kind = "form" /\ c.step = "open" /\ c.doc = Loaded
        /\ req' = [req EXCEPT ![r] = c]
    BY <1>1, <1>5 DEF Local, Kind, Step, OpenForm
  <2> HIDE DEF c
  <2>2. UNCHANGED <<row, auth, edited, overlap>>
    BY <1>5 DEF OpenForm
  <2>3. ~Active(c) /\ Relies(c)
    BY <2>1 DEF Active, Relies
  <2> QED
    BY <1>1, <1>4, <2>1, <2>2, <2>3, RequestAlone
<1>6. CASE BeginConnect(r)
  <2> DEFINE c == [kind |-> "connect", step |-> "open", doc |-> Loaded]
  <2>1. /\ c \in Local /\ c.kind = "connect" /\ c.step = "open" /\ c.doc = Loaded
        /\ req' = [req EXCEPT ![r] = c]
    BY <1>1, <1>6 DEF Local, Kind, Step, BeginConnect
  <2> HIDE DEF c
  <2>2. UNCHANGED <<row, auth, edited>> /\ (~overlap' => ~overlap /\ Alone(r))
    BY <1>6 DEF BeginConnect, Begin
  <2>3. Relies(c)
    BY <1>1, <2>1 DEF Relies
  <2> QED
    BY <1>1, <1>4, <2>1, <2>2, <2>3, RequestAlone
<1>7. CASE Enter(r)
  <2>1. UNCHANGED <<row, auth, edited>>
    BY <1>7 DEF Enter
  <2>2. ASSUME req[r].kind = "connect", req' = [req EXCEPT ![r].step = "in"], overlap' = overlap
        PROVE  SoleInv' /\ OwnInv'
    <3> DEFINE c == [req[r] EXCEPT !.step = "in"]
    <3>1. /\ c \in Local /\ c.kind = "connect" /\ c.step = "in" /\ c.doc = req[r].doc
          /\ req' = [req EXCEPT ![r] = c]
      BY <1>3, <2>2 DEF Local, Kind, Step
    <3> HIDE DEF c
    <3>2. Active(req[r])
      BY <2>2 DEF Active
    <3>3. ~overlap => Relies(c)
      BY <2>2, <3>1 DEF AloneInv, SoleInv, Relies
    <3> QED
      BY <1>3, <2>1, <2>2, <3>1, <3>2, <3>3, RequestAlone
  <2>3. ASSUME NEW kind \in {"generate", "key", "client", "activate"}, Begin(r),
               kind = "generate" => MayGenerate, kind = "client" => MayChangeClient,
               req' = [req EXCEPT ![r] = [kind |-> kind, step |-> "in", doc |-> Loaded]]
        PROVE  SoleInv' /\ OwnInv'
    <3> DEFINE c == [kind |-> kind, step |-> "in", doc |-> Loaded]
    <3>1. /\ c \in Local /\ c.kind = kind /\ c.step = "in" /\ c.doc = Loaded
          /\ req' = [req EXCEPT ![r] = c]
      BY <1>1, <2>3 DEF Local, Kind, Step
    <3> HIDE DEF c
    <3>2. ~overlap' => ~overlap /\ Alone(r)
      BY <2>3 DEF Begin
    <3>3. Relies(c)
      BY <1>1, <2>3, <3>1 DEF Relies, MayGenerate, MayChangeClient
    <3> QED
      BY <1>1, <2>1, <3>1, <3>2, <3>3, RequestAlone
  <2>4. \/ /\ req[r].kind = "connect" /\ req' = [req EXCEPT ![r].step = "in"]
           /\ overlap' = overlap
        \/ /\ Begin(r)
           /\ \E kind \in {"generate", "key", "client", "activate"} :
                /\ kind = "generate" => MayGenerate
                /\ kind = "client" => MayChangeClient
                /\ req' = [req EXCEPT ![r] = [kind |-> kind, step |-> "in", doc |-> Loaded]]
    BY <1>7 DEF Enter
  <2> QED
    BY <1>4, <2>1, <2>2, <2>3, <2>4
<1>8. CASE Abort(r)
  <2>1. /\ req' = [req EXCEPT ![r] = Idle] /\ UNCHANGED <<row, auth, edited, overlap>>
    BY <1>8 DEF Abort
  <2> QED
    BY <1>4, <2>1, IdleRelies, RequestAlone
<1>9. CASE SaveForm(r)
  <2>1. PICK client \in Client \cup {req[r].doc.row.client}, typed \in Manual \cup {"none"},
             enabled \in BOOLEAN :
          Save(r, [req[r].doc EXCEPT !.row.client = client, !.row.enabled = enabled,
                                     !.typed = typed])
    BY <1>9 DEF SaveForm
  <2> DEFINE d == [req[r].doc EXCEPT !.row.client = client, !.row.enabled = enabled,
                                     !.typed = typed]
  <2>2. d \in Doc /\ d.typed = typed
    BY <1>3 DEF Doc, Row, Key
  <2>3. Save(r, d)
    BY <2>1
  <2> HIDE DEF d
  <2>4. req[r].kind = "form" /\ Begin(r) /\ UNCHANGED <<row, auth, edited>>
    BY <1>9 DEF SaveForm
  <2> QED
    BY <1>4, <2>2, <2>3, <2>4, SaveAlone
<1>10. ASSUME NEW k \in Manual, SetPrivateKey(r, k) PROVE SoleInv' /\ OwnInv' /\ NotReplaced
  <2> DEFINE d == [req[r].doc EXCEPT !.typed = k]
  <2>1. d \in Doc /\ d.row = req[r].doc.row /\ d.typed = k
    BY <1>3 DEF Doc, Key
  <2>2. /\ Save(r, d) /\ req[r].kind = "key" /\ UNCHANGED <<row, auth, edited>>
        /\ overlap' = overlap
    BY <1>10 DEF SetPrivateKey, In
  <2> HIDE DEF d
  <2> QED
    BY <1>4, <2>1, <2>2, SaveAlone
<1>11. ASSUME NEW c \in Client, SaveClientId(r, c) PROVE SoleInv' /\ OwnInv' /\ NotReplaced
  <2> DEFINE d == [req[r].doc EXCEPT !.row.client = c]
  <2>1. d \in Doc /\ d.typed = req[r].doc.typed
    BY <1>3 DEF Doc, Row
  <2>2. /\ Save(r, d) /\ req[r].kind = "client" /\ UNCHANGED <<row, auth, edited>>
        /\ overlap' = overlap
    BY <1>11 DEF SaveClientId, In
  <2> HIDE DEF d
  <2> QED
    BY <1>3, <1>4, <2>1, <2>2, SaveAlone
<1> QED
  BY <1>2, <1>5, <1>6, <1>7, <1>8, <1>9, <1>10, <1>11, CommitAlone, GenerateAlone,
     ConnectAlone, ActivateAlone

\* As long as requests do not overlap, one is at work at a time, and what it relies
\* on stays: a missing key, the client it read, an unauthorized connection.
THEOREM RequestsRely == Spec => []AloneInv
<1>1. AloneInv /\ UNCHANGED vars => SoleInv' /\ OwnInv'
  BY DEF vars, AloneInv, SoleInv, OwnInv, Relies, Active
<1>2. AloneInv /\ [Next]_vars => AloneInv'
  BY <1>1, StepAlone, StepKeeps DEF AloneInv
<1> QED
  BY <1>2, InitAlone, PTL DEF Spec

\* A generated key takes the place of no other, unless requests overlapped.
THEOREM KeyStays == Spec => KeyNotReplaced
<1>1. AloneInv /\ [Next]_vars =>
        [ auth.key # "none" /\ auth'.key \in Generated /\ ~overlap' => auth'.key = auth.key ]_vars
  BY StepAlone DEF NotReplaced
<1> QED
  BY <1>1, RequestsRely, PTL DEF Spec, KeyNotReplaced

\* The tokens are those of the connection's client, unless the advanced settings
\* changed it or requests overlapped.
THEOREM TokensFitClient == Spec => []TokensOfClient
<1>1. AloneInv => TokensOfClient
  BY DEF AloneInv, SoleInv, TokensOfClient
<1> QED
  BY <1>1, RequestsRely, PTL
=============================================================================
