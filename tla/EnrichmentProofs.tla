--------------------------- MODULE EnrichmentProofs ---------------------------
(***************************************************************************)
(* No expense is skipped, for any windows, overlap and ages, and whatever  *)
(* fails on the way; and a snapshot says what the last recorded list said  *)
(* of its account, for any number of accounts, days and faults.            *)
(*                                                                         *)
(* ExpenseFeed and Evidence share no name, so that one module can be about *)
(* both; neither says anything of the other's state.                       *)
(***************************************************************************)
EXTENDS ExpenseFeed, Evidence, TLAPS

Kind == {"poll", "audit"}

Frozen == [from : Nat, end : Nat, to : Nat]

\* The shape of what is not a window.
FeedTyped ==
    /\ upstream \in [Expense -> 0..Final] /\ age \in [Expense -> 0..MaxAge]
    /\ recorded \in [Expense -> 0..Final] /\ seen \in [Expense -> 0..Day]
    /\ {earliest, cursor} \subseteq 0..MaxAge
    /\ lastAudit \in 0..Day /\ auditCursor \in 0..(MaxAge + lastAudit)
    /\ phase \in {"idle", "poll", "audit", "lookup"} /\ batch \subseteq Expense
    /\ faults \in 0..MaxFaults /\ punctual \subseteq Expense

\* Expenses by the time they were last seen: a strict order.
SeenOrder ==
    /\ order \subseteq Expense \X Expense
    /\ \A e, f \in Expense : <<e, f>> \in order => <<f, e>> \notin order
    /\ \A e, f, g \in Expense : <<e, f>> \in order /\ <<f, g>> \in order => <<e, g>> \in order

\* A frozen window is not empty, its checkpoint lies within, and an audit is due
\* until its window is closed.
WindowInv ==
    /\ window \in [Kind -> Frozen]
    /\ \A kind \in Kind :
          /\ window[kind].end <= window[kind].to /\ window[kind].to <= window[kind].from
          /\ window[kind].end <= MaxAge
          /\ window[kind] # Closed => window[kind].end < window[kind].from
    /\ window["poll"].from <= MaxAge
    /\ window["audit"] # Closed => lastAudit = Day

\* Only what is at the bank is recorded, and nothing there is too old.
BankInv(e) ==
    /\ recorded[e] <= upstream[e]
    /\ e \in punctual => upstream[e] > 0
    /\ upstream[e] > 0 => age[e] <= earliest

\* What the poll no longer looks back at is recorded, and so is what the frozen
\* window is past, or never covers.
SkipInv(e) ==
    e \in punctual =>
        /\ age[e] > cursor + Overlap => recorded[e] > 0
        /\ /\ window["poll"] # Closed /\ age[e] > window["poll"].end + Overlap
           /\ age[e] <= window["poll"].to \/ age[e] > window["poll"].from
           => recorded[e] > 0

FeedInv == FeedTyped /\ SeenOrder /\ WindowInv /\ \A e \in Expense : BankInv(e) /\ SkipInv(e)

\* The constants as numbers.
LEMMA Numbers ==
    /\ {Final, History, PollWindow, AuditWindow, Overlap, Day, BatchSize, MaxAge, MaxLag, MaxFaults}
           \subseteq Nat
    /\ Final > 0 /\ PollWindow > 0 /\ AuditWindow > 0
    /\ History <= MaxAge /\ Day <= MaxAge /\ Day <= AuditWindow
  BY NumberAssumption

\* What was touched last is last of all, and the order stays strict.
LEMMA TouchedOrders ==
    ASSUME SeenOrder, NEW es \in SUBSET Expense, order' = Touched(es, Expense, order)
    PROVE  SeenOrder'
<1>1. /\ order' \subseteq Expense \X Expense
      /\ \A e \in es, f \in Expense : <<e, f>> \notin order'
      /\ \A e \in es, f \in Expense \ es : <<f, e>> \in order'
      /\ \A e, f \in Expense \ es : <<e, f>> \in order' <=> <<e, f>> \in order
  BY DEF SeenOrder, Touched, Without
<1> QED
  BY <1>1 DEF SeenOrder

\* Recording expenses loses none, and moves them to the end of the order.
LEMMA RecordKeeps ==
    ASSUME FeedInv, NEW es \in SUBSET Expense, Record(es)
    PROVE  /\ recorded' \in [Expense -> 0..Final] /\ seen' \in [Expense -> 0..Day]
           /\ SeenOrder'
           /\ \A e \in Expense : /\ recorded'[e] <= upstream[e]
                                 /\ recorded[e] > 0 => recorded'[e] > 0
           /\ \A e \in es : upstream[e] > 0 => recorded'[e] > 0
<1>1. \A e \in Expense : /\ upstream[e] \in 0..Final /\ recorded[e] \in 0..Final
                         /\ recorded[e] <= upstream[e] /\ seen[e] \in 0..Day
  BY DEF FeedInv, FeedTyped, BankInv
<1>2. /\ recorded' = [e \in Expense |-> IF e \in es THEN upstream[e] ELSE recorded[e]]
      /\ seen' = [e \in Expense |-> IF e \in es THEN 0 ELSE seen[e]]
      /\ order' = Touched(es, Expense, order)
  BY DEF Record, Moved
<1>3. recorded' \in [Expense -> 0..Final] /\ seen' \in [Expense -> 0..Day]
  BY <1>1, <1>2, Numbers
<1>4. SeenOrder'
  BY <1>2, TouchedOrders DEF FeedInv
<1>5. \A e \in Expense : recorded'[e] = IF e \in es THEN upstream[e] ELSE recorded[e]
  BY <1>2
<1> QED
  BY <1>1, <1>3, <1>4, <1>5

\* So does a failed lookup, without recording anything.
LEMMA TouchKeeps ==
    ASSUME FeedInv, NEW e \in Expense, Touch(e)
    PROVE  seen' \in [Expense -> 0..Day] /\ SeenOrder'
<1>1. /\ seen' = [f \in Expense |-> IF f \in {e} THEN 0 ELSE seen[f]]
      /\ order' = Touched({e}, Expense, order)
  BY DEF Touch, Moved
<1>2. seen' \in [Expense -> 0..Day]
  BY <1>1, Numbers DEF FeedInv, FeedTyped
<1> QED
  BY <1>1, <1>2, TouchedOrders DEF FeedInv

\* What a window says, as numbers.
LEMMA WindowFacts ==
    ASSUME FeedInv, NEW kind \in Kind
    PROVE  /\ window[kind].from \in Nat /\ window[kind].end \in Nat /\ window[kind].to \in Nat
           /\ window[kind].end <= window[kind].to /\ window[kind].to <= window[kind].from
           /\ window[kind].end <= MaxAge
           /\ window[kind] # Closed => window[kind].end < window[kind].from
           /\ window["poll"].from <= MaxAge
  BY DEF FeedInv, WindowInv, Frozen

\* The numbers of a run.
LEMMA CursorFacts ==
    ASSUME FeedInv
    PROVE  /\ earliest \in 0..MaxAge /\ cursor \in 0..MaxAge
           /\ lastAudit \in 0..Day /\ auditCursor \in 0..(MaxAge + lastAudit)
           /\ PollStart \in 0..MaxAge /\ AuditStart \in 0..(MaxAge + lastAudit)
           /\ \A kind \in Kind : End(kind) \in 0..MaxAge /\ Start(kind) \in Nat
<1>1. /\ earliest \in 0..MaxAge /\ cursor \in 0..MaxAge
      /\ lastAudit \in 0..Day /\ auditCursor \in 0..(MaxAge + lastAudit)
  BY DEF FeedInv, FeedTyped
<1>2. PollStart \in 0..MaxAge /\ AuditStart \in 0..(MaxAge + lastAudit)
  BY <1>1, Numbers DEF PollStart, AuditStart, Lower
<1>3. End("poll") \in 0..MaxAge /\ Start("poll") \in Nat
  BY <1>1, <1>2, Numbers DEF End, Start, Higher
<1>4. End("audit") \in 0..MaxAge /\ Start("audit") \in Nat
  BY <1>1, <1>2, Numbers DEF End, Start, Higher
<1> QED
  BY <1>1, <1>2, <1>3, <1>4 DEF Kind

-----------------------------------------------------------------------------
(* The records *)

\* The steps that record expenses of a page, or look one up.
Recording ==
    \/ \E kind \in Kind : ReadPage(kind) \/ PageFails(kind)
    \/ \E e \in Expense : Lookup(e)

LEMMA RecordingRecords == Recording => \E es \in SUBSET Expense : Record(es)
  BY DEF Recording, ReadPage, PageFails, Lookup, Between

\* The other steps that move an expense to the end of the order, and the rest.
LEMMA OtherSteps ==
    ASSUME [Next]_vars, ~Recording
    PROVE  \/ \E e \in Expense : LookupFails(e)
           \/ Tick
           \/ UNCHANGED records
  BY DEF Next, RunStep, Recording, Kind, Edit, List, StartRun, Skip, OpenWindow, CloseWindow,
     EndRun, vars

\* The order by last_seen_at stays strict.
LEMMA StepSeen == FeedInv /\ [Next]_vars => SeenOrder'
<1> SUFFICES ASSUME FeedInv, [Next]_vars PROVE SeenOrder'
  OBVIOUS
<1>1. CASE Recording
  BY <1>1, RecordingRecords, RecordKeeps
<1>2. CASE \E e \in Expense : LookupFails(e)
  BY <1>2, TouchKeeps DEF LookupFails
<1>3. CASE UNCHANGED order
  BY <1>3 DEF FeedInv, SeenOrder
<1> QED
  BY <1>1, <1>2, <1>3, OtherSteps DEF Tick, records

\* Nothing is recorded that the bank does not list, and an expense that is
\* listed grows older with historical_from.
LEMMA StepBank == FeedInv /\ [Next]_vars => \A e \in Expense : BankInv(e)'
<1> SUFFICES ASSUME FeedInv, [Next]_vars, NEW e \in Expense PROVE BankInv(e)'
  OBVIOUS
<1>0. /\ upstream \in [Expense -> 0..Final] /\ age \in [Expense -> 0..MaxAge]
      /\ recorded \in [Expense -> 0..Final]
      /\ upstream[e] \in Nat /\ recorded[e] \in Nat /\ age[e] \in Nat /\ earliest \in Nat
      /\ BankInv(e) /\ punctual \subseteq Expense
  BY Numbers DEF FeedInv, FeedTyped
<1>1. ASSUME NEW d \in Expense, NEW a \in 0..MaxAge, List(d, a) PROVE BankInv(e)'
  <2>1. /\ upstream[d] = 0 /\ a <= earliest
        /\ upstream' = [upstream EXCEPT ![d] = 1] /\ age' = [age EXCEPT ![d] = a]
        /\ punctual' \subseteq punctual \cup {d} /\ UNCHANGED <<earliest, recorded>>
    BY <1>0, <1>1, Numbers DEF List, Lower, records, cursors
  <2>2. CASE e = d
    <3>1. upstream'[e] = 1 /\ age'[e] = a /\ recorded'[e] <= 0
      BY <1>0, <2>1, <2>2 DEF BankInv
    <3> QED
      BY <1>0, <2>1, <3>1 DEF BankInv
  <2>3. CASE e # d
    <3>1. upstream'[e] = upstream[e] /\ age'[e] = age[e]
      BY <1>0, <2>1, <2>3
    <3> QED
      BY <1>0, <2>1, <2>3, <3>1 DEF BankInv
  <2> QED
    BY <2>2, <2>3
<1>2. ASSUME NEW d \in Expense, Edit(d) PROVE BankInv(e)'
  <2>1. /\ upstream[d] > 0 /\ upstream' = [upstream EXCEPT ![d] = upstream[d] + 1]
        /\ UNCHANGED <<age, punctual, recorded, earliest>>
    BY <1>0, <1>2 DEF Edit, records, cursors
  <2>2. \/ upstream'[e] = upstream[e]
        \/ upstream'[e] = upstream[e] + 1 /\ upstream[e] > 0
    BY <1>0, <2>1
  <2> QED
    BY <1>0, <2>1, <2>2 DEF BankInv
<1>3. CASE Tick
  <2>1. /\ age'[e] = IF upstream[e] = 0 THEN age[e] ELSE Older(age[e])
        /\ earliest' = Older(earliest) /\ UNCHANGED <<upstream, punctual, recorded>>
    BY <1>3 DEF Tick
  <2>2. age[e] <= earliest => Older(age[e]) <= Older(earliest)
    BY <1>0, Numbers DEF Older, Lower
  <2> QED
    BY <1>0, <2>1, <2>2 DEF BankInv
<1>4. CASE Recording
  <2>1. recorded'[e] <= upstream[e]
    BY <1>4, RecordingRecords, RecordKeeps
  <2>2. UNCHANGED <<upstream, age, punctual, earliest>>
    BY <1>4 DEF Recording, ReadPage, PageFails, Lookup, bank, cursors
  <2> QED
    BY <1>0, <2>1, <2>2 DEF BankInv
<1>5. CASE \/ \E kind \in Kind : Skip(kind) \/ OpenWindow(kind) \/ CloseWindow(kind)
           \/ \E d \in Expense : LookupFails(d)
           \/ StartRun \/ EndRun \/ UNCHANGED vars
  <2>1. UNCHANGED <<bank, recorded, earliest>>
    BY <1>5 DEF Skip, OpenWindow, CloseWindow, LookupFails, StartRun, EndRun, vars, records, cursors
  <2> QED
    BY <1>0, <2>1 DEF BankInv, bank
<1> QED
  BY <1>1, <1>2, <1>3, <1>4, <1>5, Zenon DEF Next, RunStep, Recording, Kind

-----------------------------------------------------------------------------
(* The windows *)

\* A frozen window grows older as it is, as long as its checkpoint may.
LEMMA AgedKeeps ==
    ASSUME NEW w \in Frozen, w.end <= w.to, w.to <= w.from, w # Closed, w.end < w.from,
           w.to <= MaxAge - 2
    PROVE  /\ Aged(w) \in Frozen /\ Aged(w) # Closed
           /\ Aged(w).end = w.end + 1 /\ Aged(w).to = w.to + 1 /\ Aged(w).from = Older(w.from)
           /\ Aged(w).end <= MaxAge /\ Aged(w).from <= MaxAge
           /\ Aged(w).end < Aged(w).from /\ Aged(w).to <= Aged(w).from
<1>1. w.from \in Nat /\ w.end \in Nat /\ w.to \in Nat /\ MaxAge \in Nat
  BY Numbers DEF Frozen
<1>2. Aged(w) = [from |-> Older(w.from), end |-> Older(w.end), to |-> Older(w.to)]
  BY DEF Aged
<1>3. /\ Older(w.end) = w.end + 1 /\ Older(w.to) = w.to + 1 /\ Older(w.from) \in Nat
      /\ Older(w.from) <= MaxAge /\ Older(w.from) >= w.to + 1 /\ Older(w.from) > w.end + 1
  BY <1>1 DEF Older, Lower
<1>4. Aged(w) # Closed
  <2>1. Aged(w).end = w.end + 1 /\ Closed.end = 0
    BY <1>2, <1>3 DEF Closed
  <2> QED
    BY <1>1, <2>1
<1> QED
  BY <1>1, <1>2, <1>3, <1>4 DEF Frozen

\* A window is opened not empty, is read downwards and grows older as a whole.
LEMMA StepWindow == FeedInv /\ [Next]_vars => WindowInv'
<1> SUFFICES ASSUME FeedInv, [Next]_vars PROVE WindowInv'
  OBVIOUS
<1>0. /\ WindowInv /\ window \in [Kind -> Frozen] /\ "poll" \in Kind /\ "audit" \in Kind
      /\ Closed \in Frozen /\ Closed.from = 0 /\ Closed.end = 0 /\ Closed.to = 0
  BY DEF FeedInv, WindowInv, Kind, Closed, Frozen
<1>1. ASSUME NEW kind \in Kind, OpenWindow(kind) PROVE WindowInv'
  <2> DEFINE w == [from |-> Start(kind), end |-> End(kind), to |-> End(kind)]
  <2>1. window' = [window EXCEPT ![kind] = w] /\ UNCHANGED lastAudit /\ Start(kind) > End(kind)
    BY <1>1 DEF OpenWindow, cursors, Wanted
  <2>2. /\ Start(kind) \in Nat /\ End(kind) \in 0..MaxAge
        /\ kind = "poll" => Start(kind) <= MaxAge
        /\ kind = "audit" => lastAudit = Day
    BY <1>1, CursorFacts DEF OpenWindow, Wanted, Start
  <2>3. w \in Frozen /\ w.from = Start(kind) /\ w.end = End(kind) /\ w.to = End(kind)
    BY <2>2 DEF Frozen
  <2> HIDE DEF w
  <2>4. window'[kind] = w /\ \A other \in Kind \ {kind} : window'[other] = window[other]
    BY <1>0, <2>1
  <2>5. window' \in [Kind -> Frozen]
    BY <1>0, <2>1, <2>3
  <2>6. ASSUME NEW other \in Kind
        PROVE  /\ window'[other].end <= window'[other].to
               /\ window'[other].to <= window'[other].from
               /\ window'[other].end <= MaxAge
               /\ window'[other] # Closed => window'[other].end < window'[other].from
    <3>1. CASE other = kind
      BY <2>1, <2>2, <2>3, <2>4, <3>1
    <3>2. CASE other # kind
      BY <1>0, <2>4, <3>2 DEF WindowInv
    <3> QED
      BY <3>1, <3>2
  <2>7. window'["poll"].from <= MaxAge
    BY <1>0, <2>2, <2>3, <2>4 DEF WindowInv
  <2>8. window'["audit"] # Closed => lastAudit' = Day
    BY <1>0, <2>1, <2>2, <2>4 DEF WindowInv
  <2> QED
    BY <2>5, <2>6, <2>7, <2>8 DEF WindowInv
<1>2. ASSUME NEW kind \in Kind, ReadPage(kind) PROVE WindowInv'
  <2>1. PICK reach \in (window[kind].to + 1)..window[kind].from :
            window' = [window EXCEPT ![kind].to = reach]
    BY <1>2 DEF ReadPage
  <2>2. UNCHANGED lastAudit
    BY <1>2 DEF ReadPage, cursors
  <2> DEFINE w == [window[kind] EXCEPT !.to = reach]
  <2>3. /\ window[kind] \in Frozen
        /\ window[kind].from \in Nat /\ window[kind].end \in Nat /\ window[kind].to \in Nat
        /\ window[kind].end <= window[kind].to
    BY <1>0, WindowFacts
  <2>4. reach \in Nat /\ reach > window[kind].to /\ reach <= window[kind].from
    BY <2>3
  <2>5. w \in Frozen /\ w.from = window[kind].from /\ w.end = window[kind].end /\ w.to = reach
    BY <2>3, <2>4 DEF Frozen
  <2>6. window' = [window EXCEPT ![kind] = w]
    BY <2>1
  <2> HIDE DEF w
  <2>7. window'[kind] = w /\ \A other \in Kind \ {kind} : window'[other] = window[other]
    BY <1>0, <2>6
  <2>8. window' \in [Kind -> Frozen]
    BY <1>0, <2>5, <2>6
  <2>9. window[kind] # Closed
    BY <1>0, <2>3, <2>4
  <2>10. ASSUME NEW other \in Kind
         PROVE  /\ window'[other].end <= window'[other].to
                /\ window'[other].to <= window'[other].from
                /\ window'[other].end <= MaxAge
                /\ window'[other] # Closed => window'[other].end < window'[other].from
    <3>1. CASE other = kind
      BY <2>3, <2>4, <2>5, <2>7, <3>1, WindowFacts
    <3>2. CASE other # kind
      BY <1>0, <2>7, <3>2 DEF WindowInv
    <3> QED
      BY <3>1, <3>2
  <2>11. window'["poll"].from <= MaxAge
    BY <1>0, <2>5, <2>7 DEF WindowInv
  <2>12. window'["audit"] # Closed => lastAudit' = Day
    BY <1>0, <2>2, <2>7, <2>9 DEF WindowInv
  <2> QED
    BY <2>8, <2>10, <2>11, <2>12 DEF WindowInv
<1>3. ASSUME NEW kind \in Kind, CloseWindow(kind) PROVE WindowInv'
  <2>1. window' = [window EXCEPT ![kind] = Closed]
    BY <1>3 DEF CloseWindow, Cleared
  <2>2. kind # "audit" => UNCHANGED lastAudit
    BY <1>3 DEF CloseWindow, Kind
  <2>3. window'[kind] = Closed /\ \A other \in Kind \ {kind} : window'[other] = window[other]
    BY <1>0, <2>1
  <2>4. window' \in [Kind -> Frozen]
    BY <1>0, <2>1
  <2> QED
    BY <1>0, <2>2, <2>3, <2>4, Numbers DEF WindowInv
<1>4. CASE Tick
  <2>1. /\ \A kind \in Kind : window'[kind] = Aged(window[kind])
        /\ window' = [kind \in Kind |-> Aged(window[kind])]
        /\ lastAudit' = Lower(lastAudit + 1, Day)
        /\ window["poll"].to \in 0..(MaxAge - 2)
        /\ lastAudit = Day => window["audit"].to \in 0..(MaxAge - 2)
    BY <1>4 DEF Tick, Kind
  <2>2. lastAudit = Day => lastAudit' = Day
    BY <2>1, Numbers DEF Lower
  <2>3. \A kind \in Kind : window[kind] # Closed => window[kind].to <= MaxAge - 2
    BY <1>0, <2>1, Numbers DEF WindowInv, Kind
  <2>4. ASSUME NEW kind \in Kind, window[kind] # Closed
        PROVE  /\ Aged(window[kind]) \in Frozen /\ Aged(window[kind]) # Closed
               /\ Aged(window[kind]).end <= Aged(window[kind]).to
               /\ Aged(window[kind]).end <= MaxAge /\ Aged(window[kind]).from <= MaxAge
               /\ Aged(window[kind]).end < Aged(window[kind]).from
               /\ Aged(window[kind]).to <= Aged(window[kind]).from
    <3>1. /\ window[kind] \in Frozen /\ window[kind].end <= window[kind].to
          /\ window[kind].to <= window[kind].from /\ window[kind].end < window[kind].from
          /\ window[kind].to <= MaxAge - 2
      BY <1>0, <2>3, <2>4 DEF WindowInv
    <3>2. window[kind].end \in Nat /\ window[kind].to \in Nat
      BY <3>1 DEF Frozen
    <3> QED
      BY <2>4, <3>1, <3>2, AgedKeeps
  <2>5. \A kind \in Kind : window[kind] = Closed => Aged(window[kind]) = Closed
    BY DEF Aged
  <2>6. window' \in [Kind -> Frozen]
    BY <1>0, <2>1, <2>4, <2>5
  <2> QED
    BY <1>0, <2>1, <2>2, <2>4, <2>5, <2>6, Numbers DEF WindowInv
<1>5. CASE \/ \E e \in Expense : \/ Edit(e) \/ Lookup(e) \/ LookupFails(e)
                                 \/ \E a \in 0..MaxAge : List(e, a)
           \/ \E kind \in Kind : Skip(kind) \/ PageFails(kind)
           \/ StartRun \/ EndRun \/ UNCHANGED vars
  <2>1. UNCHANGED <<window, lastAudit>>
    BY <1>5 DEF Edit, Lookup, LookupFails, List, Skip, PageFails, StartRun, EndRun, vars, cursors
  <2> QED
    BY <1>0, <2>1 DEF WindowInv
<1> QED
  BY <1>1, <1>2, <1>3, <1>4, <1>5, Zenon DEF Next, RunStep, Kind

-----------------------------------------------------------------------------
(* The shape of the rest *)

\* Numbers stay in their range: no cursor is older than the bound of ages.
LEMMA StepTyped == FeedInv /\ [Next]_vars => FeedTyped'
<1> SUFFICES ASSUME FeedInv, [Next]_vars PROVE FeedTyped'
  OBVIOUS
<1>0. FeedTyped
  BY DEF FeedInv
<1>1. ASSUME NEW d \in Expense, NEW a \in 0..MaxAge, List(d, a) PROVE FeedTyped'
  <2>1. /\ upstream' = [upstream EXCEPT ![d] = 1] /\ age' = [age EXCEPT ![d] = a]
        /\ punctual' \subseteq punctual \cup {d}
        /\ UNCHANGED <<records, cursors, phase, batch, faults>>
    BY <1>1 DEF List
  <2>2. upstream' \in [Expense -> 0..Final] /\ age' \in [Expense -> 0..MaxAge]
    BY <1>0, <2>1, Numbers DEF FeedTyped
  <2> QED
    BY <1>0, <2>1, <2>2 DEF FeedTyped, records, cursors
<1>2. ASSUME NEW d \in Expense, Edit(d) PROVE FeedTyped'
  <2>1. /\ upstream[d] \in 1..(Final - 1)
        /\ upstream' = [upstream EXCEPT ![d] = upstream[d] + 1]
        /\ UNCHANGED <<age, punctual, records, cursors, phase, batch, faults>>
    BY <1>2 DEF Edit
  <2>2. upstream' \in [Expense -> 0..Final]
    BY <1>0, <2>1, Numbers DEF FeedTyped
  <2> QED
    BY <1>0, <2>1, <2>2 DEF FeedTyped, records, cursors
<1>3. CASE Tick
  <2>1. /\ age' = [e \in Expense |-> IF upstream[e] = 0 THEN age[e] ELSE Older(age[e])]
        /\ seen' = [e \in Expense |-> Lower(seen[e] + 1, Day)]
        /\ earliest' = Older(earliest)
        /\ cursor' = cursor + 1 /\ auditCursor' = auditCursor + 1
        /\ lastAudit' = Lower(lastAudit + 1, Day)
        /\ UNCHANGED <<upstream, punctual, recorded, phase, batch, faults>>
        /\ cursor \in 0..(MaxAge - 2)
        /\ lastAudit = Day => auditCursor \in 0..(MaxAge - 2)
    BY <1>3 DEF Tick
  <2>2. \A n \in 0..MaxAge : Older(n) \in 0..MaxAge
    BY Numbers DEF Older, Lower
  <2>3. \A n \in 0..Day : Lower(n + 1, Day) \in 0..Day
    BY Numbers DEF Lower
  <2>4. age' \in [Expense -> 0..MaxAge] /\ seen' \in [Expense -> 0..Day]
    BY <1>0, <2>1, <2>2, <2>3 DEF FeedTyped
  <2>5. earliest' \in 0..MaxAge /\ cursor' \in 0..MaxAge /\ lastAudit' \in 0..Day
    BY <1>0, <2>1, <2>2, <2>3, Numbers DEF FeedTyped
  <2>6. auditCursor' \in 0..(MaxAge + lastAudit')
    <3>1. /\ lastAudit \in 0..Day /\ auditCursor \in 0..(MaxAge + lastAudit)
          /\ MaxAge \in Nat /\ Day \in Nat
      BY <1>0, Numbers DEF FeedTyped
    <3>2. CASE lastAudit = Day
      <4>1. lastAudit' = Day
        BY <2>1, <3>1, <3>2 DEF Lower
      <4> QED
        BY <2>1, <3>1, <3>2, <4>1
    <3>3. CASE lastAudit # Day
      <4>1. lastAudit' = lastAudit + 1
        BY <2>1, <3>1, <3>3 DEF Lower
      <4> QED
        BY <2>1, <3>1, <4>1
    <3> QED
      BY <3>2, <3>3
  <2> QED
    BY <1>0, <2>1, <2>4, <2>5, <2>6 DEF FeedTyped
<1>4. CASE Recording
  <2>1. recorded' \in [Expense -> 0..Final] /\ seen' \in [Expense -> 0..Day]
    BY <1>4, RecordingRecords, RecordKeeps
  <2>2. UNCHANGED <<bank, cursors>>
    BY <1>4 DEF Recording, ReadPage, PageFails, Lookup
  <2>3. /\ phase' = phase \/ phase' = "idle"
        /\ batch' \subseteq batch
        /\ faults' = faults \/ (faults < MaxFaults /\ faults' = faults + 1)
    BY <1>4 DEF Recording, ReadPage, PageFails, Lookup
  <2>4. /\ phase' \in {"idle", "poll", "audit", "lookup"} /\ batch' \subseteq Expense
        /\ faults' \in 0..MaxFaults
    BY <1>0, <2>3, Numbers DEF FeedTyped
  <2> QED
    BY <1>0, <2>1, <2>2, <2>4 DEF FeedTyped, bank, cursors
<1>5. ASSUME NEW d \in Expense, LookupFails(d) PROVE FeedTyped'
  <2>1. seen' \in [Expense -> 0..Day]
    BY <1>5, TouchKeeps DEF LookupFails
  <2>2. phase' = "idle" /\ batch' = {} /\ UNCHANGED <<bank, recorded, cursors>>
    BY <1>5 DEF LookupFails
  <2>3. faults' \in 0..MaxFaults
    BY <1>0, <1>5, Numbers DEF LookupFails, FeedTyped
  <2> QED
    BY <1>0, <2>1, <2>2, <2>3 DEF FeedTyped, bank, cursors
<1>6. ASSUME NEW kind \in Kind, After(kind)
      PROVE  phase' \in {"idle", "poll", "audit", "lookup"} /\ batch' \subseteq Expense
  BY <1>0, <1>6 DEF After, Unfinished, FeedTyped
<1>7. ASSUME NEW kind \in Kind, CloseWindow(kind) PROVE FeedTyped'
  <2>1. window[kind].end \in 0..MaxAge
    BY WindowFacts, Numbers
  <2>2. /\ cursor' \in 0..MaxAge /\ lastAudit' \in 0..Day
        /\ auditCursor' \in 0..(MaxAge + lastAudit')
    BY <1>0, <1>7, <2>1, Numbers DEF CloseWindow, FeedTyped
  <2>3. After(kind) /\ UNCHANGED <<bank, records, earliest, faults>>
    BY <1>7 DEF CloseWindow
  <2> QED
    BY <1>0, <1>6, <2>2, <2>3 DEF FeedTyped, bank, records
<1>8. CASE \/ \E kind \in Kind : Skip(kind) \/ OpenWindow(kind)
           \/ StartRun \/ EndRun \/ UNCHANGED vars
  <2>1. UNCHANGED <<bank, records, cursors, faults>>
    BY <1>8 DEF Skip, OpenWindow, StartRun, EndRun, vars
  <2>2. phase' \in {"idle", "poll", "audit", "lookup"} /\ batch' \subseteq Expense
    BY <1>0, <1>6, <1>8 DEF Skip, OpenWindow, StartRun, EndRun, vars, FeedTyped
  <2> QED
    BY <1>0, <2>1, <2>2 DEF FeedTyped, bank, records, cursors
<1> QED
  BY <1>1, <1>2, <1>3, <1>4, <1>5, <1>7, <1>8, Zenon DEF Next, RunStep, Recording, Kind

-----------------------------------------------------------------------------
(* Nothing is skipped *)

\* An expense grows as old as the cursor and the window do; what leaves their
\* reach was recorded by a page.
LEMMA StepSkip == FeedInv /\ [Next]_vars => \A e \in Expense : SkipInv(e)'
<1> SUFFICES ASSUME FeedInv, [Next]_vars, NEW e \in Expense PROVE SkipInv(e)'
  OBVIOUS
<1>0. /\ SkipInv(e) /\ BankInv(e) /\ window \in [Kind -> Frozen] /\ "poll" \in Kind
      /\ upstream \in [Expense -> 0..Final] /\ age \in [Expense -> 0..MaxAge]
      /\ recorded[e] \in Nat /\ age[e] \in Nat /\ age[e] <= MaxAge
      /\ cursor \in Nat /\ cursor <= MaxAge /\ Overlap \in Nat /\ MaxAge \in Nat
      /\ earliest \in Nat
  <2>1. /\ SkipInv(e) /\ BankInv(e) /\ window \in [Kind -> Frozen] /\ "poll" \in Kind
        /\ upstream \in [Expense -> 0..Final] /\ age \in [Expense -> 0..MaxAge]
        /\ recorded \in [Expense -> 0..Final]
    BY DEF FeedInv, FeedTyped, WindowInv, Kind
  <2>2. recorded[e] \in Nat /\ age[e] \in Nat /\ age[e] <= MaxAge
    BY <2>1, Numbers
  <2>3. cursor \in Nat /\ cursor <= MaxAge /\ earliest \in Nat
    BY CursorFacts, Numbers
  <2> QED
    BY <2>1, <2>2, <2>3, Numbers
<1> DEFINE w == window["poll"]
<1>w. /\ w.from \in Nat /\ w.end \in Nat /\ w.to \in Nat /\ w \in Frozen
      /\ w.end <= w.to /\ w.to <= w.from /\ w.from <= MaxAge
      /\ w # Closed => w.end < w.from
  BY <1>0, WindowFacts
<1>1. ASSUME NEW d \in Expense, NEW a \in 0..MaxAge, List(d, a) PROVE SkipInv(e)'
  <2>1. /\ upstream[d] = 0
        /\ age' = [age EXCEPT ![d] = a]
        /\ punctual' = IF a <= Overlap THEN punctual \cup {d} ELSE punctual
        /\ UNCHANGED <<recorded, cursor, window>>
    BY <1>1 DEF List, records, cursors
  <2>2. CASE e = d
    <3>1. age'[e] = a /\ e \notin punctual
      BY <1>0, <2>1, <2>2 DEF BankInv
    <3>2. e \in punctual' => a <= Overlap
      BY <2>1, <3>1
    <3>3. window'["poll"].end \in Nat /\ cursor' \in Nat /\ a \in Nat
      BY <1>0, <1>w, <2>1
    <3>4. e \in punctual' =>
              /\ ~(age'[e] > cursor' + Overlap)
              /\ ~(age'[e] > window'["poll"].end + Overlap)
      <4>1. \A n \in Nat : a <= Overlap => ~(a > n + Overlap)
        BY <1>0, <3>3
      <4> QED
        BY <3>1, <3>2, <3>3, <4>1
    <3> QED
      BY <3>4 DEF SkipInv
  <2>3. CASE e # d
    <3>1. age'[e] = age[e] /\ (e \in punctual' => e \in punctual)
      BY <1>0, <2>1, <2>3
    <3> QED
      BY <1>0, <2>1, <3>1 DEF SkipInv
  <2> QED
    BY <2>2, <2>3
<1>2. CASE Tick
  <2>1. /\ age'[e] <= age[e] + 1 /\ age'[e] \in Nat /\ age'[e] >= age[e]
        /\ cursor' = cursor + 1 /\ window'["poll"] = Aged(w)
        /\ w.to <= MaxAge - 2 /\ UNCHANGED <<punctual, recorded>>
        /\ age'[e] <= MaxAge
        /\ age'[e] = age[e] \/ age'[e] = Older(age[e])
    <3>1. /\ age'[e] = IF upstream[e] = 0 THEN age[e] ELSE Older(age[e])
          /\ cursor' = cursor + 1 /\ window'["poll"] = Aged(w)
          /\ w.to \in 0..(MaxAge - 2) /\ UNCHANGED <<punctual, recorded>>
      BY <1>2 DEF Tick
    <3>2. Older(age[e]) <= age[e] + 1 /\ Older(age[e]) \in Nat /\ Older(age[e]) >= age[e]
          /\ Older(age[e]) <= MaxAge
      BY <1>0 DEF Older, Lower
    <3> QED
      BY <1>0, <3>1, <3>2
  <2> SUFFICES ASSUME e \in punctual, recorded[e] = 0
               PROVE  /\ ~(age'[e] > cursor' + Overlap)
                      /\ window'["poll"] # Closed /\ age'[e] > window'["poll"].end + Overlap
                         => window'["poll"].to < age'[e] /\ age'[e] <= window'["poll"].from
    <3>1. CASE e \notin punctual \/ recorded[e] > 0
      BY <2>1, <3>1, <1>0 DEF SkipInv
    <3> DEFINE v == window'["poll"]
    <3>2. CASE e \in punctual /\ recorded[e] = 0
      <4>1. /\ ~(age'[e] > cursor' + Overlap)
            /\ v # Closed /\ age'[e] > v.end + Overlap => v.to < age'[e] /\ age'[e] <= v.from
        BY <3>2
      <4>2. v # Closed => v.from \in Nat /\ v.to \in Nat
        BY <1>w, <2>1, AgedKeeps DEF Aged, Frozen
      <4> QED
        BY <2>1, <4>1, <4>2 DEF SkipInv
    <3> QED
      BY <1>0, <3>1, <3>2
  <2>2. age[e] <= cursor + Overlap
    BY <1>0 DEF SkipInv
  <2>3. ~(age'[e] > cursor' + Overlap)
    BY <1>0, <2>1, <2>2
  <2>4. CASE w = Closed
    BY <2>1, <2>3, <2>4 DEF Aged
  <2>5. CASE w # Closed
    <3>1. /\ Aged(w).end = w.end + 1 /\ Aged(w).to = w.to + 1 /\ Aged(w).from = Older(w.from)
      BY <1>w, <2>1, <2>5, AgedKeeps
    <3>2. age'[e] > w.end + 1 + Overlap => w.to < age[e] /\ age[e] <= w.from
      BY <1>0, <1>w, <2>1, <2>5 DEF SkipInv
    <3>3. upstream[e] > 0 /\ upstream[e] \in Nat
      BY <1>0 DEF BankInv
    <3>4. age'[e] = Older(age[e])
      BY <1>2, <3>3 DEF Tick
    <3>5. age[e] <= w.from => Older(age[e]) <= Older(w.from)
      BY <1>0, <1>w DEF Older, Lower
    <3>6. w.to < age[e] => w.to + 1 < Older(age[e])
      BY <1>0, <1>w, <2>1 DEF Older, Lower
    <3> QED
      BY <2>1, <2>3, <3>1, <3>2, <3>4, <3>5, <3>6
  <2> QED
    BY <2>4, <2>5
<1>3. ASSUME NEW kind \in Kind, OpenWindow(kind) PROVE SkipInv(e)'
  <2>1. /\ window' = [window EXCEPT ![kind] =
                         [from |-> Start(kind), end |-> End(kind), to |-> End(kind)]]
        /\ UNCHANGED <<age, punctual, recorded, cursor>>
    BY <1>3 DEF OpenWindow, bank, records, cursors
  <2>2. CASE kind = "poll"
    <3>1. window'["poll"] = [from |-> PollStart, end |-> End(kind), to |-> End(kind)]
      BY <1>0, <2>1, <2>2 DEF Start
    <3>2. /\ window'["poll"].from = PollStart /\ window'["poll"].end = End(kind)
          /\ window'["poll"].to = End(kind)
      BY <3>1
    <3>3. End(kind) \in Nat
      BY CursorFacts
    <3>4. e \in punctual /\ age[e] > PollStart => age[e] > cursor + Overlap
      BY <1>0 DEF PollStart, Lower, BankInv
    <3> QED
      BY <1>0, <2>1, <3>2, <3>3, <3>4 DEF SkipInv
  <2>3. CASE kind = "audit"
    <3>1. window'["poll"] = window["poll"]
      BY <1>0, <2>1, <2>3
    <3> QED
      BY <1>0, <2>1, <3>1 DEF SkipInv
  <2> QED
    BY <2>2, <2>3 DEF Kind
<1>4. ASSUME NEW kind \in Kind, ReadPage(kind) PROVE SkipInv(e)'
  <2>1. PICK reach \in (window[kind].to + 1)..window[kind].from :
            Record(Between(kind, reach)) /\ window' = [window EXCEPT ![kind].to = reach]
    BY <1>4 DEF ReadPage
  <2>2. UNCHANGED <<age, punctual, upstream, cursor>>
    BY <1>4 DEF ReadPage, bank, cursors
  <2>3. Between(kind, reach) \in SUBSET Expense
    BY DEF Between
  <2>4. /\ recorded[e] > 0 => recorded'[e] > 0
        /\ e \in Between(kind, reach) => recorded'[e] > 0
    BY <2>1, <2>3, RecordKeeps DEF Between
  <2>5. CASE kind = "poll"
    <3>1. /\ window'["poll"] = [w EXCEPT !.to = reach]
      BY <1>0, <2>1, <2>5
    <3>2. window'["poll"].from = w.from /\ window'["poll"].end = w.end
          /\ window'["poll"].to = reach
      BY <1>w, <3>1 DEF Frozen
    <3>3. reach \in Nat /\ w.to < reach /\ reach <= w.from
      BY <1>w, <2>5
    <3>4. w # Closed
      BY <1>w, <3>3 DEF Closed
    <3>5. ASSUME e \in punctual, age[e] > w.end + Overlap, age[e] <= reach
          PROVE  recorded'[e] > 0
      <4>1. CASE age[e] <= w.to
        BY <2>4, <3>4, <3>5, <4>1 DEF SkipInv, FeedInv
      <4>2. CASE age[e] > w.to
        BY <1>0, <2>4, <2>5, <3>5, <4>2 DEF Between, BankInv
      <4> QED
        BY <1>0, <1>w, <4>1, <4>2
    <3>6. e \in punctual /\ age[e] > cursor + Overlap => recorded'[e] > 0
      BY <1>0, <2>4 DEF SkipInv
    <3>7. e \in punctual /\ age[e] > w.end + Overlap /\ age[e] > w.from => recorded'[e] > 0
      BY <1>0, <2>4, <3>4 DEF SkipInv
    <3> QED
      BY <2>2, <3>2, <3>5, <3>6, <3>7 DEF SkipInv
  <2>6. CASE kind = "audit"
    <3>1. window'["poll"] = window["poll"]
      BY <1>0, <2>1, <2>6
    <3> QED
      BY <1>0, <2>2, <2>4, <3>1 DEF SkipInv
  <2> QED
    BY <2>5, <2>6 DEF Kind
<1>5. ASSUME NEW kind \in Kind, CloseWindow(kind) PROVE SkipInv(e)'
  <2>1. /\ window' = [window EXCEPT ![kind] = Closed] /\ UNCHANGED <<age, punctual, recorded>>
        /\ window[kind] # Closed /\ window[kind].to = window[kind].from
    BY <1>5 DEF CloseWindow, Cleared, bank, records
  <2>2. CASE kind = "poll"
    <3>1. cursor' = w.end /\ window'["poll"] = Closed
      BY <1>0, <1>5, <2>1, <2>2 DEF CloseWindow
    <3>2. e \in punctual /\ age[e] > w.end + Overlap => recorded[e] > 0
      BY <1>0, <1>w, <2>1, <2>2 DEF SkipInv
    <3> QED
      BY <2>1, <3>1, <3>2 DEF SkipInv
  <2>3. CASE kind = "audit"
    <3>1. cursor' = cursor /\ window'["poll"] = window["poll"]
      BY <1>0, <1>5, <2>1, <2>3 DEF CloseWindow
    <3> QED
      BY <1>0, <2>1, <3>1 DEF SkipInv
  <2> QED
    BY <2>2, <2>3 DEF Kind
<1>6. CASE \/ \E kind \in Kind : PageFails(kind)
           \/ \E d \in Expense : Lookup(d)
  <2>1. recorded[e] > 0 => recorded'[e] > 0
    <3>1. Recording
      BY <1>6 DEF Recording
    <3> QED
      BY <3>1, RecordingRecords, RecordKeeps
  <2>2. UNCHANGED <<age, punctual, cursor, window>>
    BY <1>6 DEF PageFails, Lookup, bank, cursors
  <2> QED
    BY <1>0, <2>1, <2>2 DEF SkipInv
<1>7. CASE \/ \E d \in Expense : Edit(d) \/ LookupFails(d)
           \/ \E kind \in Kind : Skip(kind)
           \/ StartRun \/ EndRun \/ UNCHANGED vars
  <2>1. UNCHANGED <<age, punctual, recorded, cursor, window>>
    BY <1>7 DEF Edit, LookupFails, Skip, StartRun, EndRun, vars, bank, records, cursors
  <2> QED
    BY <1>0, <2>1 DEF SkipInv
<1> QED
  BY <1>1, <1>2, <1>3, <1>4, <1>5, <1>6, <1>7, Zenon DEF Next, RunStep, Kind

-----------------------------------------------------------------------------

LEMMA InitFeed == Init => FeedInv
<1> SUFFICES ASSUME Init PROVE FeedInv
  OBVIOUS
<1>1. FeedTyped
  BY Numbers DEF Init, FeedTyped
<1>2. SeenOrder
  BY DEF Init, SeenOrder
<1>3. WindowInv
  <2>1. Closed \in Frozen /\ Closed.from = 0 /\ Closed.end = 0 /\ Closed.to = 0
    BY DEF Closed, Frozen
  <2>2. window \in [Kind -> Frozen] /\ \A kind \in Kind : window[kind] = Closed
    BY <2>1 DEF Init, Kind
  <2> QED
    BY <2>1, <2>2, Numbers DEF WindowInv, Kind
<1>4. \A e \in Expense : BankInv(e) /\ SkipInv(e)
  BY DEF Init, BankInv, SkipInv
<1> QED
  BY <1>1, <1>2, <1>3, <1>4 DEF FeedInv

\* The inductive invariant of the expense feed: cursor, frozen window and what lies
\* between them agree with what is recorded.
THEOREM FeedInvariant == Spec => []FeedInv
<1>1. Init => FeedInv
  BY InitFeed
<1>2. FeedInv /\ [Next]_vars => FeedInv'
  BY StepTyped, StepSeen, StepWindow, StepBank, StepSkip DEF FeedInv
<1> QED
  BY <1>1, <1>2, PTL DEF Spec

\* expense_window: what the bank lists within the overlap is recorded before the poll
\* ceases to look back at it, for any windows, ages and faults; and windows keep their
\* shape.
THEOREM EveryExpenseRead == Spec => []NoExpenseSkipped
<1>1. FeedInv => TypeOK
  BY DEF FeedInv, FeedTyped, SeenOrder, WindowInv, Kind, TypeOK
<1>2. FeedInv => \A e \in punctual : age[e] > cursor + Overlap => recorded[e] > 0
  BY DEF FeedInv, FeedTyped, SkipInv
<1>3. FeedInv => NoExpenseSkipped
  BY <1>1, <1>2 DEF NoExpenseSkipped
<1> QED
  BY <1>3, FeedInvariant, PTL

-----------------------------------------------------------------------------
(* Evidence: snapshots and the daily phases *)

\* What the list may say of an account.
State == {"active", "inactive", "absent"}

\* What a run keeps of itself.
Field == {"phase", "on", "todo", "known", "list"}

\* The shape of a run: what its items are does not matter.
RunShape ==
    /\ DOMAIN run = Field
    /\ run.phase \in 0..5 /\ run.on \in BOOLEAN /\ run.known \in BOOLEAN
    /\ run.list \in [Account -> State]
    /\ run.todo # <<>> => run.on
    /\ run.on => Phase \in Task

\* The shape of the rest.
EvidenceTyped ==
    /\ remote \in [Account -> State] /\ listed \in [Account -> State]
    /\ shown \in [Account -> {"none", "active", "inactive", "missing"}]
    /\ record \in [Item -> {"none", "old", "current"}]
    /\ due \in [Task -> BOOLEAN]
    /\ failures \in 0..MaxFailures

\* The fingerprint is that of what is shown, and so an upsert that is no write
\* leaves what the list says.
PrintInv ==
    /\ print = shown
    /\ \A a \in Account :
          /\ listed[a] # "absent" => shown[a] = listed[a]
          /\ listed[a] = "absent" => shown[a] \in {"none", "missing"}

EvidenceInv == RunShape /\ EvidenceTyped /\ PrintInv

LEMMA NoRunShape ==
    /\ DOMAIN NoRun = Field
    /\ NoRun.phase = 0 /\ ~NoRun.on /\ NoRun.todo = <<>>
    /\ NoRun.on \in BOOLEAN /\ NoRun.known \in BOOLEAN
    /\ NoRun.list \in [Account -> State]
  BY DEF NoRun, NoList, State, Field

\* A phase that begins has items only if it is a daily one, and due.
LEMMA AfterShape ==
    ASSUME EvidenceInv, run' = NextPhase(run)
    PROVE  RunShape'
<1>0. Len(Phases) = 5
  BY DEF Phases
<1>1. CASE run' = NoRun
  BY <1>1, NoRunShape DEF RunShape
<1>2. CASE run' # NoRun
  <2> DEFINE next == Phases[run.phase + 1]
  <2>1. /\ run.phase # 5
        /\ run' = [run EXCEPT !.phase = run.phase + 1, !.on = On(next),
                               !.todo = Todo(next, run.list)]
    BY <1>0, <1>2 DEF NextPhase
  <2>2. /\ run.phase \in 0..4 /\ DOMAIN run = Field /\ run.known \in BOOLEAN
        /\ run.list \in [Account -> State]
    BY <2>1 DEF EvidenceInv, RunShape
  <2>3. /\ DOMAIN run' = Field /\ run'.phase = run.phase + 1 /\ run'.on = On(next)
        /\ run'.todo = Todo(next, run.list) /\ run'.known = run.known /\ run'.list = run.list
    BY <2>1, <2>2 DEF Field
  <2>4. Phase' = next
    BY <2>2, <2>3 DEF Phase
  <2>5. ~On(next) => Todo(next, run.list) = <<>>
    BY DEF Todo
  <2>6. On(next) \in BOOLEAN /\ (On(next) => next \in Task)
    BY DEF On, EvidenceInv, EvidenceTyped
  <2> HIDE DEF next
  <2> QED
    BY <2>2, <2>3, <2>4, <2>5, <2>6 DEF RunShape
<1> QED
  BY <1>1, <1>2

\* The steps of a run within a phase keep its shape as well.
LEMMA StepDaily == EvidenceInv /\ [EvidenceNext]_evidenceVars => RunShape'
<1> SUFFICES ASSUME EvidenceInv, [EvidenceNext]_evidenceVars PROVE RunShape'
  OBVIOUS
<1>0. RunShape /\ DOMAIN run = Field
  BY DEF EvidenceInv, RunShape
<1>1. CASE run' = NextPhase(run)
  BY <1>1, AfterShape
<1>2. CASE run' = NoRun
  BY <1>2, NoRunShape DEF RunShape
<1>3. CASE BeginRun
  <2>1. run' = [NoRun EXCEPT !.phase = 1]
    BY <1>3 DEF BeginRun
  <2>2. /\ DOMAIN run' = Field /\ run'.phase = 1
        /\ run'.on = NoRun.on /\ run'.known = NoRun.known
        /\ run'.todo = <<>> /\ run'.list = NoRun.list
    BY <2>1, NoRunShape DEF Field
  <2> QED
    BY <2>2, NoRunShape DEF RunShape
<1>4. CASE ReadAccounts
  <2>1. run' = [run EXCEPT !.known = TRUE, !.list = remote]
    BY <1>4 DEF ReadAccounts
  <2>2. /\ DOMAIN run' = Field /\ run'.phase = run.phase /\ run'.on = run.on /\ run'.known = TRUE
        /\ run'.todo = run.todo /\ run'.list = remote
    BY <1>0, <2>1 DEF Field
  <2>3. Phase' = Phase
    BY <2>2 DEF Phase
  <2> QED
    BY <1>0, <2>2, <2>3 DEF RunShape, EvidenceInv, EvidenceTyped
<1>5. CASE DoItem
  <2>1. run' = [run EXCEPT !.todo = Tail(run.todo)] /\ run.todo # <<>>
    BY <1>5 DEF DoItem
  <2>2. /\ DOMAIN run' = Field /\ run'.phase = run.phase /\ run'.on = run.on
        /\ run'.known = run.known /\ run'.list = run.list
    BY <1>0, <2>1 DEF Field
  <2>3. Phase' = Phase
    BY <2>2 DEF Phase
  <2> QED
    BY <1>0, <2>1, <2>2, <2>3 DEF RunShape
<1>6. CASE UNCHANGED run
  BY <1>0, <1>6 DEF RunShape, Phase
<1> QED
  BY <1>1, <1>2, <1>3, <1>4, <1>5, <1>6
  DEF EvidenceNext, Work, RecordAccounts, OtherPhase, EndDaily,
      PhaseFails, Failed, Die, NextDay, Change, evidenceVars

\* What is shown is what was listed: snapshots change together with their
\* fingerprints, and nowhere but where the list is recorded.
LEMMA StepEvidence ==
    ASSUME EvidenceInv, [EvidenceNext]_evidenceVars
    PROVE  EvidenceTyped' /\ PrintInv'
<1>0. EvidenceTyped /\ PrintInv /\ run.list \in [Account -> State] /\ MaxFailures \in Nat
  BY ItemAssumption DEF EvidenceInv, RunShape
<1>1. ASSUME NEW a \in Account, Change(a) PROVE EvidenceTyped' /\ PrintInv'
  <2>1. remote' \in [Account -> State]
    <3>1. PICK s \in Upstream : remote' = [remote EXCEPT ![a] = s]
      BY <1>1 DEF Change
    <3>2. s \in State
      BY ItemAssumption DEF State
    <3> QED
      BY <1>0, <3>1, <3>2 DEF EvidenceTyped
  <2> QED
    BY <1>0, <1>1, <2>1 DEF Change, EvidenceTyped, PrintInv
<1>2. CASE NextDay
  <2>1. record' \in [Item -> {"none", "old", "current"}] /\ due' \in [Task -> BOOLEAN]
    BY <1>0, <1>2 DEF NextDay, EvidenceTyped
  <2> QED
    BY <1>0, <1>2, <2>1 DEF NextDay, EvidenceTyped, PrintInv
<1>3. CASE RecordAccounts
  <2>1. UNCHANGED <<remote, record, due, failures>> /\ listed' = run.list
    BY <1>3 DEF RecordAccounts
  <2>2. \A a \in Account :
           shown'[a] = IF run.list[a] # "absent" THEN run.list[a] ELSE MissingPrint(a)
    BY <1>0, <1>3 DEF RecordAccounts, PrintInv, MissingPrint
  <2>3. \A a \in Account :
           /\ print[a] \in {"none", "active", "inactive", "missing"}
           /\ MissingPrint(a) \in {"none", "missing"}
           /\ run.list[a] \in State
    BY <1>0 DEF EvidenceTyped, PrintInv, MissingPrint
  <2>4. /\ shown' = [a \in Account |->
              IF run.list[a] # "absent" THEN run.list[a] ELSE MissingPrint(a)]
        /\ print' = [a \in Account |->
              IF run.list[a] # "absent" THEN run.list[a] ELSE MissingPrint(a)]
    BY <1>0, <1>3 DEF RecordAccounts, PrintInv, MissingPrint
  <2>5. print' = shown'
    BY <2>4
  <2>6. shown' \in [Account -> {"none", "active", "inactive", "missing"}]
    BY <2>3, <2>4 DEF State
  <2> QED
    BY <1>0, <2>1, <2>2, <2>3, <2>5, <2>6 DEF EvidenceTyped, PrintInv
<1>4. CASE DoItem
  <2>1. record' \in [Item -> {"none", "old", "current"}]
    BY <1>0, <1>4 DEF DoItem, EvidenceTyped
  <2> QED
    BY <1>0, <1>4, <2>1 DEF DoItem, EvidenceTyped, PrintInv
<1>5. CASE EndDaily
  <2>1. due' \in [Task -> BOOLEAN]
    BY <1>0, <1>5 DEF EndDaily, EvidenceTyped
  <2> QED
    BY <1>0, <1>5, <2>1 DEF EndDaily, EvidenceTyped, PrintInv
<1>6. CASE PhaseFails \/ Die
  <2>1. failures' \in 0..MaxFailures
    BY <1>0, <1>6 DEF PhaseFails, Die, Fault, EvidenceTyped
  <2> QED
    BY <1>0, <1>6, <2>1 DEF PhaseFails, Die, EvidenceTyped, PrintInv
<1>7. CASE BeginRun \/ ReadAccounts \/ OtherPhase \/ UNCHANGED evidenceVars
  BY <1>0, <1>7
  DEF BeginRun, ReadAccounts, OtherPhase, evidenceVars, EvidenceTyped, PrintInv
<1> QED
  BY <1>1, <1>2, <1>3, <1>4, <1>5, <1>6, <1>7 DEF EvidenceNext, Work

LEMMA InitEvidence == ASSUME EvidenceInit PROVE EvidenceInv
<1>1. RunShape
  BY NoRunShape DEF EvidenceInit, RunShape
<1>2. EvidenceTyped
  BY ItemAssumption DEF EvidenceInit, EvidenceTyped, NoList, State
<1>3. PrintInv
  BY DEF EvidenceInit, PrintInv, NoList
<1> QED
  BY <1>1, <1>2, <1>3 DEF EvidenceInv

\* account_snapshots: a snapshot says what the last recorded list said of the account,
\* whatever failed in between, and also after the account was missing for a while.
THEOREM SnapshotsAgree == EvidenceSpec => []SnapshotsTell
<1>1. EvidenceInit => EvidenceInv
  BY InitEvidence
<1>2. EvidenceInv /\ [EvidenceNext]_evidenceVars => EvidenceInv'
  BY StepDaily, StepEvidence DEF EvidenceInv
<1>3. EvidenceInv => SnapshotsTell
  <2>1. Len(Phases) = 5
    BY DEF Phases
  <2> QED
    BY <2>1
    DEF EvidenceInv, RunShape, EvidenceTyped, PrintInv, SnapshotsTell, EvidenceTypeOK, State
<1> QED
  BY <1>1, <1>2, <1>3, PTL DEF EvidenceSpec
=============================================================================
