-------------------------- MODULE LifecycleProofs --------------------------
(***************************************************************************)
(* An accepted backfill is kept, and maps are stable under a run, for any  *)
(* number of requests, ranges, windows and edits, unless a request was not *)
(* committed when the other looked.                                        *)
(***************************************************************************)
EXTENDS Lifecycle, FiniteSetTheorems, TLAPS

Local == [kind : {"none", "backfill", "pause", "map"},
          step : {"idle", "checked", "written"},
          range : BackfillRange \cup {"none"}]

Backfills == {None} \cup [range : BackfillRange, left : 1..Windows]

RunType == [step : {"none", "begin", "work", "end"}, backfill : Backfills, maps : 0..MaxEdits]

MapEdits == {r \in Request : req[r].kind = "map"}

\* Requests keep their shape, and a backfill that is asked for has its range.
RequestInv ==
    /\ req \in [Request -> Local]
    /\ \A r \in Request : req[r].kind = "backfill" => req[r].range \in BackfillRange

\* The lock and the row belong to requests that are at work, or to the run.
OwnerInv ==
    /\ lock \in Request \cup {"free", "run"} /\ writer \in Request \cup {"none"}
    /\ lock \in Request => req[lock].step = "checked" /\ req[lock].kind \in {"backfill", "pause"}
    /\ writer \in Request =>
          req[writer].step = "written" /\ req[writer].kind \in {"backfill", "pause"}
    /\ (lock = "run") = (run # NoRun)
    /\ (run = NoRun) = (run.step = "none")

\* Map edits are bounded.
EditInv ==
    /\ IsFiniteSet(MapEdits)
    /\ maps \in Nat /\ maps + Cardinality(MapEdits) <= MaxEdits

ShapeInv ==
    /\ enabled \in BOOLEAN /\ backfill \in Backfills /\ run \in RunType
    /\ accepted \subseteq BackfillRange /\ imported \in [BackfillRange -> SUBSET (1..Windows)]
    /\ crossed \subseteq {"backfill", "maps"}

\* One backfill is asked for at a time, when none is under way, and a run that is
\* about to import a window has the backfill as it is.
BackfillInv ==
    "backfill" \notin crossed =>
        /\ \A q, r \in Request : req[q].kind = "backfill" /\ req[r].kind = "backfill" => q = r
        /\ Underway("backfill") => backfill = None
        /\ run.step \in {"begin", "work"} /\ run.backfill # None => backfill = run.backfill

\* What is imported of each range.
RangeInv ==
    "backfill" \notin crossed =>
        /\ backfill # None => (backfill.left + 1)..Windows \subseteq imported[backfill.range]
        /\ \A b \in accepted :
              imported[b] = 1..Windows \/ (backfill # None /\ backfill.range = b)

\* No map is about to be saved under a run.
MapInv ==
    "maps" \notin crossed =>
        /\ run # NoRun =>
              \A r \in Request : ~(req[r].kind = "map" /\ req[r].step = "written")
        /\ run.step \in {"work", "end"} => run.maps = maps

IInv ==
    RequestInv /\ OwnerInv /\ EditInv /\ ShapeInv /\ BackfillInv /\ RangeInv /\ MapInv

LEMMA IdleType == /\ Idle \in Local /\ Idle.kind = "none" /\ Idle.step = "idle"
                  /\ Idle.range = "none"
  BY DEF Idle, Local

LEMMA NoneType == None \in Backfills /\ \A c \in Backfills : c # None =>
                      c.range \in BackfillRange /\ c.left \in 1..Windows
  BY DEF None, Backfills

LEMMA NoRunType == /\ NoRun \in RunType /\ NoRun.step = "none" /\ NoRun.backfill = None
                   /\ NoRun.maps = 0
  BY NoneType, NumberAssumption DEF NoRun, RunType

\* One request moves, the others stay.
LEMMA Moved ==
    ASSUME RequestInv, NEW r \in Request, NEW c \in Local, req' = [req EXCEPT ![r] = c],
           c.kind = "backfill" => c.range \in BackfillRange
    PROVE  /\ RequestInv' /\ req'[r] = c /\ \A q \in Request \ {r} : req'[q] = req[q]
  BY DEF RequestInv

\* The request that a step leads to.
LEMMA MovedStep ==
    ASSUME RequestInv, NEW r \in Request, NEW s \in {"checked", "written"},
           req' = [req EXCEPT ![r].step = s]
    PROVE  /\ RequestInv' /\ \A q \in Request \ {r} : req'[q] = req[q]
           /\ req'[r].kind = req[r].kind /\ req'[r].range = req[r].range /\ req'[r].step = s
<1> DEFINE c == [req[r] EXCEPT !.step = s]
<1>1. req[r] \in Local
  BY DEF RequestInv
<1>2. c \in Local /\ c.kind = req[r].kind /\ c.range = req[r].range /\ c.step = s
  BY <1>1 DEF Local
<1>3. req' = [req EXCEPT ![r] = c]
  OBVIOUS
<1>4. c.kind = "backfill" => c.range \in BackfillRange
  BY <1>2 DEF RequestInv
<1> HIDE DEF c
<1> QED
  BY <1>2, <1>3, <1>4, Moved

\* A step that edits no map keeps to the bound.
LEMMA EditsStay ==
    ASSUME EditInv, maps' = maps,
           \A q \in Request : req'[q].kind = "map" => req[q].kind = "map"
    PROVE  EditInv'
<1>1. MapEdits' \subseteq MapEdits
  BY DEF MapEdits
<1>2. IsFiniteSet(MapEdits') /\ Cardinality(MapEdits') <= Cardinality(MapEdits)
  BY <1>1, FS_Subset DEF EditInv
<1>3. Cardinality(MapEdits') \in Nat /\ Cardinality(MapEdits) \in Nat
  BY <1>2, FS_CardinalityType DEF EditInv
<1>4. IsFiniteSet(MapEdits)' /\ Cardinality(MapEdits)' = Cardinality(MapEdits')
  BY <1>2
<1> QED
  BY <1>2, <1>3, <1>4, NumberAssumption DEF EditInv

\* One more request edits a map.
LEMMA EditBegins ==
    ASSUME EditInv, NEW r \in Request, maps' = maps, maps + Cardinality(MapEdits) < MaxEdits,
           \A q \in Request \ {r} : req'[q].kind = req[q].kind
    PROVE  EditInv'
<1>1. MapEdits' \subseteq MapEdits \cup {r}
  BY DEF MapEdits
<1>2. /\ IsFiniteSet(MapEdits \cup {r})
      /\ Cardinality(MapEdits \cup {r}) <= Cardinality(MapEdits) + 1
      /\ Cardinality(MapEdits) \in Nat
  <2>1. IsFiniteSet(MapEdits) /\ Cardinality(MapEdits) \in Nat
    BY FS_CardinalityType DEF EditInv
  <2>2. /\ IsFiniteSet(MapEdits \cup {r})
        /\ Cardinality(MapEdits \cup {r}) \in {Cardinality(MapEdits), Cardinality(MapEdits) + 1}
    BY <2>1, FS_AddElement, Zenon
  <2> QED
    BY <2>1, <2>2
<1>3. /\ IsFiniteSet(MapEdits') /\ Cardinality(MapEdits') <= Cardinality(MapEdits \cup {r})
      /\ Cardinality(MapEdits') \in Nat /\ Cardinality(MapEdits \cup {r}) \in Nat
  BY <1>1, <1>2, FS_Subset, FS_CardinalityType
<1>4. IsFiniteSet(MapEdits)' /\ Cardinality(MapEdits)' = Cardinality(MapEdits')
  BY <1>3
<1> QED
  BY <1>2, <1>3, <1>4, NumberAssumption DEF EditInv

\* A map edit is over, and may count as one that was made.
LEMMA EditEnds ==
    ASSUME EditInv, NEW r \in Request, req[r].kind = "map", req'[r].kind # "map",
           maps' \in {maps, maps + 1},
           \A q \in Request \ {r} : req'[q].kind = req[q].kind
    PROVE  EditInv'
<1>1. MapEdits' = MapEdits \ {r} /\ r \in MapEdits
  BY DEF MapEdits
<1>2. /\ IsFiniteSet(MapEdits') /\ Cardinality(MapEdits') = Cardinality(MapEdits) - 1
      /\ Cardinality(MapEdits) \in Nat
  BY <1>1, FS_RemoveElement, FS_CardinalityType DEF EditInv
<1>3. IsFiniteSet(MapEdits)' /\ Cardinality(MapEdits)' = Cardinality(MapEdits')
  BY <1>2
<1> QED
  BY <1>2, <1>3, NumberAssumption DEF EditInv

\* A step that asks for no backfill and imports none leaves what they say.
LEMMA BackfillStays ==
    ASSUME BackfillInv, RangeInv, UNCHANGED <<backfill, accepted, imported>>,
           "backfill" \in crossed => "backfill" \in crossed',
           \A q \in Request : req'[q].kind = "backfill" => req[q].kind = "backfill",
           run'.step \in {"begin", "work"} /\ run'.backfill # None =>
               \/ run.step \in {"begin", "work"} /\ run'.backfill = run.backfill
               \/ run'.backfill = backfill
    PROVE  BackfillInv' /\ RangeInv'
<1>1. RangeInv'
  BY DEF RangeInv
<1>2. CASE "backfill" \in crossed'
  BY <1>1, <1>2 DEF BackfillInv
<1>3. CASE "backfill" \notin crossed'
  <2>1. "backfill" \notin crossed
    BY <1>3
  <2>2. Underway("backfill")' => Underway("backfill")
    BY DEF Underway
  <2>3. /\ \A q, r \in Request : req'[q].kind = "backfill" /\ req'[r].kind = "backfill" => q = r
        /\ Underway("backfill")' => backfill' = None
        /\ run'.step \in {"begin", "work"} /\ run'.backfill # None => backfill' = run'.backfill
    BY <2>1, <2>2 DEF BackfillInv
  <2> QED
    BY <1>1, <2>3 DEF BackfillInv
<1> QED
  BY <1>2, <1>3

\* A step that saves no map, under a run that goes on or ends.
LEMMA MapStays ==
    ASSUME MapInv, maps' = maps, "maps" \in crossed => "maps" \in crossed',
           run' # NoRun => run # NoRun,
           run'.step \in {"work", "end"} =>
               run'.maps = maps \/ (run.step \in {"work", "end"} /\ run'.maps = run.maps),
           \A q \in Request : run' # NoRun /\ req'[q].kind = "map" /\ req'[q].step = "written" =>
                                  req[q].kind = "map" /\ req[q].step = "written"
    PROVE  MapInv'
  BY DEF MapInv

-----------------------------------------------------------------------------
(* Requests *)

LEMMA InitHolds == Init => IInv
<1> SUFFICES ASSUME Init PROVE IInv
  OBVIOUS
<1>1. \A r \in Request : req[r] = Idle
  BY DEF Init
<1>2. RequestInv
  BY <1>1, IdleType DEF Init, RequestInv
<1>3. OwnerInv
  BY NoRunType, RequestAssumption DEF Init, OwnerInv
<1>4. EditInv
  <2>1. MapEdits = {}
    BY <1>1, IdleType DEF MapEdits
  <2> QED
    BY <2>1, FS_EmptySet, NumberAssumption DEF Init, EditInv
<1>5. ShapeInv
  <2>1. backfill \in Backfills /\ run \in RunType
    BY NoneType, NoRunType DEF Init
  <2>2. imported \in [BackfillRange -> SUBSET (1..Windows)]
    <3>1. imported = [b \in BackfillRange |-> {}]
      BY DEF Init
    <3> QED
      BY <3>1
  <2>3. /\ enabled \in BOOLEAN /\ accepted \subseteq BackfillRange
        /\ crossed \subseteq {"backfill", "maps"}
    BY DEF Init
  <2> QED
    BY <2>1, <2>2, <2>3 DEF ShapeInv
<1>6. BackfillInv
  BY <1>1, IdleType, NoRunType DEF Init, BackfillInv
<1>7. RangeInv
  BY DEF Init, RangeInv
<1>8. MapInv
  BY NoRunType DEF Init, MapInv
<1> QED
  BY <1>2, <1>3, <1>4, <1>5, <1>6, <1>7, <1>8 DEF IInv

LEMMA EnterHolds ==
    ASSUME IInv, NEW r \in Request,
           Pause(r) \/ \E b \in BackfillRange : StartBackfill(r, b)
    PROVE  IInv'
<1>1. /\ req[r] = Idle /\ lock = "free" /\ lock' = r
      /\ UNCHANGED <<enabled, backfill, maps, writer, run, accepted, imported>>
  BY DEF Pause, StartBackfill, Enter, Free
<1>2. PICK c \in Local :
          /\ req' = [req EXCEPT ![r] = c] /\ c.step = "checked"
          /\ c.kind \in {"backfill", "pause"}
          /\ c.kind = "backfill" =>
                c.range \in BackfillRange /\ backfill = None /\ Crossed("backfill", "backfill")
          /\ c.kind = "pause" => crossed' = crossed
  <2>1. CASE Pause(r)
    <3> DEFINE c == [kind |-> "pause", step |-> "checked", range |-> "none"]
    <3>1. c \in Local
      BY DEF Local
    <3> QED
      BY <2>1, <3>1 DEF Pause, Enter
  <2>2. ASSUME NEW b \in BackfillRange, StartBackfill(r, b)
        PROVE  \E c \in Local :
          /\ req' = [req EXCEPT ![r] = c] /\ c.step = "checked"
          /\ c.kind \in {"backfill", "pause"}
          /\ c.kind = "backfill" =>
                c.range \in BackfillRange /\ backfill = None /\ Crossed("backfill", "backfill")
          /\ c.kind = "pause" => crossed' = crossed
    <3> DEFINE c == [kind |-> "backfill", step |-> "checked", range |-> b]
    <3>1. c \in Local
      BY DEF Local
    <3> QED
      BY <2>2, <3>1 DEF StartBackfill, Enter, MayBackfill
  <2> QED
    BY <2>1, <2>2
<1>3. /\ RequestInv' /\ req'[r] = c /\ \A q \in Request \ {r} : req'[q] = req[q]
  BY <1>2, Moved DEF IInv
<1>4. OwnerInv'
  BY <1>1, <1>2, <1>3, IdleType, RequestAssumption DEF IInv, OwnerInv
<1>5. EditInv'
  BY <1>1, <1>2, <1>3, EditsStay DEF IInv
<1>6. ShapeInv'
  BY <1>1, <1>2 DEF IInv, ShapeInv, Crossed
<1>7. BackfillInv' /\ RangeInv'
  <2>1. CASE c.kind = "pause"
    BY <1>1, <1>2, <1>3, <2>1, BackfillStays DEF IInv
  <2>2. CASE c.kind = "backfill"
    <3>1. /\ "backfill" \notin crossed' => "backfill" \notin crossed
          /\ "backfill" \notin crossed' => \A q \in Request : req[q].kind # "backfill"
      BY <1>2, <2>2 DEF Crossed, Underway
    <3>2. "backfill" \notin crossed' =>
            \A q, p \in Request : req'[q].kind = "backfill" /\ req'[p].kind = "backfill" => q = p
      BY <1>3, <3>1
    <3>3. BackfillInv'
      BY <1>1, <1>2, <2>2, <3>1, <3>2 DEF IInv, BackfillInv
    <3>4. RangeInv'
      BY <1>1, <3>1 DEF IInv, RangeInv
    <3> QED
      BY <3>3, <3>4
  <2> QED
    BY <1>2, <2>1, <2>2
<1>8. MapInv'
  <2>1. run = NoRun
    BY <1>1, RequestAssumption DEF IInv, OwnerInv
  <2>2. run' = NoRun
    BY <1>1, <2>1
  <2> QED
    BY <2>2, NoRunType DEF MapInv
<1> QED
  BY <1>3, <1>4, <1>5, <1>6, <1>7, <1>8 DEF IInv

LEMMA WriteHolds ==
    ASSUME IInv, NEW r \in Request, Write(r)
    PROVE  IInv'
<1>1. /\ req[r].step = "checked" /\ lock = r /\ writer' = r /\ lock' = "free"
      /\ req' = [req EXCEPT ![r].step = "written"]
      /\ UNCHANGED <<enabled, backfill, maps, run, accepted, imported, crossed>>
  BY DEF Write
<1>2. /\ RequestInv' /\ \A q \in Request \ {r} : req'[q] = req[q]
      /\ req'[r].kind = req[r].kind /\ req'[r].range = req[r].range /\ req'[r].step = "written"
  BY <1>1, MovedStep DEF IInv
<1>3. req[r].kind \in {"backfill", "pause"} /\ run = NoRun
  BY <1>1, RequestAssumption DEF IInv, OwnerInv
<1>4. OwnerInv'
  BY <1>1, <1>2, <1>3, RequestAssumption DEF IInv, OwnerInv
<1>5. EditInv'
  BY <1>1, <1>2, EditsStay DEF IInv
<1>6. ShapeInv'
  BY <1>1 DEF IInv, ShapeInv
<1>7. BackfillInv' /\ RangeInv'
  BY <1>1, <1>2, BackfillStays DEF IInv
<1>8. MapInv'
  BY <1>1, <1>3, NoRunType DEF MapInv
<1> QED
  BY <1>2, <1>4, <1>5, <1>6, <1>7, <1>8 DEF IInv

LEMMA CommitHolds ==
    ASSUME IInv, NEW r \in Request, Commit(r)
    PROVE  IInv'
<1>1. /\ req[r].step = "written" /\ req[r].kind \in {"backfill", "pause"}
      /\ writer' = "none" /\ req' = [req EXCEPT ![r] = Idle]
      /\ UNCHANGED <<maps, lock, run, imported, crossed>>
  BY DEF Commit
<1>2. /\ RequestInv' /\ req'[r] = Idle /\ \A q \in Request \ {r} : req'[q] = req[q]
  BY <1>1, Moved, IdleType DEF IInv
<1>3. OwnerInv'
  BY <1>1, <1>2, RequestAssumption DEF IInv, OwnerInv
<1>4. EditInv'
  BY <1>1, <1>2, IdleType, EditsStay DEF IInv
<1>5. MapInv'
  BY <1>1, <1>2, IdleType, MapStays DEF IInv
<1>6. CASE req[r].kind = "pause"
  <2>1. enabled' = FALSE /\ UNCHANGED <<backfill, accepted>>
    BY <1>6 DEF Commit
  <2>2. ShapeInv'
    BY <1>1, <2>1 DEF IInv, ShapeInv
  <2>3. BackfillInv' /\ RangeInv'
    BY <1>1, <1>2, <2>1, IdleType, BackfillStays DEF IInv
  <2> QED
    BY <1>2, <1>3, <1>4, <1>5, <2>2, <2>3 DEF IInv
<1>7. CASE req[r].kind = "backfill"
  <2> DEFINE b == req[r].range
  <2>1. /\ backfill' = [range |-> b, left |-> Windows] /\ b \in BackfillRange
        /\ accepted' = accepted \cup {b} /\ enabled' = enabled
    BY <1>7 DEF Commit, IInv, RequestInv
  <2> HIDE DEF b
  <2>2. backfill' \in Backfills /\ backfill'.range = b /\ backfill'.left = Windows
    BY <2>1, NumberAssumption DEF Backfills
  <2>3. ShapeInv'
    BY <1>1, <2>1, <2>2 DEF IInv, ShapeInv
  <2>4. BackfillInv' /\ RangeInv'
    <3>1. CASE "backfill" \in crossed
      BY <1>1, <3>1 DEF BackfillInv, RangeInv
    <3>2. CASE "backfill" \notin crossed
      <4>1. /\ backfill = None /\ \A q \in Request \ {r} : req[q].kind # "backfill"
            /\ run.step \in {"begin", "work"} => run.backfill = None
        BY <1>7, <3>2 DEF IInv, BackfillInv, Underway
      <4>2. \A q \in Request : req'[q].kind # "backfill"
        BY <1>2, <4>1, IdleType
      <4>3. BackfillInv'
        BY <1>1, <4>1, <4>2 DEF BackfillInv, Underway
      <4>4. backfill' # None
        BY <2>2, NumberAssumption DEF None
      <4>5. (Windows + 1)..Windows = {}
        BY NumberAssumption
      <4>6. RangeInv'
        BY <1>1, <2>1, <2>2, <3>2, <4>1, <4>4, <4>5 DEF IInv, RangeInv
      <4> QED
        BY <4>3, <4>6
    <3> QED
      BY <3>1, <3>2
  <2> QED
    BY <1>2, <1>3, <1>4, <1>5, <2>3, <2>4 DEF IInv
<1> QED
  BY <1>1, <1>6, <1>7

LEMMA ActivateHolds ==
    ASSUME IInv, Activate
    PROVE  IInv'
<1>1. /\ enabled' = TRUE
      /\ UNCHANGED <<backfill, maps, req, lock, writer, run, accepted, imported, crossed>>
  BY DEF Activate
<1>2. RequestInv' /\ OwnerInv' /\ ShapeInv'
  BY <1>1 DEF IInv, RequestInv, OwnerInv, ShapeInv
<1>3. EditInv'
  BY <1>1, EditsStay DEF IInv
<1>4. BackfillInv' /\ RangeInv' /\ MapInv'
  BY <1>1, BackfillStays, MapStays DEF IInv
<1> QED
  BY <1>2, <1>3, <1>4 DEF IInv

LEMMA CheckMapHolds ==
    ASSUME IInv, NEW r \in Request, CheckMap(r)
    PROVE  IInv'
<1> DEFINE c == [kind |-> "map", step |-> "checked", range |-> "none"]
<1>1. /\ req[r] = Idle /\ req' = [req EXCEPT ![r] = c]
      /\ maps + Cardinality(MapEdits) < MaxEdits
      /\ UNCHANGED <<enabled, backfill, maps, lock, writer, run, accepted, imported, crossed>>
  BY DEF CheckMap, MapEdits
<1>2. c \in Local /\ c.kind = "map" /\ c.step = "checked"
  BY DEF Local
<1> HIDE DEF c
<1>3. /\ RequestInv' /\ req'[r] = c /\ \A q \in Request \ {r} : req'[q] = req[q]
  BY <1>1, <1>2, Moved DEF IInv
<1>4. OwnerInv'
  BY <1>1, <1>3, IdleType DEF IInv, OwnerInv
<1>5. EditInv'
  BY <1>1, <1>3, EditBegins DEF IInv
<1>6. ShapeInv'
  BY <1>1 DEF IInv, ShapeInv
<1>7. BackfillInv' /\ RangeInv' /\ MapInv'
  BY <1>1, <1>2, <1>3, BackfillStays, MapStays DEF IInv
<1> QED
  BY <1>3, <1>4, <1>5, <1>6, <1>7 DEF IInv

LEMMA CheckLockHolds ==
    ASSUME IInv, NEW r \in Request, CheckLock(r)
    PROVE  IInv'
<1>1. /\ req[r].kind = "map" /\ lock = "free" /\ req' = [req EXCEPT ![r].step = "written"]
      /\ UNCHANGED <<enabled, backfill, maps, lock, writer, run, accepted, imported, crossed>>
  BY DEF CheckLock, Free
<1>2. /\ RequestInv' /\ \A q \in Request \ {r} : req'[q] = req[q]
      /\ req'[r].kind = req[r].kind /\ req'[r].range = req[r].range /\ req'[r].step = "written"
  BY <1>1, MovedStep DEF IInv
<1>3. OwnerInv'
  BY <1>1, <1>2, RequestAssumption DEF IInv, OwnerInv
<1>4. EditInv'
  BY <1>1, <1>2, EditsStay DEF IInv
<1>5. ShapeInv'
  BY <1>1 DEF IInv, ShapeInv
<1>6. BackfillInv' /\ RangeInv'
  BY <1>1, <1>2, BackfillStays DEF IInv
<1>7. MapInv'
  <2>1. run = NoRun
    BY <1>1, RequestAssumption DEF IInv, OwnerInv
  <2> QED
    BY <1>1, <2>1, NoRunType DEF MapInv
<1> QED
  BY <1>2, <1>3, <1>4, <1>5, <1>6, <1>7 DEF IInv

LEMMA CommitMapHolds ==
    ASSUME IInv, NEW r \in Request, CommitMap(r)
    PROVE  IInv'
<1>1. /\ req[r].kind = "map" /\ req[r].step = "written" /\ maps' = maps + 1
      /\ req' = [req EXCEPT ![r] = Idle]
      /\ UNCHANGED <<enabled, backfill, lock, writer, run, accepted, imported, crossed>>
  BY DEF CommitMap
<1>2. /\ RequestInv' /\ req'[r] = Idle /\ \A q \in Request \ {r} : req'[q] = req[q]
  BY <1>1, Moved, IdleType DEF IInv
<1>3. OwnerInv'
  BY <1>1, <1>2, RequestAssumption DEF IInv, OwnerInv
<1>4. EditInv'
  BY <1>1, <1>2, IdleType, EditEnds DEF IInv
<1>5. ShapeInv'
  BY <1>1 DEF IInv, ShapeInv
<1>6. BackfillInv' /\ RangeInv'
  BY <1>1, <1>2, IdleType, BackfillStays DEF IInv
<1>7. MapInv'
  <2>1. "maps" \notin crossed => run = NoRun
    BY <1>1 DEF IInv, MapInv
  <2> QED
    BY <1>1, <2>1, NoRunType DEF MapInv
<1> QED
  BY <1>2, <1>3, <1>4, <1>5, <1>6, <1>7 DEF IInv

LEMMA AbortHolds ==
    ASSUME IInv, NEW r \in Request, Abort(r)
    PROVE  IInv'
<1>1. /\ req' = [req EXCEPT ![r] = Idle]
      /\ lock' = IF lock = r THEN "free" ELSE lock
      /\ writer' = IF writer = r THEN "none" ELSE writer
      /\ UNCHANGED <<enabled, backfill, maps, run, accepted, imported, crossed>>
  BY DEF Abort
<1>2. /\ RequestInv' /\ req'[r] = Idle /\ \A q \in Request \ {r} : req'[q] = req[q]
  BY <1>1, Moved, IdleType DEF IInv
<1>3. OwnerInv'
  BY <1>1, <1>2, RequestAssumption DEF IInv, OwnerInv
<1>4. EditInv'
  BY <1>1, <1>2, IdleType, EditsStay DEF IInv
<1>5. ShapeInv'
  BY <1>1 DEF IInv, ShapeInv
<1>6. BackfillInv' /\ RangeInv' /\ MapInv'
  BY <1>1, <1>2, IdleType, BackfillStays, MapStays DEF IInv
<1> QED
  BY <1>2, <1>3, <1>4, <1>5, <1>6 DEF IInv

-----------------------------------------------------------------------------
(* The job *)

LEMMA StartRunHolds ==
    ASSUME IInv, StartRun
    PROVE  IInv'
<1>1. /\ lock = "free" /\ lock' = "run" /\ Crossed("maps", "map")
      /\ run' = [step |-> "begin", backfill |-> backfill, maps |-> 0]
      /\ UNCHANGED <<enabled, backfill, maps, req, writer, accepted, imported>>
  BY DEF StartRun, Free
<1>2. /\ run' \in RunType /\ run'.step = "begin" /\ run'.backfill = backfill
  BY <1>1, NumberAssumption DEF IInv, ShapeInv, RunType
<1>3. run' # NoRun
  BY <1>2, NoRunType
<1>4. RequestInv'
  BY <1>1 DEF IInv, RequestInv
<1>5. OwnerInv'
  BY <1>1, <1>2, <1>3, RequestAssumption DEF IInv, OwnerInv
<1>6. EditInv'
  BY <1>1, EditsStay DEF IInv
<1>7. ShapeInv'
  BY <1>1, <1>2 DEF IInv, ShapeInv, Crossed
<1>8. BackfillInv' /\ RangeInv'
  <2>1. "backfill" \in crossed => "backfill" \in crossed'
    BY <1>1 DEF Crossed
  <2> QED
    BY <1>1, <1>2, <2>1, BackfillStays DEF IInv
<1>9. MapInv'
  BY <1>1, <1>2 DEF MapInv, Crossed, Underway
<1> QED
  BY <1>4, <1>5, <1>6, <1>7, <1>8, <1>9 DEF IInv

LEMMA ReadMapsHolds ==
    ASSUME IInv, ReadMaps
    PROVE  IInv'
<1>1. /\ run.step = "begin" /\ run' = [run EXCEPT !.step = "work", !.maps = maps]
      /\ UNCHANGED <<enabled, backfill, maps, req, lock, writer, accepted, imported, crossed>>
  BY DEF ReadMaps
<1>2. maps \in 0..MaxEdits
  <2>1. Cardinality(MapEdits) \in Nat
    BY FS_CardinalityType DEF IInv, EditInv
  <2> QED
    BY <2>1, NumberAssumption DEF IInv, EditInv
<1>3. /\ run' \in RunType /\ run'.step = "work" /\ run'.backfill = run.backfill
      /\ run'.maps = maps
  BY <1>1, <1>2 DEF IInv, ShapeInv, RunType
<1>4. run # NoRun /\ run' # NoRun
  BY <1>1, <1>3, NoRunType
<1>5. RequestInv' /\ OwnerInv'
  BY <1>1, <1>3, <1>4 DEF IInv, RequestInv, OwnerInv
<1>6. EditInv'
  BY <1>1, EditsStay DEF IInv
<1>7. ShapeInv'
  BY <1>1, <1>3 DEF IInv, ShapeInv
<1>8. BackfillInv' /\ RangeInv' /\ MapInv'
  BY <1>1, <1>3, <1>4, BackfillStays, MapStays DEF IInv
<1> QED
  BY <1>5, <1>6, <1>7, <1>8 DEF IInv

LEMMA EndRunHolds ==
    ASSUME IInv, EndRun
    PROVE  IInv'
<1>1. /\ run.step \in {"work", "end"} /\ run' = NoRun /\ lock' = "free"
      /\ UNCHANGED <<enabled, backfill, maps, req, writer, accepted, imported, crossed>>
  BY DEF EndRun
<1>2. RequestInv' /\ OwnerInv'
  BY <1>1, NoRunType, RequestAssumption DEF IInv, RequestInv, OwnerInv
<1>3. EditInv'
  BY <1>1, EditsStay DEF IInv
<1>4. ShapeInv'
  BY <1>1, NoRunType DEF IInv, ShapeInv
<1>5. BackfillInv' /\ RangeInv' /\ MapInv'
  BY <1>1, NoRunType, BackfillStays, MapStays DEF IInv
<1> QED
  BY <1>2, <1>3, <1>4, <1>5 DEF IInv

LEMMA ImportWindowHolds ==
    ASSUME IInv, ImportWindow
    PROVE  IInv'
<1>1. /\ run.step = "work" /\ run' = [run EXCEPT !.step = "end"]
      /\ UNCHANGED <<enabled, maps, req, lock, writer, accepted, crossed>>
  BY DEF ImportWindow
<1>2. run \in RunType /\ run.backfill \in Backfills
  BY DEF IInv, ShapeInv, RunType
<1>3. /\ run' \in RunType /\ run'.step = "end" /\ run'.maps = run.maps
  BY <1>1, <1>2 DEF RunType
<1>4. run # NoRun /\ run' # NoRun
  BY <1>1, <1>3, NoRunType
<1>5. RequestInv' /\ OwnerInv'
  BY <1>1, <1>3, <1>4 DEF IInv, RequestInv, OwnerInv
<1>6. EditInv'
  BY <1>1, EditsStay DEF IInv
<1>7. MapInv'
  BY <1>1, <1>3, <1>4, MapStays DEF IInv
<1>8. CASE run.backfill = None
  <2>1. UNCHANGED <<backfill, imported, crossed>>
    BY <1>8 DEF ImportWindow
  <2>2. ShapeInv'
    BY <1>1, <1>3, <2>1 DEF IInv, ShapeInv
  <2>3. BackfillInv' /\ RangeInv'
    BY <1>1, <1>3, <2>1, BackfillStays DEF IInv
  <2> QED
    BY <1>5, <1>6, <1>7, <2>2, <2>3 DEF IInv
<1>9. CASE run.backfill # None
  <2> DEFINE c == run.backfill
  <2>1. /\ backfill' = Left /\ c \in Backfills /\ c # None
        /\ imported' = [imported EXCEPT ![c.range] = @ \cup {c.left}]
    BY <1>2, <1>9 DEF ImportWindow
  <2>2. /\ c \in [range : BackfillRange, left : 1..Windows]
        /\ c.range \in BackfillRange /\ c.left \in 1..Windows
    BY <2>1, NoneType DEF Backfills
  <2>3. \/ c.left = 1 /\ backfill' = None
        \/ /\ c.left # 1 /\ backfill' # None /\ backfill' \in Backfills
           /\ backfill'.range = c.range /\ backfill'.left = c.left - 1
    <3>1. CASE c.left = 1
      BY <2>1, <3>1 DEF Left
    <3>2. CASE c.left # 1
      <4>1. backfill' = [c EXCEPT !.left = @ - 1]
        BY <2>1, <3>2 DEF Left
      <4>2. /\ backfill' \in [range : BackfillRange, left : 1..Windows]
            /\ backfill'.range = c.range /\ backfill'.left = c.left - 1
        BY <2>2, <3>2, <4>1, NumberAssumption
      <4>3. backfill'.left # 0 /\ None.left = 0
        BY <4>2, NumberAssumption DEF None
      <4> QED
        BY <3>2, <4>2, <4>3 DEF Backfills
    <3> QED
      BY <3>1, <3>2
  <2> HIDE DEF c
  <2>4. imported'[c.range] = imported[c.range] \cup {c.left}
        /\ \A b \in BackfillRange : b # c.range => imported'[b] = imported[b]
    BY <2>1, <2>2 DEF IInv, ShapeInv
  <2>5. imported' \in [BackfillRange -> SUBSET (1..Windows)]
    BY <2>1, <2>2 DEF IInv, ShapeInv
  <2>6. ShapeInv'
    BY <1>1, <1>3, <2>3, <2>5, NoneType DEF IInv, ShapeInv
  <2>7. CASE "backfill" \in crossed
    BY <1>1, <1>5, <1>6, <1>7, <2>6, <2>7 DEF IInv, BackfillInv, RangeInv
  <2>8. CASE "backfill" \notin crossed
    <3>1. backfill = c /\ backfill # None /\ ~Underway("backfill")
      BY <1>1, <1>9, <2>8 DEF IInv, BackfillInv, c
    <3>2. BackfillInv'
      BY <1>1, <1>3, <2>8, <3>1 DEF IInv, BackfillInv, Underway
    <3>3. (c.left + 1)..Windows \subseteq imported[c.range]
      BY <2>8, <3>1 DEF IInv, RangeInv
    <3>4. c.left..Windows \subseteq imported'[c.range]
      BY <2>2, <2>4, <3>3, NumberAssumption
    <3>5. c.left = 1 => imported'[c.range] = 1..Windows
      BY <2>2, <2>5, <3>4
    <3>6. backfill' # None => (backfill'.left + 1)..Windows \subseteq imported'[backfill'.range]
      BY <2>2, <2>3, <3>4, NumberAssumption
    <3>7. ASSUME NEW b \in accepted'
          PROVE  imported'[b] = 1..Windows \/ (backfill' # None /\ backfill'.range = b)
      <4>1. b \in BackfillRange /\ b \in accepted
        BY <1>1 DEF IInv, ShapeInv
      <4>2. CASE b = c.range
        BY <2>3, <3>5, <4>2
      <4>3. CASE b # c.range
        BY <2>4, <2>8, <3>1, <4>1, <4>3 DEF IInv, RangeInv
      <4> QED
        BY <4>2, <4>3
    <3>8. RangeInv'
      BY <3>6, <3>7 DEF RangeInv
    <3> QED
      BY <1>5, <1>6, <1>7, <2>6, <3>2, <3>8 DEF IInv
  <2> QED
    BY <2>7, <2>8
<1> QED
  BY <1>8, <1>9

-----------------------------------------------------------------------------
(* Theorems *)

LEMMA StepHolds == IInv /\ [Next]_vars => IInv'
<1> SUFFICES ASSUME IInv, [Next]_vars PROVE IInv'
  OBVIOUS
<1>1. CASE \E r \in Request : Pause(r) \/ \E b \in BackfillRange : StartBackfill(r, b)
  BY <1>1, EnterHolds
<1>2. CASE \E r \in Request : Write(r) \/ Commit(r) \/ CheckMap(r) \/ CheckLock(r)
  BY <1>2, WriteHolds, CommitHolds, CheckMapHolds, CheckLockHolds
<1>3. CASE \E r \in Request : CommitMap(r) \/ Abort(r)
  BY <1>3, CommitMapHolds, AbortHolds
<1>4. CASE Activate \/ StartRun \/ ReadMaps \/ ImportWindow \/ EndRun
  BY <1>4, ActivateHolds, StartRunHolds, ReadMapsHolds, ImportWindowHolds, EndRunHolds
<1>5. CASE UNCHANGED vars
  <2>1. UNCHANGED <<enabled, backfill, maps, req, lock, writer, run, accepted, imported, crossed>>
    BY <1>5 DEF vars
  <2>2. RequestInv' /\ OwnerInv' /\ ShapeInv'
    BY <2>1 DEF IInv, RequestInv, OwnerInv, ShapeInv
  <2>3. EditInv'
    BY <2>1, EditsStay DEF IInv
  <2>4. BackfillInv' /\ RangeInv' /\ MapInv'
    BY <2>1, BackfillStays, MapStays DEF IInv
  <2> QED
    BY <2>2, <2>3, <2>4 DEF IInv
<1> QED
  <2>1. CASE Next
    BY <1>1, <1>2, <1>3, <1>4, <2>1, Zenon DEF Next
  <2> QED
    BY <1>5, <2>1

\* The inductive invariant of requests, the run and what they have in hand.
THEOREM LifecycleInvariant == Spec => []IInv
  BY InitHolds, StepHolds, PTL DEF Spec

\* A backfill that was accepted stays under way until all of it is imported.
THEOREM AcceptedBackfillKept == Spec => []BackfillKept
<1>1. IInv => BackfillKept
  <2> SUFFICES ASSUME IInv PROVE BackfillKept
    OBVIOUS
  <2>1. maps \in 0..MaxEdits
    <3>1. Cardinality(MapEdits) \in Nat
      BY FS_CardinalityType DEF IInv, EditInv
    <3> QED
      BY <3>1, NumberAssumption DEF IInv, EditInv
  <2>2. TypeOK
    BY <2>1 DEF IInv, RequestInv, OwnerInv, ShapeInv, TypeOK, Local, Backfills
  <2> QED
    BY <2>2 DEF IInv, RangeInv, BackfillKept
<1> QED
  BY <1>1, LifecycleInvariant, PTL

\* Maps do not change under a run that has read them, unless it began while one
\* was being saved.
THEOREM MapsKeepStill == Spec => []MapsStable
<1>1. IInv => MapsStable
  BY DEF IInv, MapInv, MapsStable
<1> QED
  BY <1>1, LifecycleInvariant, PTL
=============================================================================
