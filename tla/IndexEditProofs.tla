--------------------------- MODULE IndexEditProofs ---------------------------
(***************************************************************************)
(* Proofs about the index editor, for any collections, keys and options:   *)
(* a save keeps to its index, and it either replaces it or puts it back,   *)
(* whichever of its requests fail.                                         *)
(***************************************************************************)
EXTENDS IndexEdit, FiniteSetTheorems, TLAPS

(***************************************************************************)
(* The inductive invariant                                                 *)
(***************************************************************************)

SaveRecords ==
    [coll : IndexColls, new : Forms, editing : Keys \cup {NoIndex}, original : SUBSET Index,
     phase : {"drop", "create", "restore"}, why : {"none", "refused", "lost"},
     from : IndexColls \cup {NoIndex}, heard : BOOLEAN, alone : BOOLEAN, before : SUBSET Index]

\* The panel: nothing is edited in it but what it shows.
PanelInv ==
    /\ shown \in IndexColls \cup {NoIndex}
    /\ listed \subseteq {set \in SUBSET Index : IsIndexSet(set)}
    /\ listed # {} => shown # NoIndex
    /\ form \in Forms \cup {Blank}
    /\ form.key # NoIndex => shown # NoIndex
    /\ editing \in Keys \cup {NoIndex} /\ began \in IndexColls \cup {NoIndex}
    /\ editing # NoIndex => began = shown

BaseInv == indexes \in [IndexColls -> {set \in SUBSET Index : IsIndexSet(set)}]

\* A save edits an index of the collection it is of, and only drops to edit.
\* What it can restore is of that index.
SoundSave(s) ==
    /\ s \in SaveRecords
    /\ s.editing # NoIndex => s.from = s.coll
    /\ s.phase = "drop" => s.editing # NoIndex
    /\ s.phase = "restore" => s.editing # NoIndex
    /\ \A i \in s.original : i.key = s.editing
    /\ ~s.alone => s.before = {}

\* How far a save of which nobody changed anything has brought the indexes set.
Brought(s, set) ==
    /\ IsIndexSet(s.before)
    /\ s.original = {i \in s.before : i.key = s.editing}
    /\ s.phase = "drop" => set = s.before
    /\ s.phase = "create" => set = Without(s.before, s.editing)
    /\ s.phase = "restore" => Without(s.before, s.editing) \subseteq set

SavesInv ==
    /\ \A s, t \in save : s = t
    /\ \A s \in save : SoundSave(s)
    /\ \A s \in save : s.alone => Brought(s, indexes[s.coll])

IxInv == PanelInv /\ BaseInv /\ SavesInv

\* The start.
LEMMA IxInitially == IxInit => IxInv
<1> SUFFICES ASSUME IxInit PROVE IxInv
  OBVIOUS
<1>1. PanelInv
  BY IndexEditAssumption DEF IxInit, PanelInv, Blank
<1>2. BaseInv
  BY ForeignAssumption DEF IxInit, BaseInv
<1>3. SavesInv
  BY DEF IxInit, SavesInv
<1> QED BY <1>1, <1>2, <1>3 DEF IxInv

\* An index whose key and options a request for it has.
Known(i) == i.key \notin Odd /\ Carried[i.opt] = i.opt

\* What the form makes of an index is an index it knows, and the same one if it
\* was known before.
LEMMA ExpressedIndex ==
    ASSUME NEW i \in Index
    PROVE  /\ Expressed(i) \in Forms /\ Expressed(i) \in Index
           /\ Known(i) => Expressed(i) = i
BY IndexEditAssumption DEF Expressed, Index, Forms, Known

\* A form is an index to be.
LEMMA FormsAreIndexes == Forms \subseteq Index
BY IndexEditAssumption DEF Forms, Index

\* Taking an index away takes nothing else.
LEMMA WithoutKeeps ==
    ASSUME NEW set \in SUBSET Index, IsIndexSet(set), NEW key
    PROVE  /\ Without(set, key) \subseteq set /\ IsIndexSet(Without(set, key))
           /\ \A i \in set \ Without(set, key) : i.key = key
BY DEF Without, IsIndexSet

-----------------------------------------------------------------------------
(***************************************************************************)
(* The panel, and everyone else's changes                                  *)
(***************************************************************************)

\* Resetting the form.
LEMMA ResetKeeps ==
    ASSUME PanelInv, FormReset, shown' \in IndexColls \cup {NoIndex},
           listed' \subseteq {set \in SUBSET Index : IsIndexSet(set)},
           listed' # {} => shown' # NoIndex
    PROVE  PanelInv'
BY IndexEditAssumption DEF PanelInv, FormReset, Blank

\* A change of the indexes by anyone but the save.
LEMMA DisturbedSound ==
    ASSUME NEW s, SoundSave(s), NEW d, d = [s EXCEPT !.alone = FALSE, !.before = {}]
    PROVE  /\ SoundSave(d) /\ ~d.alone
           /\ ~s.alone => d = s
<1>1. s \in SaveRecords
  BY DEF SoundSave
<1>2. /\ d.editing = s.editing /\ d.from = s.from /\ d.coll = s.coll /\ d.phase = s.phase
      /\ d.original = s.original /\ d.alone = FALSE /\ d.before = {}
  BY <1>1 DEF SaveRecords
<1>3. d \in SaveRecords
  BY <1>1 DEF SaveRecords
<1>4. SoundSave(d)
  BY <1>2, <1>3 DEF SoundSave
<1>5. ASSUME ~s.alone PROVE d = s
  <2>1. s.alone = FALSE /\ s.before = {}
    BY <1>1, <1>5 DEF SoundSave, SaveRecords
  <2> QED BY <1>1, <2>1 DEF SaveRecords
<1> QED BY <1>2, <1>4, <1>5

\* It leaves the save under way, but nobody answers for the indexes any more.
LEMMA DisturbedKeeps ==
    ASSUME SavesInv, save' = Disturbed
    PROVE  /\ SavesInv'
           /\ \A s \in save : save' # save => \E t \in save' : t.alone # s.alone
           /\ \A s \in save : save' # {}
<1> DEFINE D(s) == [s EXCEPT !.alone = FALSE, !.before = {}]
<1>1. save' = {D(s) : s \in save}
  BY DEF Disturbed
<1>2. \A s \in save : SoundSave(D(s)) /\ ~D(s).alone /\ (~s.alone => D(s) = s)
  BY DisturbedSound DEF SavesInv
<1>3. \A s, t \in save : s = t
  BY DEF SavesInv
<1> HIDE DEF D
<1>4. \A t \in save' : SoundSave(t) /\ ~t.alone
  BY <1>1, <1>2
<1>5. \A s, t \in save' : s = t
  BY <1>1, <1>3
<1>6. SavesInv'
  BY <1>4, <1>5 DEF SavesInv
<1>7. ASSUME NEW s \in save PROVE /\ save' # {}
                                  /\ save' # save => \E t \in save' : t.alone # s.alone
  <2>1. save' = {D(s)} /\ save = {s}
    BY <1>1, <1>3
  <2>2. CASE s.alone
    BY <1>2, <2>1, <2>2
  <2>3. CASE ~s.alone
    BY <1>2, <2>1, <2>3
  <2> QED BY <2>1, <2>2, <2>3
<1> QED BY <1>6, <1>7

\* The list, the form and the collection shown.
LEMMA PanelSteps ==
    ASSUME IxInv, \/ ListIndexes \/ StartEdit \/ CancelEdit
                  \/ \E coll \in IndexColls : ShowCollection(coll)
                  \/ \E new \in Forms : TypeForm(new)
    PROVE  IxInv' /\ save' = save /\ indexes' = indexes
<1> USE DEF IxInv
<1>1. save' = save /\ indexes' = indexes
  BY DEF ListIndexes, StartEdit, CancelEdit, ShowCollection, TypeForm
<1>2. BaseInv' /\ SavesInv'
  BY <1>1 DEF BaseInv, SavesInv
<1>3. \A coll \in IndexColls : {indexes[coll]} \subseteq {set \in SUBSET Index : IsIndexSet(set)}
  BY DEF BaseInv
<1>4. CASE ListIndexes
  <2>1. shown \in IndexColls
    BY <1>4 DEF ListIndexes, PanelInv
  <2> QED BY <1>1, <1>2, <1>3, <1>4, <2>1 DEF ListIndexes, PanelInv
<1>5. CASE StartEdit
  <2>0. PICK set \in listed : \E i \in set : form' = Expressed(i) /\ editing' = i.key
    BY <1>5 DEF StartEdit
  <2>1. PICK i \in set : form' = Expressed(i) /\ editing' = i.key
    BY <2>0
  <2>2. i \in Index
    BY <2>0 DEF PanelInv
  <2>3. form' \in Forms /\ editing' \in Keys /\ shown # NoIndex
    BY <2>0, <2>1, <2>2, ExpressedIndex DEF PanelInv, Index
  <2> QED BY <1>1, <1>2, <1>5, <2>3 DEF StartEdit, PanelInv
<1>6. CASE CancelEdit
  BY <1>1, <1>2, <1>6, ResetKeeps DEF CancelEdit, PanelInv
<1>7. ASSUME NEW coll \in IndexColls, ShowCollection(coll) PROVE IxInv'
  <2>1. coll # NoIndex /\ shown' = coll
    BY <1>7, IndexEditAssumption DEF ShowCollection
  <2>2. listed' \subseteq {set \in SUBSET Index : IsIndexSet(set)}
    BY <1>3, <1>7 DEF ShowCollection
  <2>3. PanelInv'
    BY <1>7, <2>1, <2>2, ResetKeeps DEF ShowCollection
  <2> QED BY <1>2, <2>3
<1>8. ASSUME NEW new \in Forms, TypeForm(new) PROVE IxInv'
  BY <1>2, <1>8 DEF TypeForm, PanelInv
<1> QED BY <1>1, <1>4, <1>5, <1>6, <1>7, <1>8

\* Leaving the tab.
LEMMA LeaveKeeps ==
    ASSUME IxInv, LeavePanel
    PROVE  IxInv' /\ indexes' = indexes /\ \A s \in save : save' # {}
<1> USE DEF IxInv
<1> DEFINE H(s) == [s EXCEPT !.heard = FALSE]
<1>1. save' = {H(s) : s \in save} /\ indexes' = indexes
  BY DEF LeavePanel
<1>2. PanelInv'
  BY ResetKeeps DEF LeavePanel, PanelInv
<1>3. BaseInv'
  BY <1>1 DEF BaseInv
<1>4. ASSUME NEW s \in save
      PROVE  SoundSave(H(s)) /\ (H(s).alone => Brought(H(s), indexes'[H(s).coll]))
  <2>1. s \in SaveRecords /\ SoundSave(s) /\ (s.alone => Brought(s, indexes[s.coll]))
    BY DEF SavesInv, SoundSave
  <2>2. /\ H(s).coll = s.coll /\ H(s).editing = s.editing /\ H(s).original = s.original
        /\ H(s).phase = s.phase /\ H(s).from = s.from /\ H(s).alone = s.alone
        /\ H(s).before = s.before
    BY <2>1 DEF SaveRecords
  <2>3. H(s) \in SaveRecords
    BY <2>1 DEF SaveRecords
  <2> HIDE DEF H
  <2>4. SoundSave(H(s))
    BY <2>1, <2>2, <2>3 DEF SoundSave
  <2> QED BY <1>1, <2>1, <2>2, <2>4 DEF Brought
<1>5. \A s, t \in save : s = t
  BY DEF SavesInv
<1> HIDE DEF H
<1>6. SavesInv'
  BY <1>1, <1>4, <1>5 DEF SavesInv
<1> QED BY <1>1, <1>2, <1>3, <1>6

\* The button.
LEMMA SaveKeeps ==
    ASSUME IxInv, Save
    PROVE  IxInv'
<1> USE DEF IxInv
<1> DEFINE c == Captured
<1>1. save' = {c} /\ indexes' = indexes /\ UNCHANGED panelVars
  BY DEF Save
<1>2. PanelInv' /\ BaseInv'
  BY <1>1 DEF panelVars, PanelInv, BaseInv
<1>3. /\ shown \in IndexColls /\ form \in Forms /\ editing \in Keys \cup {NoIndex}
      /\ began \in IndexColls \cup {NoIndex} /\ (editing # NoIndex => began = shown)
      /\ indexes[shown] \subseteq Index /\ IsIndexSet(indexes[shown])
  BY DEF Save, PanelInv, BaseInv, Blank
<1>4. /\ c.coll = shown /\ c.new = form /\ c.editing = editing
      /\ c.original = {i \in UNION listed : i.key = editing}
      /\ c.phase = (IF editing = NoIndex THEN "create" ELSE "drop")
      /\ c.from = began
      /\ c.alone = (listed = {indexes[shown]})
      /\ c.before = (IF listed = {indexes[shown]} THEN indexes[shown] ELSE {})
  BY DEF Captured
<1>5. UNION listed \subseteq Index
  BY DEF PanelInv
<1>6. c \in SaveRecords
  <2>1. {i \in UNION listed : i.key = editing} \in SUBSET Index
    BY <1>5
  <2>2. (IF listed = {indexes[shown]} THEN indexes[shown] ELSE {}) \in SUBSET Index
    BY <1>3
  <2>3. (listed = {indexes[shown]}) \in BOOLEAN
    OBVIOUS
  <2> QED BY <1>3, <2>1, <2>2, <2>3 DEF Captured, SaveRecords
<1> HIDE DEF c
<1>7. SoundSave(c)
  BY <1>3, <1>4, <1>6 DEF SoundSave
<1>8. ASSUME c.alone PROVE Brought(c, indexes[c.coll])
  <2>1. listed = {indexes[shown]} /\ UNION listed = indexes[shown]
    BY <1>4, <1>8
  <2>2. c.before = indexes[shown]
    BY <1>4, <2>1
  <2>3. editing = NoIndex => Without(indexes[shown], editing) = indexes[shown]
    BY <1>3, IndexEditAssumption DEF Without, Index
  <2> QED BY <1>3, <1>4, <2>1, <2>2, <2>3 DEF Brought
<1>9. SavesInv'
  BY <1>1, <1>7, <1>8 DEF SavesInv
<1> QED BY <1>2, <1>9

\* Everyone else's changes.
LEMMA OthersKeep ==
    ASSUME IxInv, \/ \E key \in Keys : \/ DropIndex(key)
                                       \/ \E opt \in Options : UpdateTtl(key, opt)
                  \/ \E coll \in IndexColls, i \in Index : OtherClient(coll, i)
    PROVE  IxInv' /\ save' = Disturbed
<1> USE DEF IxInv
<1>1. save' = Disturbed /\ UNCHANGED panelVars
  BY DEF DropIndex, UpdateTtl, OtherClient
<1>2. PanelInv' /\ SavesInv'
  BY <1>1, DisturbedKeeps DEF panelVars, PanelInv
<1> DEFINE Sets == {set \in SUBSET Index : IsIndexSet(set)}
<1>3. indexes \in [IndexColls -> Sets]
  BY DEF BaseInv
<1>4. \A key \in Keys : \A set \in Sets : Without(set, key) \in Sets
  BY WithoutKeeps
<1>5. ASSUME NEW key \in Keys, DropIndex(key) PROVE BaseInv'
  BY <1>3, <1>4, <1>5 DEF DropIndex, BaseInv, PanelInv
<1>6. ASSUME NEW key \in Keys, NEW opt \in Options, UpdateTtl(key, opt) PROVE BaseInv'
  <2>1. [key |-> key, opt |-> opt] \in Index
    BY DEF Index
  <2>2. \A set \in Sets : Without(set, key) \cup {[key |-> key, opt |-> opt]} \in Sets
    BY <2>1 DEF Without, IsIndexSet
  <2>3. indexes' = [indexes EXCEPT ![shown] = Without(@, key) \cup {[key |-> key, opt |-> opt]}]
    BY <1>6 DEF UpdateTtl
  <2> QED BY <1>3, <2>2, <2>3 DEF BaseInv
<1>7. ASSUME NEW coll \in IndexColls, NEW i \in Index, OtherClient(coll, i) PROVE BaseInv'
  <2>1. indexes[coll] \in Sets
    BY <1>3
  <2>2. (IF i \in indexes[coll] THEN indexes[coll] \ {i} ELSE indexes[coll] \cup {i}) \in Sets
    BY <1>7, <2>1 DEF OtherClient, IsIndexSet
  <2>3. indexes' = [indexes EXCEPT ![coll] = IF i \in @ THEN @ \ {i} ELSE @ \cup {i}]
    BY <1>7 DEF OtherClient
  <2> QED BY <1>3, <2>2, <2>3 DEF BaseInv
<1> QED BY <1>1, <1>2, <1>5, <1>6, <1>7

-----------------------------------------------------------------------------
(***************************************************************************)
(* The requests of the save                                                *)
(***************************************************************************)

\* What a drop, and a creation, do to the collection of the save.
LEMMA DroppedKeeps ==
    ASSUME BaseInv, NEW s, s.coll \in IndexColls, DropTakes(s)
    PROVE  /\ BaseInv'
           /\ \A coll \in IndexColls : coll # s.coll => indexes'[coll] = indexes[coll]
           /\ indexes'[s.coll] = Without(indexes[s.coll], s.editing)
<1> DEFINE Sets == {set \in SUBSET Index : IsIndexSet(set)}
<1>1. indexes \in [IndexColls -> Sets] /\ indexes[s.coll] \in Sets
  BY DEF BaseInv
<1>2. Without(indexes[s.coll], s.editing) \in Sets
  BY <1>1, WithoutKeeps
<1> QED BY <1>1, <1>2 DEF DropTakes, BaseInv

LEMMA CreatedKeeps ==
    ASSUME BaseInv, NEW s, s.coll \in IndexColls, NEW i \in Index, CreateTakes(s, i)
    PROVE  /\ BaseInv'
           /\ \A coll \in IndexColls : coll # s.coll => indexes'[coll] = indexes[coll]
           /\ indexes'[s.coll] = indexes[s.coll] \cup {i}
<1> DEFINE Sets == {set \in SUBSET Index : IsIndexSet(set)}
<1>1. indexes \in [IndexColls -> Sets] /\ indexes[s.coll] \in Sets
  BY DEF BaseInv
<1>2. indexes[s.coll] \cup {i} \in Sets
  BY <1>1 DEF CreateTakes, IsIndexSet
<1> QED BY <1>1, <1>2 DEF CreateTakes, BaseInv

\* The save goes on to its next request.
LEMMA GoingOnKeeps ==
    ASSUME IxInv, NEW s \in save, NEW phase \in {"create", "restore"},
           NEW why \in {"none", "refused", "lost"}, GoesOn(s, phase, why),
           phase = "restore" => s.editing # NoIndex,
           BaseInv', s.alone => /\ IsIndexSet(s.before)
                                /\ s.original = {i \in s.before : i.key = s.editing}
                                /\ phase = "create"
                                     => indexes'[s.coll] = Without(s.before, s.editing)
                                /\ phase = "restore"
                                     => Without(s.before, s.editing) \subseteq indexes'[s.coll]
    PROVE  IxInv' /\ save' # {}
<1> DEFINE d == [s EXCEPT !.phase = phase, !.why = why]
<1>1. save' = {d} /\ UNCHANGED panelVars
  BY DEF GoesOn
<1>2. SoundSave(s) /\ s \in SaveRecords
  BY DEF IxInv, SavesInv, SoundSave
<1>3. /\ d.coll = s.coll /\ d.editing = s.editing /\ d.original = s.original
      /\ d.from = s.from /\ d.alone = s.alone /\ d.before = s.before /\ d.phase = phase
  BY <1>2 DEF SaveRecords
<1>4. d \in SaveRecords
  BY <1>2 DEF SaveRecords
<1> HIDE DEF d
<1>5. SoundSave(d)
  BY <1>2, <1>3, <1>4 DEF SoundSave
<1>6. d.alone => Brought(d, indexes'[d.coll])
  BY <1>3 DEF Brought
<1>7. SavesInv'
  BY <1>1, <1>5, <1>6 DEF SavesInv
<1>8. PanelInv'
  BY <1>1 DEF IxInv, panelVars, PanelInv
<1> QED BY <1>1, <1>7, <1>8 DEF IxInv

\* The save ends.
LEMMA ReportingKeeps ==
    ASSUME IxInv, BaseInv', NEW s, NEW what, Reports(s, what)
    PROVE  IxInv' /\ save' = {} /\ (s.heard => told' = what)
BY DEF IxInv, Reports, PanelInv, SavesInv

\* It ends well.
LEMMA SucceedingKeeps ==
    ASSUME IxInv, BaseInv', NEW s, Succeeds(s)
    PROVE  IxInv' /\ save' = {} /\ (s.heard => told' = "nothing")
<1>1. PanelInv'
  <2>1. CASE FormReset
    BY <2>1, ResetKeeps DEF IxInv, PanelInv, Succeeds
  <2>2. CASE UNCHANGED <<form, editing, began, told>>
    BY <2>2 DEF IxInv, PanelInv, Succeeds
  <2> QED BY <2>1, <2>2 DEF Succeeds
<1> QED BY <1>1 DEF IxInv, Succeeds, SavesInv, FormReset

\* What both properties say of a step of the save s.
OwnOnly(s) ==
    /\ \A coll \in IndexColls : coll # s.coll => indexes'[coll] = indexes[coll]
    /\ \A i \in indexes[s.coll] \ indexes'[s.coll] : i.key = s.editing

WholeOrUndone(s) ==
    save' = {} /\ s.alone /\ s.heard =>
        /\ told' = "nothing" => indexes'[s.coll] = Without(s.before, s.editing) \cup {s.new}
        /\ told' = "restored" =>
              \A i \in s.before : i \in indexes'[s.coll] \/ ~Known(i)

\* What is known of the save under way.
LEMMA SaveFacts ==
    ASSUME IxInv, NEW s \in save
    PROVE  /\ s \in SaveRecords /\ SoundSave(s) /\ s.coll \in IndexColls
           /\ s.new \in Index /\ s.original \subseteq Index
           /\ indexes[s.coll] \subseteq Index
           /\ s.alone => Brought(s, indexes[s.coll])
<1>1. SoundSave(s) /\ s \in SaveRecords /\ (s.alone => Brought(s, indexes[s.coll]))
  BY DEF IxInv, SavesInv, SoundSave
<1>2. s.coll \in IndexColls /\ s.new \in Index /\ s.original \subseteq Index
  BY <1>1, FormsAreIndexes DEF SaveRecords
<1> QED BY <1>1, <1>2 DEF IxInv, BaseInv

\* Its three requests.
LEMMA DropStep ==
    ASSUME IxInv, NEW s \in save, DropsFirst(s)
    PROVE  IxInv' /\ OwnOnly(s) /\ WholeOrUndone(s)
<1>0. /\ BaseInv /\ SoundSave(s) /\ s.coll \in IndexColls
      /\ s.alone => Brought(s, indexes[s.coll])
  BY SaveFacts DEF IxInv
<1>1. CASE DropTakes(s)
  <2>1. /\ BaseInv' /\ indexes'[s.coll] = Without(indexes[s.coll], s.editing)
        /\ \A coll \in IndexColls : coll # s.coll => indexes'[coll] = indexes[coll]
    BY <1>0, <1>1, DroppedKeeps
  <2>2. OwnOnly(s)
    BY <2>1 DEF OwnOnly, Without
  <2>3. CASE GoesOn(s, "create", "none")
    <3>1. s.alone => /\ IsIndexSet(s.before)
                     /\ s.original = {i \in s.before : i.key = s.editing}
                     /\ indexes'[s.coll] = Without(s.before, s.editing)
      BY <1>0, <2>1 DEF DropsFirst, Brought
    <3>2. IxInv' /\ save' # {}
      BY <2>1, <2>3, <3>1, GoingOnKeeps
    <3> QED BY <2>2, <3>2 DEF WholeOrUndone
  <2>4. CASE Reports(s, "failed")
    BY <2>1, <2>2, <2>4, ReportingKeeps DEF WholeOrUndone
  <2>5. CASE UNCHANGED indexes /\ Reports(s, "failed")
    BY <2>4, <2>5
  <2> QED BY <2>3, <2>4, <2>5 DEF DropsFirst
<1>2. CASE UNCHANGED indexes /\ Reports(s, "failed")
  <2>1. BaseInv' /\ OwnOnly(s)
    BY <1>0, <1>2 DEF BaseInv, OwnOnly
  <2> QED BY <2>1, <1>2, ReportingKeeps DEF WholeOrUndone
<1> QED BY <1>1, <1>2 DEF DropsFirst

\* A creation that fails: the original is still to be restored.
LEMMA FailingKeeps ==
    ASSUME IxInv, NEW s \in save, s.phase = "create", NEW why \in {"refused", "lost"},
           FailsToCreate(s, why), BaseInv', indexes[s.coll] \subseteq indexes'[s.coll]
    PROVE  IxInv' /\ WholeOrUndone(s)
<1>0. SoundSave(s) /\ s.original \subseteq Index /\ (s.alone => Brought(s, indexes[s.coll]))
  BY SaveFacts
<1>1. CASE s.original # {} /\ GoesOn(s, "restore", why)
  <2>1. PICK i \in s.original : i.key = s.editing
    BY <1>0, <1>1 DEF SoundSave
  <2>2. s.editing # NoIndex
    BY <1>0, <2>1, IndexEditAssumption DEF Index
  <2>3. s.alone => /\ IsIndexSet(s.before)
                   /\ s.original = {j \in s.before : j.key = s.editing}
                   /\ Without(s.before, s.editing) \subseteq indexes'[s.coll]
    BY <1>0 DEF Brought
  <2>4. IxInv' /\ save' # {}
    BY <1>1, <2>2, <2>3, GoingOnKeeps
  <2> QED BY <2>4 DEF WholeOrUndone
<1>2. CASE Reports(s, "failed")
  BY <1>2, ReportingKeeps DEF WholeOrUndone
<1> QED BY <1>1, <1>2 DEF FailsToCreate

LEMMA CreateStep ==
    ASSUME IxInv, NEW s \in save, CreatesNew(s)
    PROVE  IxInv' /\ OwnOnly(s) /\ WholeOrUndone(s)
<1>0. /\ BaseInv /\ s.coll \in IndexColls /\ s.new \in Index /\ s.phase = "create"
      /\ s.alone => Brought(s, indexes[s.coll])
  BY SaveFacts DEF IxInv, CreatesNew
<1>1. CASE CreateTakes(s, s.new)
  <2>1. /\ BaseInv' /\ indexes'[s.coll] = indexes[s.coll] \cup {s.new}
        /\ \A coll \in IndexColls : coll # s.coll => indexes'[coll] = indexes[coll]
    BY <1>0, <1>1, CreatedKeeps
  <2>2. OwnOnly(s)
    BY <2>1 DEF OwnOnly
  <2>3. CASE Succeeds(s)
    <3>1. IxInv' /\ (s.heard => told' = "nothing")
      BY <2>1, <2>3, SucceedingKeeps
    <3>2. s.alone => indexes'[s.coll] = Without(s.before, s.editing) \cup {s.new}
      BY <1>0, <2>1 DEF Brought
    <3> QED BY <2>2, <3>1, <3>2 DEF WholeOrUndone
  <2>4. ASSUME NEW why \in {"refused", "lost"}, FailsToCreate(s, why)
        PROVE  IxInv' /\ WholeOrUndone(s)
    BY <1>0, <2>1, <2>4, FailingKeeps
  <2>5. CASE UNCHANGED indexes /\ \E why \in {"refused", "lost"} : FailsToCreate(s, why)
    BY <2>2, <2>4, <2>5
  <2> QED BY <2>2, <2>3, <2>4, <2>5 DEF CreatesNew
<1>2. CASE UNCHANGED indexes /\ \E why \in {"refused", "lost"} : FailsToCreate(s, why)
  <2>1. BaseInv' /\ OwnOnly(s) /\ indexes[s.coll] \subseteq indexes'[s.coll]
    BY <1>0, <1>2 DEF BaseInv, OwnOnly
  <2> QED BY <1>0, <1>2, <2>1, FailingKeeps
<1> QED BY <1>1, <1>2 DEF CreatesNew

LEMMA RestoreStep ==
    ASSUME IxInv, NEW s \in save, Restores(s)
    PROVE  IxInv' /\ OwnOnly(s) /\ WholeOrUndone(s)
<1>0. /\ BaseInv /\ s.coll \in IndexColls /\ s.phase = "restore" /\ SoundSave(s)
      /\ s.original \subseteq Index /\ (s.alone => Brought(s, indexes[s.coll]))
  BY SaveFacts DEF IxInv, Restores
<1>1. PICK i \in s.original :
          \/ /\ CreateTakes(s, Expressed(i))
             /\ Reports(s, "restored") \/ Reports(s, IF s.why = "lost" THEN "failed" ELSE "lost")
          \/ /\ UNCHANGED indexes
             /\ \E why \in {"refused", "lost"} :
                   Reports(s, IF s.why = why THEN "failed" ELSE "lost")
  BY DEF Restores
<1>2. i \in Index /\ i.key = s.editing /\ Expressed(i) \in Index
  BY <1>0, <1>1, ExpressedIndex DEF SoundSave
<1>3. CASE CreateTakes(s, Expressed(i))
  <2>1. /\ BaseInv' /\ indexes'[s.coll] = indexes[s.coll] \cup {Expressed(i)}
        /\ \A coll \in IndexColls : coll # s.coll => indexes'[coll] = indexes[coll]
    BY <1>0, <1>2, <1>3, CreatedKeeps
  <2>2. OwnOnly(s)
    BY <2>1 DEF OwnOnly
  <2>3. ASSUME s.alone, NEW j \in s.before PROVE j \in indexes'[s.coll] \/ ~Known(j)
    <3>1. CASE j.key # s.editing
      BY <1>0, <2>1, <2>3, <3>1 DEF Brought, Without
    <3>2. CASE j.key = s.editing
      <4>1. i = j
        BY <1>0, <1>1, <1>2, <2>3, <3>2 DEF Brought, IsIndexSet
      <4>2. Known(i) => Expressed(i) = i
        BY <1>2, ExpressedIndex
      <4> QED BY <2>1, <4>1, <4>2
    <3> QED BY <3>1, <3>2
  <2>4. ASSUME NEW what \in {"restored", "failed", "lost"}, Reports(s, what)
        PROVE  IxInv' /\ WholeOrUndone(s)
    BY <2>1, <2>3, <2>4, ReportingKeeps DEF WholeOrUndone
  <2>5. \E what \in {"restored", "failed", "lost"} : Reports(s, what)
    BY <1>1
  <2> QED BY <2>2, <2>4, <2>5
<1>4. CASE UNCHANGED indexes /\ \E what \in {"failed", "lost"} : Reports(s, what)
  <2>1. BaseInv' /\ OwnOnly(s)
    BY <1>0, <1>4 DEF BaseInv, OwnOnly
  <2> QED BY <2>1, <1>4, ReportingKeeps DEF WholeOrUndone
<1> QED BY <1>1, <1>3, <1>4

-----------------------------------------------------------------------------
(***************************************************************************)
(* The theorems                                                            *)
(***************************************************************************)

\* Every step keeps the invariant, and what it does to the indexes is either
\* another's doing or what the save is for.
LEMMA IxStep ==
    ASSUME IxInv, [IxNext]_indexVars
    PROVE  /\ IxInv'
           /\ \A s \in save :
                 \/ save' # {} /\ (save' = save \/ indexes' = indexes)
                 \/ save' # {} /\ \E t \in save' : t.alone # s.alone
                 \/ OwnOnly(s) /\ WholeOrUndone(s)
<1> DEFINE Fine(s) ==
       \/ save' # {} /\ (save' = save \/ indexes' = indexes)
       \/ save' # {} /\ \E t \in save' : t.alone # s.alone
       \/ OwnOnly(s) /\ WholeOrUndone(s)
<1>1. CASE \/ ListIndexes \/ StartEdit \/ CancelEdit
           \/ \E coll \in IndexColls : ShowCollection(coll)
           \/ \E new \in Forms : TypeForm(new)
  BY <1>1, PanelSteps
<1>2. CASE LeavePanel
  BY <1>2, LeaveKeeps
<1>3. CASE Save
  <2>1. save = {}
    BY <1>3 DEF Save
  <2> QED BY <1>3, <2>1, SaveKeeps
<1>4. CASE \/ \E key \in Keys : \/ DropIndex(key)
                                \/ \E opt \in Options : UpdateTtl(key, opt)
           \/ \E coll \in IndexColls, i \in Index : OtherClient(coll, i)
  <2>1. IxInv' /\ save' = Disturbed
    BY <1>4, OthersKeep
  <2>2. \A s \in save : /\ save' # {}
                        /\ save' # save => \E t \in save' : t.alone # s.alone
    BY <2>1, DisturbedKeeps DEF IxInv
  <2> QED BY <2>1, <2>2
<1>5. ASSUME NEW s \in save, DropsFirst(s) \/ CreatesNew(s) \/ Restores(s)
      PROVE  IxInv' /\ \A t \in save : Fine(t)
  <2>1. IxInv' /\ Fine(s)
    BY <1>5, DropStep, CreateStep, RestoreStep
  <2>2. \A t \in save : t = s
    BY DEF IxInv, SavesInv
  <2> QED BY <2>1, <2>2
<1>6. CASE UNCHANGED indexVars
  <2>1. IxInv' /\ save' = save
    BY <1>6 DEF indexVars, panelVars, IxInv, PanelInv, BaseInv, SavesInv
  <2> QED BY <2>1
<1> QED BY <1>1, <1>2, <1>3, <1>4, <1>5, <1>6 DEF IxNext

\* A save changes nothing but the collection it was started in, and takes away
\* no index but the edited one, wherever the user is by then
\* (IndexPanel.tsx:138-172).
THEOREM SavesKeepToTheirIndex == IxSpec => SaveTouchesOwnIndex
<1>1. ASSUME IxInv, [IxNext]_indexVars, NEW s \in save,
             save' # save, ~(\E t \in save' : t.alone # s.alone),
             NEW coll \in IndexColls
      PROVE  /\ coll # s.coll \/ (s.editing # NoIndex /\ coll # s.from)
                   => indexes'[coll] = indexes[coll]
             /\ \A i \in indexes[coll] \ indexes'[coll] : i.key = s.editing
  <2>1. indexes' = indexes \/ OwnOnly(s)
    BY <1>1, IxStep
  <2>2. s.editing # NoIndex => s.from = s.coll
    BY <1>1, SaveFacts DEF SoundSave
  <2> QED BY <2>1, <2>2 DEF OwnOnly
<1>2. IxInv /\ [IxNext]_indexVars
        => [\A s \in save : save' # save /\ ~(\E t \in save' : t.alone # s.alone) =>
               \A coll \in IndexColls :
                  /\ coll # s.coll \/ (s.editing # NoIndex /\ coll # s.from)
                        => indexes'[coll] = indexes[coll]
                  /\ \A i \in indexes[coll] \ indexes'[coll] : i.key = s.editing]_indexVars
  BY <1>1
<1>3. IxInv /\ [IxNext]_indexVars => IxInv'
  BY IxStep
<1> QED BY IxInitially, <1>2, <1>3, PTL DEF IxSpec, SaveTouchesOwnIndex

\* Nobody else having changed the indexes since they were listed, a save that
\* succeeds has replaced exactly the edited index, and one that says that the
\* original was restored has lost none that the form can express
\* (IndexPanel.tsx:150-172).
THEOREM EditsAreWholeOrUndone == IxSpec => EditIsWholeOrUndone
<1>1. ASSUME IxInv, [IxNext]_indexVars, NEW s \in save, save' = {}
      PROVE  WholeOrUndone(s)
  BY <1>1, IxStep
<1>2. IxInv /\ [IxNext]_indexVars
        => [\A s \in save : save' = {} /\ s.alone /\ s.heard =>
               /\ told' = "nothing"
                     => indexes'[s.coll] = Without(s.before, s.editing) \cup {s.new}
               /\ told' = "restored" =>
                     \A i \in s.before :
                        i \in indexes'[s.coll] \/ i.key \in Odd \/ Carried[i.opt] # i.opt]_indexVars
  BY <1>1 DEF WholeOrUndone, Known
<1>3. IxInv /\ [IxNext]_indexVars => IxInv'
  BY IxStep
<1> QED BY IxInitially, <1>2, <1>3, PTL DEF IxSpec, EditIsWholeOrUndone

\* What else the types say: the list is one answer, and a save is only heard by
\* the panel.
Rest ==
    /\ listed = {} \/ \E set \in listed : listed = {set}
    /\ told \in {"nothing", "failed", "restored", "lost"}
    /\ \A s \in save : s.heard => shown # NoIndex

LEMMA RestStep == IxInv /\ Rest /\ [IxNext]_indexVars => Rest'
<1> SUFFICES ASSUME IxInv, Rest, [IxNext]_indexVars PROVE Rest'
  OBVIOUS
<1> USE DEF Rest
<1>1. CASE ListIndexes \/ StartEdit \/ CancelEdit
  BY <1>1 DEF ListIndexes, StartEdit, CancelEdit, FormReset
<1>2. ASSUME NEW coll \in IndexColls, ShowCollection(coll) PROVE Rest'
  BY <1>2, IndexEditAssumption DEF ShowCollection, FormReset
<1>3. ASSUME NEW new \in Forms, TypeForm(new) PROVE Rest'
  BY <1>3 DEF TypeForm
<1>4. CASE LeavePanel
  <2>1. ASSUME NEW t \in save' PROVE ~t.heard
    <3>1. PICK s \in save : t = [s EXCEPT !.heard = FALSE]
      BY <1>4, <2>1 DEF LeavePanel
    <3>2. s \in SaveRecords
      BY SaveFacts
    <3> QED BY <3>1, <3>2 DEF SaveRecords
  <2> QED BY <1>4, <2>1 DEF LeavePanel, FormReset
<1>5. CASE Save
  <2>1. shown # NoIndex
    BY <1>5 DEF Save, IxInv, PanelInv
  <2> QED BY <1>5, <2>1 DEF Save, panelVars
<1>6. CASE save' = Disturbed /\ UNCHANGED panelVars
  <2>1. ASSUME NEW t \in save', t.heard PROVE shown # NoIndex
    <3>1. PICK s \in save : t = [s EXCEPT !.alone = FALSE, !.before = {}]
      BY <1>6, <2>1 DEF Disturbed
    <3>2. t.heard = s.heard
      BY <3>1, SaveFacts DEF SaveRecords
    <3> QED BY <2>1, <3>2
  <2> QED BY <1>6, <2>1 DEF panelVars
<1>7. CASE \/ \E key \in Keys : \/ DropIndex(key)
                                \/ \E opt \in Options : UpdateTtl(key, opt)
           \/ \E coll \in IndexColls, i \in Index : OtherClient(coll, i)
  BY <1>6, <1>7 DEF DropIndex, UpdateTtl, OtherClient
<1>8. ASSUME NEW s \in save, NEW what \in {"failed", "restored", "lost"}, Reports(s, what)
      PROVE  Rest'
  BY <1>8 DEF Reports
<1>9. ASSUME NEW s \in save, NEW phase, NEW why, GoesOn(s, phase, why) PROVE Rest'
  <2>1. PICK t \in save' : save' = {t} /\ t = [s EXCEPT !.phase = phase, !.why = why]
    BY <1>9 DEF GoesOn
  <2>2. t.heard = s.heard
    BY <2>1, SaveFacts DEF SaveRecords
  <2> QED BY <1>9, <2>1, <2>2 DEF GoesOn, panelVars
<1>10. ASSUME NEW s \in save, Succeeds(s) PROVE Rest'
  BY <1>10 DEF Succeeds, FormReset
<1>11. ASSUME NEW s \in save, DropsFirst(s) \/ CreatesNew(s) PROVE Rest'
  BY <1>8, <1>9, <1>10, <1>11 DEF DropsFirst, CreatesNew, FailsToCreate
<1>12. ASSUME NEW s \in save, Restores(s) PROVE Rest'
  <2>1. \E what \in {"failed", "restored", "lost"} : Reports(s, what)
    BY <1>12 DEF Restores
  <2> QED BY <1>8, <2>1
<1>13. CASE UNCHANGED indexVars
  BY <1>13 DEF indexVars, panelVars
<1> QED BY <1>1, <1>2, <1>3, <1>4, <1>5, <1>7, <1>11, <1>12, <1>13 DEF IxNext

\* Each variable keeps its type: there is one save at most, what it restores is
\* of the index it edits, and the database has one index of a key
\* (IndexPanel.tsx:100-172).
THEOREM IxTypeCorrect == IxSpec => []IxTypeOK
<1>1. IxInit => Rest
  BY DEF IxInit, Rest
<1>2. ASSUME IxInv, Rest PROVE IxTypeOK
  <2>1. /\ shown \in IndexColls \cup {NoIndex} /\ form \in Forms \cup {Blank}
        /\ editing \in Keys \cup {NoIndex} /\ began \in IndexColls \cup {NoIndex}
        /\ told \in {"nothing", "failed", "restored", "lost"}
        /\ listed = {} \/ \E set \in listed : listed = {set} /\ IsIndexSet(set)
    BY <1>2 DEF IxInv, PanelInv, Rest
  <2>2. \A coll \in IndexColls : IsIndexSet(indexes[coll])
    BY <1>2 DEF IxInv, BaseInv
  <2>3. Cardinality(save) <= 1
    <3>1. CASE save = {}
      BY <3>1, FS_EmptySet
    <3>2. ASSUME NEW s \in save PROVE Cardinality(save) <= 1
      <4>1. save = {s}
        BY <1>2 DEF IxInv, SavesInv
      <4> QED BY <4>1, FS_Singleton
    <3> QED BY <3>1, <3>2
  <2>4. ASSUME NEW s \in save
        PROVE  /\ s.coll \in IndexColls /\ s.new \in Forms
               /\ s.phase \in {"drop", "create", "restore"}
               /\ \A i \in s.original : i.key = s.editing
               /\ s.heard => shown # NoIndex
    BY <1>2, SaveFacts DEF SoundSave, SaveRecords, Rest
  <2> QED BY <2>1, <2>2, <2>3, <2>4 DEF IxTypeOK
<1>3. IxInv /\ [IxNext]_indexVars => IxInv'
  BY IxStep
<1>4. IxInv /\ Rest => IxTypeOK
  BY <1>2
<1> QED BY IxInitially, RestStep, <1>1, <1>3, <1>4, PTL DEF IxSpec
==============================================================================
