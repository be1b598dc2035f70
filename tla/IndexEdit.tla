------------------------------ MODULE IndexEdit ------------------------------
(***************************************************************************)
(* The Indexes tab (web/src/components/IndexPanel/IndexPanel.tsx): its     *)
(* form creates an index or edits one, and editing is to drop the index,   *)
(* to create the new one and, if that fails, to create the old one again.  *)
(* Each of the requests may fail, or be carried out and its answer lost,   *)
(* while the user goes to another collection and other clients change the  *)
(* indexes.  An index is named after its key, as MongoDB names it.         *)
(***************************************************************************)
EXTENDS FiniteSetsExt, Naturals

CONSTANTS IndexColls, \* the collections
          Keys,       \* what an index can be on
          Odd,        \* keys the form does not know: text, hashed, ...
          Plain,      \* the key that the form makes of these
          Options,    \* an index's options: unique, sparse, collation, ...
          Carried,    \* what a request for an index has of its options
          NoIndex,    \* null
          Foreign,    \* bound: the indexes that others make
          MaxIndexes  \* bound: how many others, or the start, leave

ASSUME IndexEditAssumption ==
    /\ Odd \subseteq Keys /\ Plain \in Keys \ Odd
    /\ Options # {} /\ Carried \in [Options -> Options]
    /\ \A opt \in Options : Carried[Carried[opt]] = Carried[opt]
    /\ NoIndex \notin Keys \cup IndexColls
    /\ MaxIndexes \in Nat

VARIABLES indexes, \* of each collection, in the database
          shown,   \* the panel's collection, or NoIndex on another tab
          listed,  \* the query ['indexes', coll]: the answer it has, if any
          form,    \* the fields and options typed
          editing, \* editingName
          began,   \* the collection in which Edit was clicked, for the properties
          save,    \* the mutation under way, if any
          told     \* the error shown

panelVars == <<shown, listed, form, editing, began, told>>
indexVars == <<indexes, panelVars, save>>

Index == [key : Keys, opt : Options]
Forms == [key : Keys \ Odd, opt : {Carried[opt] : opt \in Options}]
Blank == [key |-> NoIndex, opt |-> Carried[CHOOSE opt \in Options : TRUE]]

ASSUME ForeignAssumption == Foreign \subseteq Index

\* What is in the database has one index of a key.
IsIndexSet(set) == set \subseteq Index /\ \A i, j \in set : i.key = j.key => i = j

Without(set, key) == {i \in set : i.key # key}

\* Mutant of Expressed: the options are left out.
ExpressedBare(i) == [key |-> IF i.key \in Odd THEN Plain ELSE i.key, opt |-> Blank.opt]

\* buildFormState, and indexKeysToRequest with optionsOf: what can be asked
\* for again of an index that was listed.  Of its options there are four, and a
\* filter goes through plain JSON.
Expressed(i) == [key |-> IF i.key \in Odd THEN Plain ELSE i.key, opt |-> Carried[i.opt]]

\* Each variable keeps its type; a save restores only what it edits.
IxTypeOK ==
    /\ \A coll \in IndexColls : IsIndexSet(indexes[coll])
    /\ shown \in IndexColls \cup {NoIndex}
    /\ listed = {} \/ \E set \in listed : listed = {set} /\ IsIndexSet(set)
    /\ form \in Forms \cup {Blank}
    /\ editing \in Keys \cup {NoIndex}
    /\ began \in IndexColls \cup {NoIndex}
    /\ Cardinality(save) <= 1
    /\ \A s \in save : /\ s.coll \in IndexColls /\ s.new \in Forms
                       /\ s.phase \in {"drop", "create", "restore"}
                       /\ \A i \in s.original : i.key = s.editing
                       /\ s.heard => shown # NoIndex
    /\ told \in {"nothing", "failed", "restored", "lost"}

FewIndexes(ixs) ==
    MapThenSumSet(LAMBDA coll : Cardinality(ixs[coll]), IndexColls) <= MaxIndexes

IxInit ==
    /\ indexes \in [IndexColls -> {set \in SUBSET Foreign : IsIndexSet(set)}]
    /\ FewIndexes(indexes)
    /\ shown = NoIndex /\ began = NoIndex
    /\ listed = {} /\ form = Blank /\ editing = NoIndex
    /\ save = {} /\ told = "nothing"

\* A change that is not the save's own.
Disturbed == {[s EXCEPT !.alone = FALSE, !.before = {}] : s \in save}
-----------------------------------------------------------------------------
(* The panel *)

\* The list arrives, first or after a refetch.
ListIndexes ==
    /\ shown # NoIndex
    /\ listed' = {indexes[shown]}
    /\ UNCHANGED <<indexes, shown, form, editing, began, save, told>>

\* resetForm
FormReset == /\ form' = Blank /\ editing' = NoIndex /\ began' = NoIndex
             /\ told' = "nothing"

\* The tab is opened, or another collection is selected, from the sidebar or by
\* Back: then the panel is the same and an effect resets its form.  The cache
\* may have the list.
ShowCollection(coll) ==
    /\ coll # shown
    /\ shown' = coll
    /\ listed' \in {{}, {indexes[coll]}}
    /\ FormReset
    /\ UNCHANGED <<indexes, save>>

\* Another tab unmounts the panel; a save goes on with nobody to hear of it.
LeavePanel ==
    /\ shown # NoIndex
    /\ shown' = NoIndex /\ listed' = {}
    /\ FormReset
    /\ save' = {[s EXCEPT !.heard = FALSE] : s \in save}
    /\ UNCHANGED indexes

TypeForm(new) ==
    /\ shown # NoIndex
    /\ form' = new
    /\ UNCHANGED <<indexes, shown, listed, editing, began, save, told>>

StartEdit ==
    /\ \E set \in listed : \E i \in set :
          /\ form' = Expressed(i)
          /\ editing' = i.key
    /\ began' = shown /\ told' = "nothing"
    /\ UNCHANGED <<indexes, shown, listed, save>>

CancelEdit ==
    /\ editing # NoIndex
    /\ FormReset
    /\ UNCHANGED <<indexes, shown, listed, save>>

\* The mutation's function keeps the collection, form and list of the moment.
Captured ==
    [coll |-> shown, new |-> form, editing |-> editing,
     original |-> {i \in UNION listed : i.key = editing},
     phase |-> IF editing = NoIndex THEN "create" ELSE "drop",
     why |-> "none", from |-> began, heard |-> TRUE,
     alone |-> listed = {indexes[shown]},
     before |-> IF listed = {indexes[shown]} THEN indexes[shown] ELSE {}]

\* Mutant of Save: the button is not disabled meanwhile.
SaveAgain ==
    /\ form.key # NoIndex
    /\ save' = save \cup {Captured}
    /\ UNCHANGED <<indexes, panelVars>>

\* Bound: not while the save of a panel that was left is under way.
Save ==
    /\ save = {} /\ form.key # NoIndex
    /\ save' = {Captured}
    /\ UNCHANGED <<indexes, panelVars>>

\* The drop dialog's target outlives the switch to another collection, where
\* it may name another index.
DropIndex(key) ==
    /\ shown # NoIndex
    /\ key \in {i.key : i \in indexes[shown]}
    /\ indexes' = [indexes EXCEPT ![shown] = Without(@, key)]
    /\ save' = Disturbed
    /\ UNCHANGED panelVars

\* Only a TTL can change in place, and a request carries it.
UpdateTtl(key, opt) ==
    /\ shown # NoIndex
    /\ \E i \in indexes[shown] :
          i.key = key /\ i.opt # opt /\ (Carried[i.opt] = i.opt <=> Carried[opt] = opt)
    /\ indexes' = [indexes EXCEPT ![shown] = Without(@, key) \cup {[key |-> key, opt |-> opt]}]
    /\ save' = Disturbed
    /\ UNCHANGED panelVars

\* Another client drops an index or creates one.
OtherClient(coll, i) ==
    /\ i \in indexes[coll] \/ (i \in Foreign /\ IsIndexSet(indexes[coll] \cup {i}))
    /\ indexes' = [indexes EXCEPT ![coll] = IF i \in @ THEN @ \ {i} ELSE @ \cup {i}]
    /\ FewIndexes(indexes')
    /\ save' = Disturbed
    /\ UNCHANGED panelVars
-----------------------------------------------------------------------------
(* The save *)

\* onSuccess and onError reset, or report on, whatever the panel shows by then.
Succeeds(s) ==
    /\ save' = {}
    /\ \/ s.heard /\ FormReset
       \/ ~s.heard /\ UNCHANGED <<form, editing, began, told>>
    /\ UNCHANGED <<shown, listed>>

Reports(s, what) ==
    /\ save' = {}
    /\ told' = IF s.heard THEN what ELSE told
    /\ UNCHANGED <<shown, listed, form, editing, began>>

GoesOn(s, phase, why) ==
    save' = {[s EXCEPT !.phase = phase, !.why = why]} /\ UNCHANGED panelVars

\* What the database does with a request, if it gets there: a drop needs the
\* index, and an index can be created unless another has its key.
DropTakes(s) == indexes' = [indexes EXCEPT ![s.coll] = Without(@, s.editing)]
CreateTakes(s, i) ==
    /\ \A j \in indexes[s.coll] : j.key = i.key => j = i
    /\ indexes' = [indexes EXCEPT ![s.coll] = @ \cup {i}]

\* Mutant of DropsFirst: the drop goes to the collection shown by now.
DropsFirstHere(s) ==
    /\ s.phase = "drop"
    /\ \/ /\ shown # NoIndex
          /\ \E i \in indexes[shown] : i.key = s.editing
          /\ indexes' = [indexes EXCEPT ![shown] = Without(@, s.editing)]
          /\ GoesOn(s, "create", "none") \/ Reports(s, "failed")
       \/ UNCHANGED indexes /\ Reports(s, "failed")

\* The drop is carried out, with or without an answer, or it fails.
DropsFirst(s) ==
    /\ s.phase = "drop"
    /\ \/ /\ \E i \in indexes[s.coll] : i.key = s.editing
          /\ DropTakes(s)
          /\ GoesOn(s, "create", "none") \/ Reports(s, "failed")
       \/ UNCHANGED indexes /\ Reports(s, "failed")

\* The creation failed: an edit puts the old index back, if it was listed.
FailsToCreate(s, why) ==
    \/ s.original # {} /\ GoesOn(s, "restore", why)
    \/ s.original = {} /\ Reports(s, "failed")

\* why: the server said no, or the answer did not come.
CreatesNew(s) ==
    /\ s.phase = "create"
    /\ \/ CreateTakes(s, s.new) /\ (Succeeds(s) \/ FailsToCreate(s, "lost"))
       \/ UNCHANGED indexes /\ \E why \in {"refused", "lost"} : FailsToCreate(s, why)

\* The restored index is reported, and so is the failure to restore it, but
\* by the first failure's words if the second one has the same.
Restores(s) ==
    /\ s.phase = "restore"
    /\ \E i \in s.original :
          \/ /\ CreateTakes(s, Expressed(i))
             /\ Reports(s, "restored") \/ Reports(s, IF s.why = "lost" THEN "failed" ELSE "lost")
          \/ /\ UNCHANGED indexes
             /\ \E why \in {"refused", "lost"} :
                   Reports(s, IF s.why = why THEN "failed" ELSE "lost")

IxNext ==
    \/ ListIndexes \/ LeavePanel \/ StartEdit \/ CancelEdit \/ Save
    \/ \E coll \in IndexColls : ShowCollection(coll)
    \/ \E new \in Forms : TypeForm(new)
    \/ \E key \in Keys : DropIndex(key) \/ \E opt \in Options : UpdateTtl(key, opt)
    \/ \E coll \in IndexColls, i \in Index : OtherClient(coll, i)
    \/ \E s \in save : DropsFirst(s) \/ CreatesNew(s) \/ Restores(s)

IxSpec == IxInit /\ [][IxNext]_indexVars
-----------------------------------------------------------------------------
(* Properties *)

\* A save changes nothing but the collection it was started in, and takes away
\* no index but the edited one, wherever the user is by then
\* (IndexPanel.tsx:138-172).
SaveTouchesOwnIndex == [][
    \A s \in save : save' # save /\ ~(\E t \in save' : t.alone # s.alone) =>
        \A coll \in IndexColls :
            /\ coll # s.coll \/ (s.editing # NoIndex /\ coll # s.from)
                  => indexes'[coll] = indexes[coll]
            /\ \A i \in indexes[coll] \ indexes'[coll] : i.key = s.editing]_indexVars

\* Nobody else having changed the indexes since they were listed, a save that
\* succeeds has replaced exactly the edited index, and one that says that the
\* original was restored has lost none that the form can express
\* (IndexPanel.tsx:150-172).
EditIsWholeOrUndone == [][
    \A s \in save : save' = {} /\ s.alone /\ s.heard =>
        /\ told' = "nothing" => indexes'[s.coll] = Without(s.before, s.editing) \cup {s.new}
        /\ told' = "restored" =>
              \A i \in s.before : i \in indexes'[s.coll] \/ i.key \in Odd \/ Carried[i.opt] # i.opt]_indexVars
=============================================================================
