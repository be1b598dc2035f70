----------------------------- MODULE QueryEditor -----------------------------
(***************************************************************************)
(* The Documents tab's query editor (components/QueryEditor), with what    *)
(* App keeps for it: the query that was run, the aggregation shown in its  *)
(* place and the last pick of the results table's menu.  Each collection   *)
(* has a draft of its own.  An update of many documents is counted first   *)
(* and then confirmed; meanwhile the user may type, leave the tab or go to *)
(* another collection, by Back even under the open dialog.                 *)
(*                                                                         *)
(* A text is what it says and whether it is strict JSON, loose (a JS       *)
(* object) or neither; order stands for the Sort and the Projection field, *)
(* which are treated alike.  Errors, Explain and Export only show or       *)
(* download something and are left out.                                    *)
(***************************************************************************)
EXTENDS FiniteSets, Naturals

CONSTANTS EdColls,    \* the collections, of any database
          Sayings,    \* what a text may say
          NoSaying,   \* what the default text of a box says
          MaxTouched, \* bound: texts that are not the default ones
          MaxAsked    \* bound: requests under way

ASSUME QueryEditorAssumption ==
    /\ NoSaying \notin Sayings
    /\ MaxTouched \in Nat /\ MaxAsked \in Nat

VARIABLES selected, \* the collection selected
          mounted,  \* the Documents tab is shown
          drafts,   \* draftCache and localStorage: a draft at most of each
          draft,    \* the draft in the editor
          ran,      \* App's query
          override, \* App's aggregateResult is set
          pick,     \* App's externalDraftPatch, if any
          pendingUpdate, \* the update to confirm, if any
          asked     \* requests under way

editorTexts == <<drafts, draft>>
appVars == <<selected, ran, override, pick>>
queryEditorVars == <<appVars, mounted, editorTexts, pendingUpdate, asked>>

Text == [says : Sayings \cup {NoSaying}, form : {"strict", "loose", "broken"}]
Default == [says |-> NoSaying, form |-> "strict"]
TypedTexts == [says : Sayings, form : {"strict", "loose", "broken"}]

Boxes == {"filter", "order", "pipeline", "update"}
Drafts == [mode : {"find", "aggregate", "update"}, text : [Boxes -> Text]]

\* defaultDraft: its filter is the one of the query then in App.
DefaultDraft(query) ==
    [mode |-> "find", text |-> [box \in Boxes |-> IF box = "filter" THEN query.filter ELSE Default]]

DefaultQuery == [filter |-> Default, order |-> Default]

Touched(ds) == {place \in EdColls \X Boxes :
                   \E d \in ds[place[1]] : d.text[place[2]] # Default}

\* Each variable keeps its type; an editor that is not mounted waits for
\* nothing.
EdTypeOK ==
    /\ selected \in EdColls /\ {mounted, override} \subseteq BOOLEAN
    /\ \A coll \in EdColls : drafts[coll] \subseteq Drafts /\ Cardinality(drafts[coll]) < 2
    /\ draft \subseteq Drafts
    /\ mounted <=> draft # {}
    /\ ran.filter.form = "strict" /\ ran.order.form = "strict"
    /\ pick \subseteq [box : {"filter", "order"}, text : Text]
    /\ pendingUpdate # {} => mounted
    /\ Cardinality(pendingUpdate) < 2
    /\ \A r \in asked : /\ r.kind \in {"aggregate", "count", "update"} /\ r.coll \in EdColls
                        /\ r.kind = "count" => mounted

QeInit ==
    /\ selected \in EdColls /\ mounted = TRUE
    /\ draft = {DefaultDraft(DefaultQuery)}
    /\ drafts = [coll \in EdColls |-> IF coll = selected THEN draft ELSE {}]
    /\ ran = DefaultQuery /\ override = FALSE /\ pick = {}
    /\ pendingUpdate = {} /\ asked = {}
-----------------------------------------------------------------------------
(* Drafts *)

\* loadDraft
LoadedDraft(coll, query) == IF drafts[coll] # {} THEN drafts[coll] ELSE {DefaultDraft(query)}

\* The effect on externalDraftNonce: a value to filter by, or a field to hide.
Patched(d, picks) ==
    {[d EXCEPT !.mode = IF \E p \in picks : p.box = "filter" THEN "find" ELSE @,
               !.text = [box \in Boxes |->
                   IF \E p \in picks : p.box = box
                   THEN (CHOOSE p \in picks : p.box = box).text ELSE @[box]]]}

ShowDraft(coll, d) == draft' = d /\ drafts' = [drafts EXCEPT ![coll] = d]

\* The effect on the collection: its own draft is loaded.
ReloadDraft(coll, query) == ShowDraft(coll, LoadedDraft(coll, query))

\* selectCollection, or Back or Forward, for which no dialog is in the way, and
\* also to where the user already is.  A pending update stays.
SelectCollectionHere(coll) ==
    /\ selected' = coll
    /\ ran' = DefaultQuery /\ override' = FALSE
    /\ \/ mounted /\ ReloadDraft(coll, DefaultQuery)
       \/ ~mounted /\ UNCHANGED editorTexts
    /\ UNCHANGED <<mounted, pick, pendingUpdate, asked>>

\* Another tab: the editor is unmounted, and its answers come to nothing, but
\* for an aggregation, which it hands to App.
LeaveDocuments ==
    /\ mounted
    /\ mounted' = FALSE
    /\ draft' = {} /\ pendingUpdate' = {}
    /\ asked' = {IF r.kind = "update" THEN [r EXCEPT !.heard = FALSE] ELSE r :
                    r \in {q \in asked : q.kind # "count"}}
    /\ UNCHANGED <<appVars, drafts>>

\* The editor mounts: the effect on the nonce runs again, with the last pick.
Mounts(coll, query) ==
    /\ mounted' = TRUE
    /\ ShowDraft(coll, UNION {Patched(d, pick) : d \in LoadedDraft(coll, query)})

ReturnToDocuments ==
    /\ ~mounted
    /\ Mounts(selected, ran)
    /\ UNCHANGED <<appVars, pendingUpdate, asked>>

\* replayHistory, from the History tab.
Replay(coll, text) ==
    /\ ~mounted /\ text.form = "strict"
    /\ selected' = coll
    /\ ran' = [DefaultQuery EXCEPT !.filter = text] /\ override' = FALSE
    /\ Mounts(coll, ran')
    /\ UNCHANGED <<pick, pendingUpdate, asked>>

\* The page is loaded again, where it was; the drafts are stored.
ReloadPage ==
    /\ ran' = DefaultQuery /\ override' = FALSE /\ pick' = {}
    /\ \/ mounted /\ ReloadDraft(selected, DefaultQuery)
       \/ ~mounted /\ UNCHANGED editorTexts
    /\ pendingUpdate' = {} /\ asked' = {}
    /\ UNCHANGED <<selected, mounted>>

\* patchDraft, in the collection of the last render.
PatchDraft(ds) ==
    /\ ShowDraft(selected, ds)
    /\ Cardinality(Touched(drafts')) <= MaxTouched

InMode(mode) == \E d \in draft : d.mode = mode

CoveredByDialog == pendingUpdate # {}

Shown(d) == CASE d.mode = "find" -> {"filter", "order"}
              [] d.mode = "aggregate" -> {"pipeline"}
              [] OTHER -> {"filter", "update"}

TypeIn(box, text) ==
    /\ mounted /\ ~CoveredByDialog
    /\ \E d \in draft : box \in Shown(d) /\ PatchDraft({[d EXCEPT !.text[box] = text]})
    /\ UNCHANGED <<appVars, mounted, pendingUpdate, asked>>

Strict(text) == [text EXCEPT !.form = IF @ = "loose" THEN "strict" ELSE @]

\* applyFix
FixJson ==
    /\ mounted /\ ~CoveredByDialog
    /\ \E d \in draft :
          PatchDraft({[d EXCEPT !.text = [box \in Boxes |->
              IF box \in Shown(d) \ {"order"} THEN Strict(@[box]) ELSE @[box]]]})
    /\ UNCHANGED <<appVars, mounted, pendingUpdate, asked>>

\* A find preset sets the order too.
ApplyPreset(mode, text) ==
    /\ mounted /\ ~CoveredByDialog /\ text.form = "strict"
    /\ \E d \in draft :
          PatchDraft({[mode |-> mode,
                       text |-> [box \in Boxes |->
                           IF box \notin Shown([mode |-> mode]) THEN d.text[box]
                           ELSE IF box = "order" THEN Default ELSE text]]})
    /\ UNCHANGED <<appVars, mounted, pendingUpdate, asked>>

SwitchMode(mode) ==
    /\ mounted /\ ~CoveredByDialog
    /\ \E d \in draft : PatchDraft({[d EXCEPT !.mode = mode]})
    /\ override' = (override /\ mode # "find")
    /\ UNCHANGED <<selected, ran, pick, mounted, pendingUpdate, asked>>

\* The menu of a result's cell: filterByValue, excludeByValue and hideField.
PickFromResults(box, text) ==
    /\ mounted /\ ~CoveredByDialog /\ text.form = "strict"
    /\ pick' = {[box |-> box, text |-> text]}
    /\ \E d \in draft : PatchDraft(Patched(d, pick'))
    /\ UNCHANGED <<selected, ran, override, mounted, pendingUpdate, asked>>
-----------------------------------------------------------------------------
(* Run, by its button or by Ctrl+Enter, which no state disables *)

\* What Run rewrites.
Normalized(d) == {[d EXCEPT !.text["order"] = Strict(@)]}

\* The whole box, or the part of it that is selected.
Parts(text) == {text} \cup IF text = Default THEN {} ELSE TypedTexts

RunFind(whole) ==
    /\ InMode("find")
    /\ \E d \in draft : \E filter \in IF whole THEN {d.text["filter"]} ELSE Parts(d.text["filter"]) :
          /\ filter.form = "strict" /\ d.text["order"].form # "broken"
          /\ PatchDraft(Normalized(d))
          /\ ran' = [filter |-> filter, order |-> Strict(d.text["order"])]
    /\ override' = FALSE
    /\ UNCHANGED <<selected, pick, mounted, pendingUpdate, asked>>

Asks(request) == /\ Cardinality(asked) < MaxAsked
                 /\ asked' = asked \cup {request}

RunAggregate ==
    /\ InMode("aggregate")
    /\ \E d \in draft : \E text \in Parts(d.text["pipeline"]) : text.form = "strict"
    /\ Asks([kind |-> "aggregate", coll |-> selected])
    /\ UNCHANGED <<appVars, mounted, editorTexts, pendingUpdate>>

\* onAggregateResult, wherever the user is by then.
AggregateAnswers(r) ==
    /\ r.kind = "aggregate"
    /\ override' = TRUE
    /\ asked' = asked \ {r}
    /\ UNCHANGED <<selected, ran, pick, mounted, editorTexts, pendingUpdate>>

PrepareUpdateMany ==
    /\ InMode("update")
    /\ \E d \in draft : \E filter \in Parts(d.text["filter"]), update \in Parts(d.text["update"]) :
          /\ filter.form = "strict" /\ update.form = "strict"
          /\ Asks([kind |-> "count", coll |-> selected, filter |-> filter, update |-> update])
    /\ UNCHANGED <<appVars, mounted, editorTexts, pendingUpdate>>

\* The number of matches arrives and the dialog opens.
CountAnswers(r) ==
    /\ r.kind = "count"
    /\ pendingUpdate' = {[filter |-> r.filter, update |-> r.update, counted |-> r]}
    /\ asked' = asked \ {r}
    /\ UNCHANGED <<appVars, mounted, editorTexts>>

Updating == \E r \in asked : r.kind = "update" /\ r.heard

CancelUpdate ==
    /\ CoveredByDialog /\ ~Updating
    /\ pendingUpdate' = {}
    /\ UNCHANGED <<appVars, mounted, editorTexts, asked>>

\* Mutant of ConfirmUpdate: what the boxes hold by now is sent.
ConfirmUpdateOfDraft ==
    /\ ~Updating
    /\ \E p \in pendingUpdate, d \in draft :
          Asks([kind |-> "update", coll |-> selected, filter |-> d.text["filter"],
                update |-> d.text["update"], counted |-> p.counted, heard |-> TRUE])
    /\ UNCHANGED <<appVars, mounted, editorTexts, pendingUpdate>>

\* runUpdateMany, in the collection selected now.
ConfirmUpdate ==
    /\ ~Updating
    /\ \E p \in pendingUpdate :
          Asks([kind |-> "update", coll |-> selected, filter |-> p.filter,
                update |-> p.update, counted |-> p.counted, heard |-> TRUE])
    /\ UNCHANGED <<appVars, mounted, editorTexts, pendingUpdate>>

\* Updated, or failed: the dialog closes either way, if the editor that asked is
\* still there.
UpdateAnswers(r) ==
    /\ r.kind = "update"
    /\ pendingUpdate' = IF r.heard THEN {} ELSE pendingUpdate
    /\ asked' = asked \ {r}
    /\ UNCHANGED <<appVars, mounted, editorTexts>>

AskedFails(r) ==
    /\ r.kind # "update"
    /\ asked' = asked \ {r}
    /\ UNCHANGED <<appVars, mounted, editorTexts, pendingUpdate>>

QeNext ==
    \/ \E coll \in EdColls : SelectCollectionHere(coll)
    \/ LeaveDocuments \/ ReturnToDocuments \/ ReloadPage
    \/ \E coll \in EdColls, text \in TypedTexts : Replay(coll, text)
    \/ \E box \in Boxes, text \in TypedTexts : TypeIn(box, text)
    \/ FixJson
    \/ \E mode \in {"find", "aggregate", "update"} :
          SwitchMode(mode) \/ \E text \in TypedTexts : ApplyPreset(mode, text)
    \/ \E box \in {"filter", "order"}, text \in TypedTexts : PickFromResults(box, text)
    \/ \E whole \in BOOLEAN : RunFind(whole)
    \/ RunAggregate \/ PrepareUpdateMany \/ CancelUpdate \/ ConfirmUpdate
    \/ \E r \in asked : \/ AggregateAnswers(r) \/ CountAnswers(r)
                        \/ UpdateAnswers(r) \/ AskedFails(r)

QeSpec == QeInit /\ [][QeNext]_queryEditorVars
-----------------------------------------------------------------------------
(* Properties *)

\* What is in the editor is the draft of the collection it is on, however the
\* user got there: no collection's text is typed over another's
\* (QueryEditor.tsx:120-128).
EditorShowsOwnDraft == draft = IF mounted THEN drafts[selected] ELSE {}

\* The filter and the update that are sent are those whose matches were
\* counted, whatever was typed, picked or loaded since
\* (QueryEditor.tsx:416-419).
UpdateSentAsCounted ==
    \A r \in asked : r.kind = "update" =>
        r.filter = r.counted.filter /\ r.update = r.counted.update

\* An update goes to the collection in which its matches were counted: "let
\* the user see how many documents are about to change before committing"
\* (QueryEditor.tsx:416-419).
UpdateHitsCountedCollection ==
    \A r \in asked : r.kind = "update" => r.coll = r.counted.coll
=============================================================================
