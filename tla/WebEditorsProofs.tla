-------------------------- MODULE WebEditorsProofs --------------------------
(***************************************************************************)
(* Proofs about the browser's editors: the query editor's drafts and its   *)
(* counted update, what a save of a document or of a Redis key sends, whom *)
(* Escape is for among the dialogs, and the types of them all, for any     *)
(* collections, texts, documents, keys and indexes and any number of       *)
(* requests under way.                                                     *)
(***************************************************************************)
EXTENDS MCEditors, IndexEditProofs, SequenceTheorems, FiniteSetTheorems, TLAPS

(***************************************************************************)
(* The query editor                                                        *)
(***************************************************************************)

\* What the editor shows is the draft stored for the collection it is on.
DraftInv ==
    /\ selected \in EdColls /\ mounted \in BOOLEAN
    /\ drafts = [coll \in EdColls |-> drafts[coll]]
    /\ EditorShowsOwnDraft

\* An update, waiting to be confirmed or sent, with the request that counted it.
AsCounted(u) == u.filter = u.counted.filter /\ u.update = u.counted.update

UpdateRequest(coll, filter, update, counted, heard) ==
    [kind |-> "update", coll |-> coll, filter |-> filter, update |-> update,
     counted |-> counted, heard |-> heard]

IsUpdate(r) ==
    /\ \E coll, filter, update, counted, heard :
          r = UpdateRequest(coll, filter, update, counted, heard)
    /\ AsCounted(r)

UpdateInv ==
    /\ \A p \in pendingUpdate : AsCounted(p)
    /\ \A r \in asked : r.kind = "update" => IsUpdate(r)

LEMMA QueryInitially == QeInit => DraftInv /\ UpdateInv
BY DEF QeInit, DraftInv, UpdateInv, EditorShowsOwnDraft

\* Showing a draft stores it.
LEMMA ShowingKeeps ==
    ASSUME DraftInv, NEW coll \in EdColls, NEW ds, ShowDraft(coll, ds),
           selected' = coll, mounted' = TRUE
    PROVE  DraftInv'
BY DEF DraftInv, ShowDraft, EditorShowsOwnDraft

LEMMA PatchingKeeps ==
    ASSUME DraftInv, NEW ds, PatchDraft(ds), mounted, UNCHANGED <<selected, mounted>>
    PROVE  DraftInv'
BY ShowingKeeps DEF PatchDraft, DraftInv

\* An editor that is off screen shows nothing of any collection.
LEMMA AwayKeeps ==
    ASSUME DraftInv, selected' \in EdColls, mounted' = FALSE, draft' = {}, UNCHANGED drafts
    PROVE  DraftInv'
BY DEF DraftInv, EditorShowsOwnDraft

LEMMA StillKeeps ==
    ASSUME DraftInv, UNCHANGED <<selected, mounted, drafts, draft>>
    PROVE  DraftInv'
BY DEF DraftInv, EditorShowsOwnDraft

LEMMA DraftStep == DraftInv /\ QeNext => DraftInv'
<1> SUFFICES ASSUME DraftInv, QeNext PROVE DraftInv'
  OBVIOUS
<1>0. /\ selected \in EdColls /\ mounted \in BOOLEAN
      /\ ~mounted => draft = {}
      /\ \A kind \in {"find", "aggregate", "update"} : InMode(kind) => mounted
  BY DEF DraftInv, EditorShowsOwnDraft, InMode
<1>1. ASSUME NEW coll \in EdColls, SelectCollectionHere(coll) PROVE DraftInv'
  <2>1. selected' = coll /\ UNCHANGED mounted
    BY <1>1 DEF SelectCollectionHere
  <2>2. CASE mounted /\ ReloadDraft(coll, DefaultQuery)
    BY <2>1, <2>2, ShowingKeeps DEF ReloadDraft
  <2>3. CASE ~mounted /\ UNCHANGED editorTexts
    BY <1>0, <2>1, <2>3, AwayKeeps DEF editorTexts
  <2> QED BY <1>1, <2>2, <2>3 DEF SelectCollectionHere
<1>2. CASE LeaveDocuments
  BY <1>0, <1>2, AwayKeeps DEF LeaveDocuments, appVars
<1>3. CASE ReturnToDocuments
  BY <1>0, <1>3, ShowingKeeps DEF ReturnToDocuments, Mounts, appVars
<1>4. CASE ReloadPage
  <2>1. UNCHANGED <<selected, mounted>>
    BY <1>4 DEF ReloadPage
  <2>2. CASE mounted /\ ReloadDraft(selected, DefaultQuery)
    BY <1>0, <2>1, <2>2, ShowingKeeps DEF ReloadDraft
  <2>3. CASE UNCHANGED editorTexts
    BY <2>1, <2>3, StillKeeps DEF editorTexts
  <2> QED BY <1>4, <2>2, <2>3 DEF ReloadPage
<1>5. ASSUME NEW coll \in EdColls, NEW text_ \in TypedTexts, Replay(coll, text_) PROVE DraftInv'
  BY <1>5, ShowingKeeps DEF Replay, Mounts
<1>6. ASSUME NEW box \in Boxes, NEW text_ \in TypedTexts, TypeIn(box, text_) PROVE DraftInv'
  BY <1>6, PatchingKeeps DEF TypeIn, appVars
<1>7. CASE FixJson
  BY <1>7, PatchingKeeps DEF FixJson, appVars
<1>8. ASSUME NEW m, NEW text_, ApplyPreset(m, text_) PROVE DraftInv'
  BY <1>8, PatchingKeeps DEF ApplyPreset, appVars
<1>9. ASSUME NEW m, SwitchMode(m) PROVE DraftInv'
  BY <1>9, PatchingKeeps DEF SwitchMode
<1>10. ASSUME NEW box, NEW text_, PickFromResults(box, text_) PROVE DraftInv'
  BY <1>10, PatchingKeeps DEF PickFromResults
<1>11. ASSUME NEW whole \in BOOLEAN, RunFind(whole) PROVE DraftInv'
  <2>1. mounted /\ UNCHANGED <<selected, mounted>> /\ \E ds : PatchDraft(ds)
    BY <1>0, <1>11 DEF RunFind
  <2> QED BY <2>1, PatchingKeeps
<1>12. CASE RunAggregate \/ PrepareUpdateMany \/ CancelUpdate \/ ConfirmUpdate
  BY <1>12, StillKeeps DEF RunAggregate, PrepareUpdateMany, CancelUpdate, ConfirmUpdate,
     appVars, editorTexts
<1>13. ASSUME NEW r \in asked,
              AggregateAnswers(r) \/ CountAnswers(r) \/ UpdateAnswers(r) \/ AskedFails(r)
       PROVE  DraftInv'
  BY <1>13, StillKeeps DEF AggregateAnswers, CountAnswers, UpdateAnswers, AskedFails,
     appVars, editorTexts
<1> QED BY <1>1, <1>2, <1>3, <1>4, <1>5, <1>6, <1>7, <1>8, <1>9, <1>10, <1>11, <1>12, <1>13
        DEF QeNext

\* A step that asks nothing new and forgets what it likes.
LEMMA FewerKeep ==
    ASSUME UpdateInv, pendingUpdate' \subseteq pendingUpdate, asked' \subseteq asked
    PROVE  UpdateInv'
BY DEF UpdateInv

LEMMA AskingKeeps ==
    ASSUME UpdateInv, NEW r, Asks(r), r.kind = "update" => IsUpdate(r), UNCHANGED pendingUpdate
    PROVE  UpdateInv'
BY DEF UpdateInv, Asks

LEMMA UpdateStep == UpdateInv /\ QeNext => UpdateInv'
<1> SUFFICES ASSUME UpdateInv, QeNext PROVE UpdateInv'
  OBVIOUS
<1>1. ASSUME UNCHANGED <<pendingUpdate, asked>> PROVE UpdateInv'
  BY <1>1, FewerKeep
<1>2. CASE LeaveDocuments
  <2>1. ASSUME NEW s \in asked', s.kind = "update" PROVE IsUpdate(s)
    <3>1. PICK r \in asked : s = IF r.kind = "update" THEN [r EXCEPT !.heard = FALSE] ELSE r
      BY <1>2 DEF LeaveDocuments
    <3>2. r.kind = "update" /\ s = [r EXCEPT !.heard = FALSE]
      BY <2>1, <3>1
    <3>3. IsUpdate(r)
      BY <3>2 DEF UpdateInv
    <3>4. PICK coll, filter, update, counted, heard :
             r = UpdateRequest(coll, filter, update, counted, heard)
      BY <3>3 DEF IsUpdate
    <3>5. s = UpdateRequest(coll, filter, update, counted, FALSE)
      BY <3>2, <3>4 DEF UpdateRequest
    <3>6. AsCounted(s)
      BY <3>3, <3>4, <3>5 DEF IsUpdate, AsCounted, UpdateRequest
    <3> QED BY <3>5, <3>6 DEF IsUpdate
  <2> QED BY <1>2, <2>1 DEF LeaveDocuments, UpdateInv
<1>3. CASE ReloadPage
  BY <1>3, FewerKeep DEF ReloadPage
<1>4. CASE RunAggregate
  BY <1>4, AskingKeeps DEF RunAggregate
<1>5. CASE PrepareUpdateMany
  <2>1. PICK filter, update :
           Asks([kind |-> "count", coll |-> selected, filter |-> filter, update |-> update])
    BY <1>5 DEF PrepareUpdateMany
  <2> QED BY <1>5, <2>1, AskingKeeps DEF PrepareUpdateMany
<1>6. CASE CancelUpdate
  BY <1>6, FewerKeep DEF CancelUpdate
<1>7. CASE ConfirmUpdate
  <2>1. PICK p \in pendingUpdate : Asks(UpdateRequest(selected, p.filter, p.update, p.counted, TRUE))
    BY <1>7 DEF ConfirmUpdate, UpdateRequest
  <2>2. IsUpdate(UpdateRequest(selected, p.filter, p.update, p.counted, TRUE))
    BY DEF UpdateInv, IsUpdate, AsCounted, UpdateRequest
  <2> QED BY <1>7, <2>1, <2>2, AskingKeeps DEF ConfirmUpdate
<1>8. ASSUME NEW r \in asked, CountAnswers(r) PROVE UpdateInv'
  BY <1>8 DEF CountAnswers, UpdateInv, AsCounted
<1>9. ASSUME NEW r \in asked, AggregateAnswers(r) \/ UpdateAnswers(r) \/ AskedFails(r)
      PROVE  UpdateInv'
  BY <1>9, FewerKeep DEF AggregateAnswers, UpdateAnswers, AskedFails
<1> QED BY <1>1, <1>2, <1>3, <1>4, <1>5, <1>6, <1>7, <1>8, <1>9
        DEF QeNext, SelectCollectionHere, ReturnToDocuments, Replay, TypeIn, FixJson, SwitchMode,
            ApplyPreset, PickFromResults, RunFind

LEMMA QueryStep == DraftInv /\ UpdateInv /\ [QeNext]_queryEditorVars => DraftInv' /\ UpdateInv'
<1> SUFFICES ASSUME DraftInv, UpdateInv, UNCHANGED queryEditorVars PROVE DraftInv' /\ UpdateInv'
  BY DraftStep, UpdateStep
<1> QED BY StillKeeps, FewerKeep DEF queryEditorVars, appVars, editorTexts

\* No collection's text is ever typed over another's: what is in the editor is
\* the draft of the collection it is on (QueryEditor.tsx:120-128).
THEOREM DraftsAreOwn == QeSpec => []EditorShowsOwnDraft
<1>1. DraftInv => EditorShowsOwnDraft
  BY DEF DraftInv
<1> QED BY QueryInitially, QueryStep, <1>1, PTL DEF QeSpec

\* The filter and the update that are sent are those whose matches were counted,
\* whatever was typed, picked or loaded since (QueryEditor.tsx:416-466).
THEOREM UpdatesAreAsCounted == QeSpec => []UpdateSentAsCounted
<1>1. UpdateInv => UpdateSentAsCounted
  BY DEF UpdateInv, UpdateSentAsCounted, IsUpdate, AsCounted
<1> QED BY QueryInitially, QueryStep, <1>1, PTL DEF QeSpec

(***************************************************************************)
(* The document editor                                                     *)
(***************************************************************************)

DocCalls == [kind : {"insert", "replace", "delete"}, doc : Docs, is : Contents \cup {Gone},
             of : Docs \cup {Gone}, heard : BOOLEAN, asked : BOOLEAN]

EditorRanges ==
    /\ contents \in [Docs -> Contents \cup {Gone}]
    /\ held \in [Docs -> Contents \cup {Gone}]
    /\ at \in Docs \cup {Gone} /\ mode \in {"closed", "new", "edit"}
    /\ text \in [is : Contents \cup {Gone}, of : Docs \cup {Gone}]
    /\ asking \in Confirmations \cup {"nothing"}
    /\ asking # "nothing" => Mounted
    /\ calls \subseteq DocCalls

\* Once the document that is shown was loaded, the text is of that document.
TextIsOfItsDocument == Mounted /\ mode = "edit" /\ held[at] # Gone => text.of = at

\* The inductive invariant.
SaveInv == EditorRanges /\ TextIsOfItsDocument /\ SavesWhatItLoaded

LEMMA DocInitially == DocInit => SaveInv
BY DocumentEditorAssumption DEF DocInit, SaveInv, EditorRanges, TextIsOfItsDocument, SavesWhatItLoaded,
   Mounted, NoText, Confirmations

\* Calls that nobody hears any more are the calls that were made.
LEMMA UnheardKeeps ==
    ASSUME calls \subseteq DocCalls, SavesWhatItLoaded, NEW some \in SUBSET calls,
           calls' = {[c EXCEPT !.heard = FALSE] : c \in some}
    PROVE  calls' \subseteq DocCalls /\ SavesWhatItLoaded'
<1>1. ASSUME NEW n \in calls'
      PROVE  n \in DocCalls /\ (n.kind = "replace" /\ ~n.asked => n.of = n.doc)
  <2>1. PICK c \in some : n = [c EXCEPT !.heard = FALSE]
    OBVIOUS
  <2>2. c \in DocCalls /\ (c.kind = "replace" /\ ~c.asked => c.of = c.doc)
    BY DEF SavesWhatItLoaded
  <2> QED BY <2>1, <2>2 DEF DocCalls
<1> QED BY <1>1 DEF SavesWhatItLoaded

\* A call sent from the open editor.
LEMMA SendingKeeps ==
    ASSUME SaveInv, Mounted, NEW kind \in {"insert", "replace", "delete"}, Sends(kind),
           kind = "replace" /\ asking = "nothing" => mode = "edit" /\ held[at] # Gone
    PROVE  calls' \subseteq DocCalls /\ SavesWhatItLoaded'
<1> DEFINE new == [kind |-> kind, doc |-> at, is |-> text.is, of |-> text.of,
                   heard |-> TRUE, asked |-> asking # "nothing"]
<1>1. new \in DocCalls
  BY DEF SaveInv, EditorRanges, DocCalls, Mounted
<1>2. new.kind = "replace" /\ ~new.asked => new.of = new.doc
  BY DEF SaveInv, TextIsOfItsDocument
<1>3. calls' = calls \cup {new}
  BY DEF Sends
<1> HIDE DEF new
<1> QED BY <1>1, <1>2, <1>3 DEF SaveInv, EditorRanges, SavesWhatItLoaded

\* A query that comes to be shown puts the text of its document on screen, or
\* has nothing loaded.
LEMMA LooksLoads ==
    ASSUME EditorRanges, NEW d \in Docs, Looks(d)
    PROVE  /\ text' \in [is : Contents \cup {Gone}, of : Docs \cup {Gone}]
           /\ held[d] # Gone => text'.of = d
BY DEF EditorRanges, Looks, Loads

\* The part of a step that closes the editor, or lets its document go.
LEMMA UnmountKeeps ==
    ASSUME SaveInv, UNCHANGED <<contents, held>>, at' \in Docs \cup {Gone},
           mode' \in {"closed", "new", "edit"}, ~Mounted', Unmounted
    PROVE  SaveInv'
<1>1. calls' \subseteq DocCalls /\ SavesWhatItLoaded'
  BY UnheardKeeps DEF SaveInv, EditorRanges, Unmounted, Unheard
<1> QED BY <1>1 DEF SaveInv, EditorRanges, TextIsOfItsDocument, Unmounted, NoText

LEMMA CloseKeeps == SaveInv /\ CloseEditor => SaveInv'
<1> SUFFICES ASSUME SaveInv, CloseEditor PROVE SaveInv'
  OBVIOUS
<1>1. /\ UNCHANGED <<contents, at, held>> /\ mode' = "closed" /\ Unmounted
      /\ at \in Docs \cup {Gone}
  BY DEF CloseEditor, SaveInv, EditorRanges
<1>2. ~Mounted'
  BY <1>1 DEF Mounted
<1> QED BY <1>1, <1>2, UnmountKeeps

LEMMA CancelKeeps == SaveInv /\ CancelConfirmation => SaveInv'
BY DEF SaveInv, EditorRanges, TextIsOfItsDocument, SavesWhatItLoaded, CancelConfirmation, Mounted,
   Confirmations

LEMMA DocStep == SaveInv /\ [DocNext]_docVars => SaveInv'
<1> SUFFICES ASSUME SaveInv, [DocNext]_docVars PROVE SaveInv'
  OBVIOUS
<1>0. EditorRanges /\ TextIsOfItsDocument /\ SavesWhatItLoaded
  BY DEF SaveInv
<1>1. CASE OpenDocument
  <2>1. at \in Docs /\ mode' = "edit" /\ asking' = "nothing" /\ Looks(at)
        /\ UNCHANGED <<contents, at, held, calls>>
    BY <1>0, <1>1 DEF OpenDocument, EditorRanges
  <2> QED BY <1>0, <2>1, LooksLoads DEF SaveInv, EditorRanges, TextIsOfItsDocument,
             SavesWhatItLoaded, Mounted
<1>2. CASE NewDocument
  BY <1>0, <1>2 DEF NewDocument, NoText, SaveInv, EditorRanges, TextIsOfItsDocument,
     SavesWhatItLoaded, Mounted
<1>3. CASE Cancel
  BY <1>3, CloseKeeps DEF Cancel
<1>4. CASE Arrives
  <2>1. at \in Docs /\ contents[at] \in Contents /\ UNCHANGED <<contents, at, mode, asking, calls>>
        /\ held' = [held EXCEPT ![at] = contents[at]]
    BY <1>0, <1>4 DEF Arrives, EditorRanges, Mounted
  <2>2. CASE held[at] = contents[at] /\ UNCHANGED <<text, edited>>
    BY <1>0, <2>1, <2>2, DocumentEditorAssumption DEF SaveInv, EditorRanges, TextIsOfItsDocument,
       SavesWhatItLoaded, Mounted
  <2>3. CASE Loads(at, contents[at])
    BY <1>0, <2>1, <2>3 DEF Loads, SaveInv, EditorRanges, TextIsOfItsDocument,
       SavesWhatItLoaded, Mounted
  <2> QED BY <1>4, <2>2, <2>3 DEF Arrives
<1>5. CASE LoadFails \/ Focus \/ Rerenders
  BY <1>0, <1>5 DEF LoadFails, Focus, Rerenders, SaveInv, EditorRanges, TextIsOfItsDocument,
     SavesWhatItLoaded, Mounted
<1>6. ASSUME NEW d \in Docs \cup {Gone}, BackTo(d) PROVE SaveInv'
  <2>1. at' = d /\ UNCHANGED <<contents, held>>
    BY <1>6 DEF BackTo
  <2>2. CASE /\ d # Gone /\ mode = "edit" /\ Looks(d)
             /\ UNCHANGED <<mode, asking, calls>>
    <3>1. d \in Docs
      BY <2>2
    <3>2. asking # "nothing" => Mounted'
      BY <1>0, <2>1, <2>2 DEF EditorRanges, Mounted
    <3> QED BY <1>0, <2>1, <2>2, <3>1, <3>2, LooksLoads DEF SaveInv, EditorRanges,
            TextIsOfItsDocument, SavesWhatItLoaded, Mounted
  <2>3. CASE /\ d # Gone /\ mode = "new" /\ UNCHANGED <<mode, text, asking, calls>>
    BY <1>0, <2>1, <2>3 DEF SaveInv, EditorRanges, TextIsOfItsDocument, SavesWhatItLoaded, Mounted
  <2>4. CASE d = Gone /\ Unmounted /\ UNCHANGED mode
    <3>1. ~Mounted'
      BY <2>1, <2>4 DEF Mounted
    <3> QED BY <1>0, <2>1, <2>4, <3>1, UnmountKeeps DEF EditorRanges
  <2>5. CASE ~Mounted /\ mode # "edit" /\ UNCHANGED <<mode, text, asking, calls>>
    BY <1>0, <2>1, <2>5 DEF SaveInv, EditorRanges, TextIsOfItsDocument, SavesWhatItLoaded, Mounted
  <2>6. CASE ~Mounted /\ mode = "edit" /\ d = Gone
    BY <1>0, <1>6, <2>6 DEF BackTo, Mounted, EditorRanges
  <2> QED BY <1>6, <2>2, <2>3, <2>4, <2>5, <2>6 DEF BackTo
<1>7. ASSUME NEW d \in Docs, NEW content \in Contents \cup {Gone}, OtherWrites(d, content)
      PROVE  SaveInv'
  BY <1>0, <1>7 DEF OtherWrites, SaveInv, EditorRanges, TextIsOfItsDocument, SavesWhatItLoaded, Mounted
<1>8. ASSUME NEW content \in Contents, Type(content) PROVE SaveInv'
  BY <1>0, <1>8 DEF Type, SaveInv, EditorRanges, TextIsOfItsDocument, SavesWhatItLoaded, Mounted
<1>9. CASE SortFields
  BY <1>0, <1>9 DEF SortFields, NoText, SaveInv, EditorRanges, TextIsOfItsDocument,
     SavesWhatItLoaded, Mounted
<1>10. CASE SaveDocument
  <2>1. /\ Mounted /\ asking = "nothing" /\ CanSave
        /\ UNCHANGED <<contents, at, mode, held, text>>
    BY <1>10 DEF SaveDocument
  <2>2. CASE asking' = "risky" /\ UNCHANGED calls
    BY <1>0, <2>1, <2>2 DEF SaveInv, EditorRanges, TextIsOfItsDocument, SavesWhatItLoaded, Mounted,
       Confirmations
  <2>3. CASE Sends(IF mode = "new" THEN "insert" ELSE "replace") /\ UNCHANGED asking
    <3>1. mode \in {"new", "edit"} /\ (mode = "edit" => held[at] # Gone)
      BY <1>0, <2>1 DEF EditorRanges, Mounted, CanSave
    <3>2. calls' \subseteq DocCalls /\ SavesWhatItLoaded'
      BY <2>1, <2>3, <3>1, SendingKeeps
    <3> QED BY <1>0, <2>1, <2>3, <3>2 DEF SaveInv, EditorRanges, TextIsOfItsDocument, Mounted
  <2> QED BY <1>10, <2>2, <2>3 DEF SaveDocument
<1>11. CASE AskToDelete
  BY <1>0, <1>11 DEF AskToDelete, SaveInv, EditorRanges, TextIsOfItsDocument, SavesWhatItLoaded,
     Mounted, Confirmations
<1>12. CASE Confirm
  <2>1. UNCHANGED <<contents, at, mode, held, text>> /\ asking # "nothing" /\ Mounted
    BY <1>0, <1>12 DEF Confirm, EditorRanges
  <2>2. PICK kind \in {"insert", "replace", "delete"} : Sends(kind)
    BY <1>12 DEF Confirm
  <2>3. calls' \subseteq DocCalls /\ SavesWhatItLoaded'
    BY <2>1, <2>2, SendingKeeps
  <2>4. asking' \in Confirmations \cup {"nothing"}
    BY <1>0, <1>12 DEF Confirm, EditorRanges
  <2> QED BY <1>0, <2>1, <2>3, <2>4 DEF SaveInv, EditorRanges, TextIsOfItsDocument, Mounted
<1>13. CASE CancelConfirmation
  BY <1>13, CancelKeeps
<1>14. CASE Escape
  BY <1>14, CloseKeeps, CancelKeeps DEF Escape
<1>15. ASSUME NEW call \in calls PROVE Written(call) \in [Docs -> Contents \cup {Gone}]
  BY <1>0 DEF Written, EditorRanges, DocCalls
<1>16. ASSUME NEW call \in calls, CallSucceeds(call) PROVE SaveInv'
  <2>1. calls' \subseteq DocCalls /\ SavesWhatItLoaded'
    BY <1>0, <1>16, UnheardKeeps DEF CallSucceeds, EditorRanges
  <2> QED BY <1>0, <1>15, <1>16, <2>1 DEF CallSucceeds, NoText, SaveInv, EditorRanges,
             TextIsOfItsDocument, Mounted
<1>17. ASSUME NEW call \in calls, CallFails(call) PROVE SaveInv'
  BY <1>0, <1>15, <1>17 DEF CallFails, SaveInv, EditorRanges, TextIsOfItsDocument,
     SavesWhatItLoaded, Mounted
<1>18. CASE UNCHANGED docVars
  BY <1>0, <1>18 DEF docVars, editorVars, SaveInv, EditorRanges, TextIsOfItsDocument,
     SavesWhatItLoaded, Mounted
<1> QED BY <1>1, <1>2, <1>3, <1>4, <1>5, <1>6, <1>7, <1>8, <1>9, <1>10, <1>11, <1>12, <1>13,
           <1>14, <1>16, <1>17, <1>18 DEF DocNext

\* A document is only replaced by text that began as that document, through any
\* number of late answers, refetches and steps Back (DocumentEditor.tsx:62-66).
THEOREM DocumentsSaveWhatTheyLoaded == DocSpec => []SavesWhatItLoaded
<1>1. SaveInv => SavesWhatItLoaded
  BY DEF SaveInv
<1> QED BY DocInitially, DocStep, <1>1, PTL DEF DocSpec

(***************************************************************************)
(* The dialogs' stack                                                      *)
(***************************************************************************)

\* The stack as the dialogs that are open leave it.
Nested ==
    IF ~Mounted THEN <<>> ELSE IF asking = "nothing" THEN <<"editor">> ELSE <<"editor", asking>>

StackInv ==
    /\ asking \in Confirmations \cup {"nothing"}
    /\ asking # "nothing" => Mounted
    /\ stack = Nested

LEMMA EmptyConcats ==
    ASSUME NEW one, NEW two
    PROVE  /\ <<one>> \o <<>> = <<one>> /\ <<>> \o <<one>> = <<one>>
           /\ <<one, two>> \o <<>> = <<one, two>> /\ <<>> \o <<one, two>> = <<one, two>>
<1>1. <<one>> \in Seq({one, two}) /\ <<one, two>> \in Seq({one, two})
  OBVIOUS
<1> QED BY <1>1, ConcatEmptySeq

LEMMA PairConcats ==
    ASSUME NEW one, NEW two
    PROVE  <<one>> \o <<two>> = <<one, two>>
<1> DEFINE T == {one, two}
<1>1. <<one>> \in Seq(T) /\ <<two>> \in Seq(T) /\ <<one, two>> \in Seq(T)
  OBVIOUS
<1>2. /\ <<one>> \o <<two>> \in Seq(T)
      /\ Len(<<one>> \o <<two>>) = 2
      /\ (<<one>> \o <<two>>)[1] = one
      /\ (<<one>> \o <<two>>)[2] = two
  BY <1>1, ConcatProperties
<1>3. \A i \in 1 .. 2 : (<<one>> \o <<two>>)[i] = <<one, two>>[i]
  BY <1>2
<1> QED BY <1>1, <1>2, <1>3, SeqEqual

LEMMA OnlyOfFew ==
    ASSUME NEW S
    PROVE  /\ Only(<<>>, S) = <<>>
           /\ \A d : Only(<<d>>, S) = IF d \in S THEN <<d>> ELSE <<>>
           /\ \A d, e : "editor" \in S /\ e \notin S => Only(<<"editor", e>>, S) = <<"editor">>
           /\ \A d, e : d \notin S /\ e \notin S => Only(<<d, e>>, S) = <<>>
BY DEF Only

LEMMA OnlyOfDialogs ==
    ASSUME NEW S
    PROVE  /\ S = {} => Only(EditorDialogs, S) = <<>>
           /\ S = {"editor"} => Only(EditorDialogs, S) = <<"editor">>
           /\ \A c \in Confirmations :
                 /\ S = {c} => Only(EditorDialogs, S) = <<c>>
                 /\ S = {"editor", c} => Only(EditorDialogs, S) = <<"editor", c>>
<1> DEFINE Member(d) == IF d \in S THEN <<d>> ELSE <<>>
<1>1. Only(EditorDialogs, S) = Member("editor") \o Member("delete") \o Member("risky")
  BY DEF Only, EditorDialogs
<1>2. CASE S = {"editor", "risky"}
  <2>1. \A d \in Confirmations : S # {d} /\ (S = {"editor", d} => d = "risky")
    BY <1>2 DEF Confirmations
  <2>2. Member("editor") = <<"editor">> /\ Member("risky") = <<"risky">> /\ Member("delete") = <<>>
    BY <1>2
  <2>3. Member("editor") \o Member("delete") \o Member("risky") = <<"editor", "risky">>
    <3>1. <<"editor">> \o <<>> = <<"editor">>
      BY EmptyConcats
    <3>2. <<"editor">> \o <<"risky">> = <<"editor", "risky">>
      BY PairConcats
    <3> QED BY <2>2, <3>1, <3>2
  <2> QED BY <1>1, <1>2, <2>1, <2>3
<1>3. CASE S = {"editor", "delete"}
  <2>1. \A d \in Confirmations : S # {d} /\ (S = {"editor", d} => d = "delete")
    BY <1>3 DEF Confirmations
  <2>2. Member("editor") = <<"editor">> /\ Member("delete") = <<"delete">> /\ Member("risky") = <<>>
    BY <1>3
  <2>3. Member("editor") \o Member("delete") \o Member("risky") = <<"editor", "delete">>
    <3>1. <<"editor">> \o <<"delete">> = <<"editor", "delete">>
      BY PairConcats
    <3>2. <<"editor", "delete">> \o <<>> = <<"editor", "delete">>
      BY EmptyConcats
    <3> QED BY <2>2, <3>1, <3>2
  <2> QED BY <1>1, <1>3, <2>1, <2>3
<1>4. CASE S = {"delete"}
  BY <1>1, <1>4 DEF Confirmations
<1>5. CASE S = {"risky"}
  BY <1>1, <1>5 DEF Confirmations
<1>6. CASE S = {}
  BY <1>1, <1>6 DEF Confirmations
<1>7. CASE S = {"editor"}
  BY <1>1, <1>7 DEF Confirmations
<1> QED BY <1>2, <1>3, <1>4, <1>5, <1>6, <1>7 DEF Confirmations

\* A stack built anew is that of the dialogs that are open.
LEMMA AppRendersNests ==
    ASSUME asking' \in Confirmations \cup {"nothing"}, asking' # "nothing" => Mounted',
           AppRenders, stack = Nested
    PROVE  StackInv'
<1>1. stack' = Only(stack, OpenDialogs' \ OpenDialogs') \o Only(EditorDialogs, OpenDialogs')
  <2>1. OpenDialogs' \subseteq Range(EditorDialogs)
    <3>1. {"editor", "delete", "risky"} = Range(EditorDialogs)
      BY DEF Range, EditorDialogs
    <3> QED BY <3>1 DEF OpenDialogs, Confirmations
  <2>2. (OpenDialogs' \ Range(stack)) \cup (OpenDialogs' \cap Range(EditorDialogs)) = OpenDialogs'
    BY <2>1
  <2> QED BY <2>2 DEF AppRenders, Restack
<1>2. Only(stack, {}) = <<>>
  BY OnlyOfFew DEF Nested
<1>3. stack' = Only(EditorDialogs, OpenDialogs')
  <2>1. Only(EditorDialogs, OpenDialogs') = Nested'
    BY OnlyOfDialogs DEF OpenDialogs, Nested
  <2>2. \/ Nested' = <<>> \/ Nested' = <<"editor">>
        \/ Nested' = <<"editor", asking'>>
    BY DEF Nested
  <2>3. <<>> \o Nested' = Nested'
    BY <2>2, EmptyConcats
  <2> QED BY <1>1, <1>2, <2>1, <2>3
<1>4. Only(EditorDialogs, OpenDialogs') = Nested'
  BY OnlyOfDialogs DEF OpenDialogs, Nested
<1> QED BY <1>3, <1>4 DEF StackInv

\* A confirmation that renders again goes back on top of the editor.
LEMMA EditorRendersNests ==
    ASSUME StackInv, asking' \in Confirmations \cup {"nothing"}, asking' # "nothing" => Mounted,
           UNCHANGED <<at, mode>>, EditorRenders
    PROVE  StackInv'
<1> DEFINE enters == (OpenDialogs' \ Range(stack)) \cup (OpenDialogs' \cap Confirmations)
<1>1. stack' = Only(stack, OpenDialogs' \ enters) \o Only(EditorDialogs, enters)
  BY DEF EditorRenders, Restack
<1>2. Mounted' = Mounted
  BY DEF Mounted
<1>3. CASE ~Mounted
  <2>1. OpenDialogs' = {} /\ stack = <<>> /\ asking' = "nothing"
    BY <1>2, <1>3 DEF OpenDialogs, StackInv, Nested
  <2>2. stack' = <<>>
    BY <1>1, <2>1, OnlyOfFew, OnlyOfDialogs
  <2> QED BY <1>2, <1>3, <2>1, <2>2 DEF StackInv, Nested
<1>4. CASE Mounted
  <2>1. stack = <<"editor">> \/ (asking \in Confirmations /\ stack = <<"editor", asking>>)
    BY <1>4 DEF StackInv, Nested
  <2>2. "editor" \in Range(stack) /\ "editor" \notin Confirmations
    BY <2>1 DEF Range, Confirmations
  <2>3. OpenDialogs' = {"editor", asking'} \ {"nothing"}
    BY <1>2, <1>4 DEF OpenDialogs
  <2>4. enters = {asking'} \ {"nothing"} /\ OpenDialogs' \ enters = {"editor"}
    BY <2>2, <2>3 DEF Confirmations
  <2>5. Only(stack, {"editor"}) = <<"editor">>
    BY <2>1, OnlyOfFew DEF Confirmations
  <2>6. stack' = <<"editor">> \o Only(EditorDialogs, {asking'} \ {"nothing"})
    BY <1>1, <2>4, <2>5
  <2>7. CASE asking' = "nothing"
    <3>1. Only(EditorDialogs, {asking'} \ {"nothing"}) = <<>>
      BY <2>7, OnlyOfDialogs
    <3>2. stack' = <<"editor">>
      BY <2>6, <3>1
    <3> QED BY <1>2, <1>4, <2>7, <3>2 DEF StackInv, Nested
  <2>8. CASE asking' \in Confirmations
    <3>1. asking' # "nothing" /\ {asking'} \ {"nothing"} = {asking'}
      BY <2>8 DEF Confirmations
    <3>2. Only(EditorDialogs, {asking'}) = <<asking'>>
      BY <2>8, OnlyOfDialogs
    <3>3. stack' = <<"editor", asking'>>
      BY <2>6, <3>1, <3>2, PairConcats
    <3> QED BY <1>2, <1>4, <2>8, <3>1, <3>3 DEF StackInv, Nested
  <2> QED BY <2>7, <2>8
<1> QED BY <1>3, <1>4

LEMMA CloseNests == StackInv /\ CloseEditor => StackInv'
BY AppRendersNests DEF CloseEditor, Unmounted, StackInv

LEMMA CancelNests == StackInv /\ CancelConfirmation => StackInv'
BY EditorRendersNests DEF CancelConfirmation, StackInv

LEMMA StackStep == StackInv /\ [DocNext]_docVars => StackInv'
<1> SUFFICES ASSUME StackInv, [DocNext]_docVars PROVE StackInv'
  OBVIOUS
<1>1. CASE OpenDocument \/ NewDocument \/ Rerenders
  BY <1>1, AppRendersNests DEF OpenDocument, NewDocument, Rerenders, Mounted, StackInv
<1>2. ASSUME NEW d \in Docs \cup {Gone}, BackTo(d) PROVE StackInv'
  <2>1. asking' \in Confirmations \cup {"nothing"} /\ AppRenders /\ stack = Nested
    BY <1>2 DEF BackTo, Unmounted, StackInv
  <2>2. asking' # "nothing" => Mounted'
    BY <1>2 DEF BackTo, Unmounted, StackInv, Mounted
  <2> QED BY <2>1, <2>2, AppRendersNests
<1>3. CASE \/ Arrives \/ LoadFails \/ Focus \/ SortFields \/ UNCHANGED docVars
           \/ \E d \in Docs, content \in Contents \cup {Gone} : OtherWrites(d, content)
           \/ \E content \in Contents : Type(content)
  <2>1. UNCHANGED <<at, mode, asking, stack>>
    BY <1>3 DEF Arrives, LoadFails, Focus, SortFields, OtherWrites, Type, docVars, editorVars
  <2> QED BY <2>1 DEF StackInv, Nested, Mounted
<1>4. CASE SaveDocument \/ AskToDelete \/ Confirm
  <2>1. /\ asking' \in Confirmations \cup {"nothing"} /\ Mounted
        /\ UNCHANGED <<at, mode>> /\ EditorRenders
    BY <1>4 DEF SaveDocument, AskToDelete, Confirm, StackInv, Confirmations
  <2> QED BY <2>1, EditorRendersNests
<1>5. ASSUME NEW call \in calls, CallSucceeds(call) \/ CallFails(call) PROVE StackInv'
  <2>1. CASE CallSucceeds(call)
    BY <2>1, AppRendersNests DEF CallSucceeds, StackInv
  <2>2. CASE CallFails(call)
    BY <2>2, EditorRendersNests DEF CallFails, StackInv
  <2> QED BY <1>5, <2>1, <2>2
<1>6. CASE Cancel \/ CancelConfirmation \/ Escape
  BY <1>6, CloseNests, CancelNests DEF Cancel, Escape
<1> QED BY <1>1, <1>2, <1>3, <1>4, <1>5, <1>6 DEF DocNext

\* Escape acts on the innermost dialog alone, in whatever order the dialogs
\* rendered (Modal.tsx:7-17).
THEOREM EscapesAreForInnermost == DocSpec => []EscapeIsForInnermost
<1>1. DocInit => StackInv
  BY DEF DocInit, StackInv, Nested, Mounted
<1>2. StackInv => EscapeIsForInnermost
  <2> SUFFICES ASSUME StackInv PROVE EscapeIsForInnermost
    OBVIOUS
  <2>1. CASE ~Mounted
    BY <2>1 DEF StackInv, Nested, EscapeIsForInnermost, OpenDialogs, Range
  <2>2. CASE Mounted /\ asking = "nothing"
    BY <2>2 DEF StackInv, Nested, EscapeIsForInnermost, OpenDialogs, Range
  <2>3. CASE Mounted /\ asking \in Confirmations
    <3>1. stack = <<"editor", asking>> /\ asking # "nothing"
      BY <2>3 DEF StackInv, Nested, Confirmations
    <3>2. Range(stack) = {"editor", asking}
      BY <3>1 DEF Range
    <3>3. OpenDialogs = {"editor", asking}
      BY <2>3, <3>1 DEF OpenDialogs
    <3>4. Last(stack) = asking
      BY <3>1 DEF Last
    <3> QED BY <3>2, <3>3, <3>4 DEF EscapeIsForInnermost
  <2> QED BY <2>1, <2>2, <2>3 DEF StackInv
<1> QED BY <1>1, <1>2, StackStep, PTL DEF DocSpec
-----------------------------------------------------------------------------
(***************************************************************************)
(* The form of a Redis key                                                 *)
(***************************************************************************)

Value(type, rows, ttl) == [type |-> type, rows |-> rows, ttl |-> ttl]

KeyState(v) == v = NoKey \/ IsRedisValue(v)

Values == {v \in [type : ValueTypes, rows : Rows, ttl : 0 .. MaxTtl] : IsValue(v)}

\* The replacements and the other calls.
Replaces == [kind : {"replace"}, key : FormKeys, value : Values, from : FormKeys,
             exact : BOOLEAN, untouched : BOOLEAN, heard : BOOLEAN]
Others == [kind : {"insert", "delete"}, key : FormKeys, untouched : BOOLEAN, heard : BOOLEAN]

\* What v tells of a key that holds old.
Told(v, whole, old) == Tells(v, old) /\ (whole => Same(v, old))

\* Nothing is lost of a value that has no empty row.
Whole(v) == v.type = "list" => NoString \notin Range(v.rows)

FormTypes ==
    /\ redis = [k \in FormKeys |-> redis[k]] /\ cached = [k \in FormKeys |-> cached[k]]
    /\ \A k \in FormKeys : KeyState(redis[k]) /\ KeyState(cached[k])
    /\ keyAt \in FormKeys /\ target \in {"closed", "new", "edit"}
    /\ fetch \in {"idle", "loading", "failed"}
    /\ IsValue(fields) /\ filledFrom \in FormKeys \cup {NoKey}
    /\ exact \in BOOLEAN /\ untouched \in BOOLEAN /\ confirming \in BOOLEAN
    /\ confirming => target = "edit"

\* A form that may be saved was filled from its key, and what nobody touched
\* was read of what the key holds, all of it if the filling was exact.
FilledInv ==
    /\ fetch # "idle" => target = "edit"
    /\ target = "edit" /\ cached[keyAt] # NoKey => filledFrom = keyAt
    /\ untouched => target = "edit" /\ redis[keyAt] # NoKey /\ Told(fields, exact, redis[keyAt])

\* A save under way is of the key it was filled from; the same holds of it.
SentInv ==
    /\ sent \subseteq Replaces \cup Others
    /\ \A s, t \in sent : s = t
    /\ \A s \in sent : s.kind = "replace" => s.from = s.key
    /\ \A s \in sent :
          s.kind = "replace" /\ s.untouched /\ redis[s.key] # NoKey /\ Whole(redis[s.key]) =>
              Told(s.value, s.exact, redis[s.key])

FormInv == FormTypes /\ FilledInv /\ SentInv

LEMMA ValueShape ==
    ASSUME NEW v, IsValue(v)
    PROVE  /\ v = Value(v.type, v.rows, v.ttl)
           /\ v.type \in ValueTypes /\ v.rows \in Rows /\ v.ttl \in 0 .. MaxTtl
           /\ v.type = "string" => Len(v.rows) = 1
BY DEF IsValue, Value

LEMMA ValueOf ==
    ASSUME NEW type \in ValueTypes, NEW rows \in Rows, NEW ttl \in 0 .. MaxTtl,
           type = "string" => Len(rows) = 1
    PROVE  /\ IsValue(Value(type, rows, ttl))
           /\ Value(type, rows, ttl).rows = rows
           /\ Value(type, rows, ttl).type = type
           /\ Value(type, rows, ttl).ttl = ttl
BY DEF IsValue, Value

LEMMA RowsAre ==
    ASSUME NEW rows
    PROVE  rows \in Rows <=> rows \in Seq(Strings) /\ Len(rows) <= MaxRows
<1>1. MaxRows \in Nat
  BY RedisFormAssumption
<1>2. ASSUME rows \in Rows PROVE rows \in Seq(Strings) /\ Len(rows) <= MaxRows
  <2>1. PICK m \in 0 .. MaxRows : rows \in [1 .. m -> Strings]
    BY <1>2 DEF Rows, SeqOf
  <2>2. m \in Nat /\ m <= MaxRows
    BY <1>1, <2>1
  <2>3. rows \in Seq(Strings)
    BY <2>1, <2>2
  <2>4. Len(rows) = m
    BY <2>1, <2>2, <2>3, LenProperties
  <2> QED BY <2>2, <2>3, <2>4
<1>3. ASSUME rows \in Seq(Strings), Len(rows) <= MaxRows PROVE rows \in Rows
  <2>1. Len(rows) \in 0 .. MaxRows /\ rows \in [1 .. Len(rows) -> Strings]
    BY <1>1, <1>3, LenProperties
  <2> QED BY <2>1 DEF Rows, SeqOf
<1> QED BY <1>2, <1>3

LEMMA UpToCount ==
    ASSUME NEW n \in Nat
    PROVE  IsFiniteSet(1 .. n) /\ Cardinality(1 .. n) = n
<1>1. /\ IsFiniteSet(1 .. n)
      /\ Cardinality(1 .. n) = IF 1 > n THEN 0 ELSE n - 1 + 1
  BY FS_Interval
<1> QED BY <1>1

\* The n-th of a set of places.
LEMMA NthPlace ==
    ASSUME NEW m \in Nat, NEW kept \in SUBSET (1 .. m), NEW n \in 1 .. Cardinality(kept)
    PROVE  \E i \in kept : Cardinality(kept \cap 1 .. i) = n
<1> DEFINE C == 1 .. Cardinality(kept)
           f == [i \in kept |-> Cardinality(kept \cap 1 .. i)]
<1>1. IsFiniteSet(kept) /\ Cardinality(kept) \in Nat
  <2>1. IsFiniteSet(1 .. m)
    BY UpToCount
  <2> QED BY <2>1, FS_Subset, FS_CardinalityType
<1>2. ASSUME NEW i \in kept
      PROVE  /\ IsFiniteSet(kept \cap 1 .. i) /\ Cardinality(kept \cap 1 .. i) \in C
             /\ i \in kept \cap 1 .. i
  <2>1. i \in kept \cap 1 .. i
    OBVIOUS
  <2>2. kept \cap 1 .. i \in SUBSET kept
    OBVIOUS
  <2>3. IsFiniteSet(kept \cap 1 .. i) /\ Cardinality(kept \cap 1 .. i) <= Cardinality(kept)
    BY <1>1, <2>2, FS_Subset
  <2>4. Cardinality(kept \cap 1 .. i) \in Nat /\ Cardinality(kept \cap 1 .. i) # 0
    BY <2>1, <2>3, FS_CardinalityType, FS_EmptySet
  <2> QED BY <1>1, <2>1, <2>3, <2>4
<1>3. ASSUME NEW i \in kept, NEW j \in kept, i < j
      PROVE  Cardinality(kept \cap 1 .. i) # Cardinality(kept \cap 1 .. j)
  <2>1. kept \cap 1 .. i \in SUBSET (kept \cap 1 .. j)
    BY <1>3
  <2>2. j \notin kept \cap 1 .. i /\ j \in kept \cap 1 .. j
    BY <1>3
  <2>3. IsFiniteSet(kept \cap 1 .. j)
    BY <1>2
  <2>4. Cardinality(kept \cap 1 .. i) = Cardinality(kept \cap 1 .. j)
            => kept \cap 1 .. i = kept \cap 1 .. j
    BY <2>1, <2>3, FS_Subset
  <2> QED BY <2>2, <2>4
<1>4. ASSUME NEW i \in kept, NEW j \in kept, f[i] = f[j]
      PROVE  i = j
  <2>1. i \in Int /\ j \in Int
    OBVIOUS
  <2>2. i < j \/ j < i \/ i = j
    BY <2>1
  <2>3. Cardinality(kept \cap 1 .. i) = Cardinality(kept \cap 1 .. j)
    BY <1>4
  <2> QED BY <1>3, <2>2, <2>3
<1>5. f \in Injection(kept, C)
  <2>1. f \in [kept -> C]
    BY <1>2
  <2> QED BY <1>4, <2>1 DEF Injection, IsInjective
<1>6. IsFiniteSet(C) /\ Cardinality(C) = Cardinality(kept)
  BY <1>1, UpToCount
<1> HIDE DEF f
<1>7. f \in Surjection(kept, C)
  BY <1>1, <1>5, <1>6, FS_Injection
<1>8. PICK i \in kept : f[i] = n
  BY <1>7 DEF Surjection
<1> QED BY <1>8 DEF f

\* JSON keeps the number of rows, and which of them are empty.
LEMMA JsonRows ==
    ASSUME NEW rows \in Rows
    PROVE  /\ AsJson(rows) \in Rows /\ Len(AsJson(rows)) = Len(rows)
           /\ rows # <<>> => AsJson(rows) # <<>>
           /\ NoString \notin Range(rows) => NoString \notin Range(AsJson(rows))
<1>1. /\ rows \in Seq(Strings) /\ Len(rows) \in Nat /\ Len(rows) <= MaxRows
      /\ DOMAIN rows = 1 .. Len(rows) /\ \A i \in 1 .. Len(rows) : rows[i] \in Strings
  BY RowsAre, LenProperties, ElementOfSeq
<1>2. \A s \in Strings : Decoded[s] \in Strings /\ (Decoded[s] = NoString <=> s = NoString)
  BY RedisFormAssumption
<1>3. AsJson(rows) = [i \in 1 .. Len(rows) |-> Decoded[rows[i]]]
  BY <1>1 DEF AsJson
<1>4. AsJson(rows) \in [1 .. Len(rows) -> Strings]
  BY <1>1, <1>2, <1>3
<1>5. AsJson(rows) \in Seq(Strings)
  BY <1>1, <1>4
<1>6. Len(AsJson(rows)) = Len(rows)
  BY <1>1, <1>4, <1>5, LenProperties
<1>7. AsJson(rows) \in Rows
  BY <1>1, <1>5, <1>6, RowsAre
<1>8. rows # <<>> => AsJson(rows) # <<>>
  <2>1. rows # <<>> => Len(rows) # 0
    BY <1>1
  <2> QED BY <1>6, <2>1
<1>9. ASSUME NoString \notin Range(rows), NoString \in Range(AsJson(rows)) PROVE FALSE
  <2>1. PICK i \in 1 .. Len(rows) : AsJson(rows)[i] = NoString
    BY <1>3, <1>9 DEF Range
  <2>2. rows[i] = NoString
    BY <1>1, <1>2, <1>3, <2>1
  <2> QED BY <1>1, <1>9, <2>2 DEF Range
<1> QED BY <1>6, <1>7, <1>8, <1>9

\* However a key is read, it is a key.
LEMMA ReadingsAreKeys ==
    ASSUME NEW v, IsRedisValue(v), NEW r \in Readings(v)
    PROVE  IsRedisValue(r)
<1>1. /\ v = Value(v.type, v.rows, v.ttl)
      /\ v.type \in ValueTypes /\ v.rows \in Rows /\ v.ttl \in 0 .. MaxTtl
      /\ v.type = "string" => Len(v.rows) = 1
      /\ v.rows # <<>>
  BY ValueShape DEF IsRedisValue
<1>2. PICK ttl \in {v.ttl, 0} : r = [v EXCEPT !.rows = AsJson(@), !.ttl = ttl]
  BY DEF Readings
<1>3. r = Value(v.type, AsJson(v.rows), ttl)
  BY <1>1, <1>2 DEF Value
<1>4. ttl \in 0 .. MaxTtl
  BY <1>1, <1>2, RedisFormAssumption
<1>5. /\ AsJson(v.rows) \in Rows /\ Len(AsJson(v.rows)) = Len(v.rows)
      /\ AsJson(v.rows) # <<>>
  BY <1>1, JsonRows
<1>6. IsValue(r) /\ r.rows = AsJson(v.rows)
  BY <1>1, <1>3, <1>4, <1>5, ValueOf
<1> QED BY <1>5, <1>6 DEF IsRedisValue

\* What is read of a whole value is whole, and of one that is there is there.
LEMMA ToldWhole ==
    ASSUME NEW v, NEW old, IsRedisValue(old), Tells(v, old)
    PROVE  v.rows # <<>> /\ (Whole(old) => Whole(v))
<1>1. old.rows \in Rows /\ old.rows # <<>>
  BY ValueShape DEF IsRedisValue
<1>2. v.type = old.type /\ v.rows = AsJson(old.rows)
  BY DEF Tells
<1> QED BY <1>1, <1>2, JsonRows DEF Whole

\* What was read stays so while the key's time goes by.
LEMMA ToldLater ==
    ASSUME NEW v, NEW whole, NEW old, NEW later, Same(old, later), Told(v, whole, old)
    PROVE  Told(v, whole, later)
BY DEF Same, Tells, Told

LEMMA NonEmptyRows ==
    ASSUME NEW rows \in Rows
    PROVE  /\ NonEmpty(rows) \in Rows
           /\ NoString \notin Range(rows) => NonEmpty(rows) = rows
<1> DEFINE kept == {i \in DOMAIN rows : rows[i] # NoString}
           e(n) == rows[CHOOSE i \in kept : Cardinality(kept \cap 1 .. i) = n]
<1>1. /\ rows \in Seq(Strings) /\ Len(rows) \in Nat /\ Len(rows) <= MaxRows
      /\ DOMAIN rows = 1 .. Len(rows) /\ \A i \in 1 .. Len(rows) : rows[i] \in Strings
  BY RowsAre, LenProperties, ElementOfSeq
<1>2. NonEmpty(rows) = [n \in 1 .. Cardinality(kept) |-> e(n)]
  BY DEF NonEmpty
<1>3. kept \in SUBSET (1 .. Len(rows))
  BY <1>1
<1>4. /\ Cardinality(kept) \in Nat /\ Cardinality(kept) <= Len(rows)
  <2>1. IsFiniteSet(1 .. Len(rows)) /\ Cardinality(1 .. Len(rows)) = Len(rows)
    BY <1>1, UpToCount
  <2> HIDE DEF kept
  <2> QED BY <1>3, <2>1, FS_Subset, FS_CardinalityType
<1> HIDE DEF kept
<1>5. ASSUME NEW n \in 1 .. Cardinality(kept)
      PROVE  \E i \in kept : e(n) = rows[i] /\ Cardinality(kept \cap 1 .. i) = n
  <2>1. \E i \in kept : Cardinality(kept \cap 1 .. i) = n
    BY <1>1, <1>3, NthPlace
  <2> QED BY <2>1
<1>6. \A n \in 1 .. Cardinality(kept) : e(n) \in Strings
  BY <1>1, <1>3, <1>5
<1>7. NonEmpty(rows) \in Rows
  <2> HIDE DEF e
  <2>1. NonEmpty(rows) \in Seq(Strings)
    BY <1>2, <1>4, <1>6
  <2>2. Len(NonEmpty(rows)) = Cardinality(kept)
    BY <1>2, <1>4, <2>1, LenProperties
  <2>3. Len(NonEmpty(rows)) <= MaxRows
    BY <1>1, <1>4, <2>2, RedisFormAssumption
  <2> QED BY <2>1, <2>3, RowsAre
<1>8. ASSUME NoString \notin Range(rows)
      PROVE  NonEmpty(rows) = rows
  <2>1. kept = 1 .. Len(rows)
    BY <1>1, <1>8 DEF kept, Range
  <2>2. Cardinality(kept) = Len(rows)
    BY <1>1, <2>1, UpToCount
  <2>3. ASSUME NEW n \in 1 .. Len(rows)
        PROVE  e(n) = rows[n]
    <3>1. PICK i \in kept : e(n) = rows[i] /\ Cardinality(kept \cap 1 .. i) = n
      BY <1>5, <2>2
    <3>2. kept \cap 1 .. i = 1 .. i /\ i \in Nat
      BY <1>1, <2>1
    <3>3. i = n
      BY <3>1, <3>2, UpToCount
    <3> QED BY <3>1, <3>3
  <2> HIDE DEF e
  <2>4. NonEmpty(rows) = [n \in 1 .. Len(rows) |-> rows[n]]
    BY <1>2, <2>2, <2>3
  <2>5. rows = [n \in 1 .. Len(rows) |-> rows[n]]
    BY <1>1
  <2> QED BY <2>4, <2>5
<1> QED BY <1>7, <1>8

\* What is built of a form.
LEMMA Built ==
    ASSUME NEW v, IsValue(v)
    PROVE  /\ IsValue(BuildValue(v))
           /\ BuildValue(v).type = v.type /\ BuildValue(v).ttl = v.ttl
           /\ Whole(v) => BuildValue(v) = v
<1>1. /\ v = Value(v.type, v.rows, v.ttl)
      /\ v.type \in ValueTypes /\ v.rows \in Rows /\ v.ttl \in 0 .. MaxTtl
  BY ValueShape
<1>2. CASE v.type = "string"
  BY <1>2 DEF BuildValue
<1>3. CASE v.type # "string"
  <2>1. v.type = "list"
    BY <1>1, <1>3 DEF ValueTypes
  <2>2. BuildValue(v) = Value(v.type, NonEmpty(v.rows), v.ttl)
    BY <1>1, <1>3 DEF BuildValue, Value
  <2>3. NonEmpty(v.rows) \in Rows
    BY <1>1, NonEmptyRows
  <2>4. IsValue(BuildValue(v)) /\ BuildValue(v).type = v.type /\ BuildValue(v).ttl = v.ttl
    BY <1>1, <1>3, <2>2, <2>3, ValueOf
  <2>5. Whole(v) => NonEmpty(v.rows) = v.rows
    BY <1>1, <2>1, NonEmptyRows DEF Whole
  <2> QED BY <1>1, <2>2, <2>4, <2>5
<1> QED BY <1>2, <1>3

\* What typing a row, adding or removing one, and the other fields leave.
LEMMA EditedValues ==
    ASSUME NEW v, IsValue(v)
    PROVE  /\ \A i \in DOMAIN v.rows, s \in Strings : IsValue([v EXCEPT !.rows[i] = Decoded[s]])
           /\ v.type = "list" /\ Len(v.rows) < MaxRows =>
                 IsValue([v EXCEPT !.rows = Append(@, NoString)])
           /\ v.type = "list" =>
                 \A i \in DOMAIN v.rows : IsValue([v EXCEPT !.rows = RemoveAt(@, i)])
           /\ \A ttl \in 0 .. MaxTtl : IsValue([v EXCEPT !.ttl = ttl])
           /\ \A type \in ValueTypes : IsValue([EmptyForm EXCEPT !.type = type, !.ttl = v.ttl])
<1>1. /\ v = Value(v.type, v.rows, v.ttl)
      /\ v.type \in ValueTypes /\ v.rows \in Rows /\ v.ttl \in 0 .. MaxTtl
      /\ v.type = "string" => Len(v.rows) = 1
  BY ValueShape
<1>2. /\ v.rows \in Seq(Strings) /\ Len(v.rows) \in Nat /\ Len(v.rows) <= MaxRows
      /\ DOMAIN v.rows = 1 .. Len(v.rows)
  BY <1>1, RowsAre, LenProperties
<1>3. MaxRows \in Nat \ {0} /\ NoString \in Strings
  BY RedisFormAssumption
<1>4. ASSUME NEW rows \in Seq(Strings), Len(rows) <= MaxRows,
             v.type = "string" => Len(rows) = 1
      PROVE  IsValue([v EXCEPT !.rows = rows])
  <2>1. rows \in Rows
    BY <1>4, RowsAre
  <2>2. [v EXCEPT !.rows = rows] = Value(v.type, rows, v.ttl)
    BY <1>1 DEF Value
  <2> QED BY <1>1, <1>4, <2>1, <2>2, ValueOf
<1>5. ASSUME NEW i \in DOMAIN v.rows, NEW row \in Strings
      PROVE  IsValue([v EXCEPT !.rows[i] = row])
  <2> DEFINE rows == [v.rows EXCEPT ![i] = row]
  <2>1. rows \in Seq(Strings) /\ Len(rows) = Len(v.rows)
    BY <1>2, <1>5, ExceptSeq
  <2>2. [v EXCEPT !.rows[i] = row] = [v EXCEPT !.rows = rows]
    BY <1>1 DEF Value
  <2> HIDE DEF rows
  <2> QED BY <1>1, <1>2, <1>4, <2>1, <2>2
<1>6. ASSUME v.type = "list", Len(v.rows) < MaxRows
      PROVE  IsValue([v EXCEPT !.rows = Append(@, NoString)])
  <2> DEFINE rows == Append(v.rows, NoString)
  <2>1. rows \in Seq(Strings) /\ Len(rows) = Len(v.rows) + 1
    BY <1>2, <1>3, AppendProperties
  <2>2. [v EXCEPT !.rows = Append(@, NoString)] = [v EXCEPT !.rows = rows]
    BY <1>1 DEF Value
  <2> HIDE DEF rows
  <2>3. Len(rows) <= MaxRows
    BY <1>2, <1>3, <1>6, <2>1
  <2> QED BY <1>4, <1>6, <2>1, <2>2, <2>3
<1>7. ASSUME v.type = "list", NEW i \in DOMAIN v.rows
      PROVE  IsValue([v EXCEPT !.rows = RemoveAt(@, i)])
  <2> DEFINE before == SubSeq(v.rows, 1, i - 1)
             after == SubSeq(v.rows, i + 1, Len(v.rows))
             rows == RemoveAt(v.rows, i)
  <2>1. i \in Nat /\ 1 <= i /\ i <= Len(v.rows)
    BY <1>2, <1>7
  <2>2. before \in Seq(Strings) /\ Len(before) = i - 1
    BY <1>2, <2>1, SubSeqProperties
  <2>3. after \in Seq(Strings) /\ Len(after) = Len(v.rows) - i
    BY <1>2, <2>1, SubSeqProperties
  <2>4. rows = before \o after
    BY DEF RemoveAt
  <2> HIDE DEF before, after, rows
  <2>5. rows \in Seq(Strings) /\ Len(rows) = Len(v.rows) - 1
    BY <1>2, <2>1, <2>2, <2>3, <2>4, ConcatProperties
  <2>6. [v EXCEPT !.rows = RemoveAt(@, i)] = [v EXCEPT !.rows = rows]
    BY <1>1 DEF Value, rows
  <2>7. Len(rows) <= MaxRows
    BY <1>2, <1>3, <2>5
  <2> QED BY <1>4, <1>7, <2>5, <2>6, <2>7
<1>8. ASSUME NEW ttl \in 0 .. MaxTtl
      PROVE  IsValue([v EXCEPT !.ttl = ttl])
  <2>1. [v EXCEPT !.ttl = ttl] = Value(v.type, v.rows, ttl)
    BY <1>1 DEF Value
  <2> QED BY <1>1, <2>1, ValueOf
<1>9. ASSUME NEW type \in ValueTypes
      PROVE  IsValue([EmptyForm EXCEPT !.type = type, !.ttl = v.ttl])
  <2>1. [EmptyForm EXCEPT !.type = type, !.ttl = v.ttl] = Value(type, <<NoString>>, v.ttl)
    <3>1. [EmptyForm EXCEPT !.type = type] = Value(type, <<NoString>>, 0)
      BY DEF EmptyForm, Value
    <3>2. [Value(type, <<NoString>>, 0) EXCEPT !.ttl = v.ttl] = Value(type, <<NoString>>, v.ttl)
      BY DEF Value
    <3> QED BY <3>1, <3>2
  <2>2. <<NoString>> \in Seq(Strings) /\ Len(<<NoString>>) = 1
    BY <1>3
  <2>3. <<NoString>> \in Rows
    <3>1. 1 <= MaxRows
      BY <1>3
    <3> QED BY <2>2, <3>1, RowsAre
  <2> QED BY <1>1, <2>1, <2>2, <2>3, ValueOf
<1>10. \A s \in Strings : Decoded[s] \in Strings
  BY RedisFormAssumption
<1> QED BY <1>5, <1>6, <1>7, <1>8, <1>9, <1>10

LEMMA EmptyIsValue == IsValue(EmptyForm)
<1>1. MaxRows \in Nat \ {0} /\ MaxTtl \in Nat /\ NoString \in Strings
  BY RedisFormAssumption
<1>2. <<NoString>> \in Seq(Strings) /\ Len(<<NoString>>) = 1
  BY <1>1
<1>3. <<NoString>> \in Rows
  <2>1. 1 <= MaxRows
    BY <1>1
  <2> QED BY <1>2, <2>1, RowsAre
<1>4. EmptyForm = Value("string", <<NoString>>, 0)
  BY DEF EmptyForm, Value
<1>5. "string" \in ValueTypes /\ 0 \in 0 .. MaxTtl
  BY <1>1 DEF ValueTypes
<1> QED BY <1>2, <1>3, <1>4, <1>5, ValueOf

\* A key whose time goes by is as it was, or gone.
LEMMA Expires ==
    ASSUME NEW v, IsRedisValue(v), v.ttl > 0
    PROVE  /\ KeyState(Later(v))
           /\ v.ttl > 1 => Later(v) # NoKey
           /\ Later(v) # NoKey => Same(v, Later(v))
<1>1. /\ v = Value(v.type, v.rows, v.ttl)
      /\ v.type \in ValueTypes /\ v.rows \in Rows /\ v.ttl \in 0 .. MaxTtl
      /\ v.type = "string" => Len(v.rows) = 1
      /\ v.rows # <<>>
  BY ValueShape DEF IsRedisValue
<1>2. CASE v.ttl = 1
  BY <1>2 DEF KeyState, Later
<1>3. CASE v.ttl # 1
  <2>1. v.ttl - 1 \in 0 .. MaxTtl /\ v.ttl - 1 > 0
    BY <1>1, <1>3, RedisFormAssumption
  <2>2. Later(v) = Value(v.type, v.rows, v.ttl - 1)
    BY <1>1, <1>3 DEF Value, Later
  <2>3. /\ IsValue(Later(v)) /\ Later(v).rows = v.rows /\ Later(v).type = v.type
        /\ Later(v).ttl = v.ttl - 1
    BY <1>1, <2>1, <2>2, ValueOf
  <2>4. IsRedisValue(Later(v)) /\ Later(v) # NoKey
    BY <1>1, <2>3, RedisValuesAssumption DEF IsRedisValue
  <2>5. Same(v, Later(v))
    BY <2>1, <2>3 DEF Same
  <2> QED BY <2>4, <2>5 DEF KeyState
<1> QED BY <1>2, <1>3

LEMMA Puts ==
    ASSUME NEW f, f = [l \in FormKeys |-> f[l]], NEW k \in FormKeys, NEW v
    PROVE  LET g == [f EXCEPT ![k] = v]
           IN  /\ g = [l \in FormKeys |-> g[l]] /\ g[k] = v
               /\ \A l \in FormKeys : l # k => g[l] = f[l]
OBVIOUS

LEMMA FormInitially == FormInit => FormInv
<1> SUFFICES ASSUME FormInit PROVE FormInv
  OBVIOUS
<1>1. \A v \in KeyValues \cup {NoKey} : KeyState(v)
  BY RedisValuesAssumption DEF KeyState
<1>2. FormTypes
  BY <1>1, EmptyIsValue DEF FormInit, FormTypes, KeyState
<1>3. FilledInv /\ SentInv
  BY DEF FormInit, FilledInv, SentInv
<1> QED BY <1>2, <1>3 DEF FormInv

\* The form and what fills it.
LEMMA FillsTells ==
    ASSUME NEW k, NEW v, Fills(k, v)
    PROVE  /\ fields' = v /\ filledFrom' = k
           /\ exact' \in BOOLEAN /\ untouched' \in BOOLEAN
           /\ untouched' => redis[k] # NoKey /\ Told(fields', exact', redis[k])
<1>1. /\ fields' = v /\ filledFrom' = k
      /\ untouched' = (redis[k] # NoKey /\ Tells(v, redis[k]))
      /\ exact' = (redis[k] # NoKey /\ Same(v, redis[k]))
  BY DEF Fills, FormOf
<1> QED BY <1>1 DEF Told

LEMMA LooksFills ==
    ASSUME FormTypes, NEW k \in FormKeys, LooksAt(k)
    PROVE  /\ IsValue(fields') /\ filledFrom' \in FormKeys \cup {NoKey}
           /\ exact' \in BOOLEAN /\ untouched' \in BOOLEAN /\ fetch' \in {"idle", "loading"}
           /\ cached[k] # NoKey => filledFrom' = k
           /\ untouched' => redis[k] # NoKey /\ Told(fields', exact', redis[k])
<1>1. CASE cached[k] = NoKey
  BY <1>1 DEF FormTypes, LooksAt
<1>2. CASE cached[k] # NoKey
  <2>1. IsValue(cached[k])
    BY <1>2 DEF FormTypes, KeyState, IsRedisValue
  <2>2. Fills(k, cached[k])
    BY <1>2 DEF LooksAt
  <2>3. fetch' \in {"idle", "loading"}
    BY <1>2 DEF LooksAt
  <2>4. /\ fields' = cached[k] /\ filledFrom' = k
        /\ exact' \in BOOLEAN /\ untouched' \in BOOLEAN
        /\ untouched' => redis[k] # NoKey /\ Told(fields', exact', redis[k])
    BY <2>2, FillsTells
  <2> QED BY <1>2, <2>1, <2>3, <2>4
<1> QED BY <1>1, <1>2

LEMMA OpeningFills ==
    ASSUME FormTypes, FilledInv,
           OpenKey \/ NewKey \/ \E k \in FormKeys : BackToKey(k)
    PROVE  FormTypes' /\ FilledInv' /\ UNCHANGED <<redis, sent>>
<1>1. ASSUME NEW k \in FormKeys, LooksAt(k), keyAt' = k, target' = "edit",
             UNCHANGED <<redis, cached, confirming, sent>>
      PROVE  FormTypes' /\ FilledInv' /\ UNCHANGED <<redis, sent>>
  <2>1. /\ IsValue(fields') /\ filledFrom' \in FormKeys \cup {NoKey}
        /\ exact' \in BOOLEAN /\ untouched' \in BOOLEAN /\ fetch' \in {"idle", "loading"}
        /\ cached[k] # NoKey => filledFrom' = k
        /\ untouched' => redis[k] # NoKey /\ Told(fields', exact', redis[k])
    BY <1>1, LooksFills
  <2>2. FormTypes'
    BY <1>1, <2>1 DEF FormTypes
  <2>3. FilledInv'
    BY <1>1, <2>1 DEF FilledInv
  <2> QED BY <1>1, <2>2, <2>3
<1>2. CASE OpenKey
  BY <1>1, <1>2 DEF OpenKey, FormTypes
<1>3. CASE NewKey
  <2>1. target = "closed"
    BY <1>3 DEF NewKey, FormOpen
  <2> QED BY <1>3, <2>1 DEF NewKey, FormTypes, FilledInv
<1>4. ASSUME NEW k \in FormKeys, BackToKey(k)
      PROVE  FormTypes' /\ FilledInv' /\ UNCHANGED <<redis, sent>>
  <2>1. CASE target = "edit"
    BY <1>1, <1>4, <2>1 DEF BackToKey
  <2>2. CASE target # "edit"
    BY <1>4, <2>2 DEF BackToKey, FormTypes, FilledInv
  <2> QED BY <2>1, <2>2
<1> QED BY <1>2, <1>3, <1>4

LEMMA AnswersFill ==
    ASSUME FormTypes, FilledInv, KeyArrives \/ KeyFails \/ RefocusForm
    PROVE  FormTypes' /\ FilledInv' /\ UNCHANGED <<redis, sent>>
<1>1. CASE KeyArrives
  <2>1. /\ redis[keyAt] # NoKey /\ keyAt \in FormKeys
        /\ UNCHANGED <<redis, keyAt, target, confirming, sent>>
        /\ fetch' = "idle" /\ target = "edit"
    BY <1>1 DEF KeyArrives, FormTypes, FilledInv
  <2> PICK r \in Readings(redis[keyAt]) :
            /\ cached' = [cached EXCEPT ![keyAt] = r]
            /\ \/ cached[keyAt] = r /\ UNCHANGED <<fields, filledFrom, exact, untouched>>
               \/ cached[keyAt] # r /\ Fills(keyAt, r)
    BY <1>1 DEF KeyArrives
  <2>2. KeyState(r) /\ IsValue(r)
    <3>1. IsRedisValue(redis[keyAt])
      BY <2>1 DEF FormTypes, KeyState
    <3>2. IsRedisValue(r)
      BY <3>1, ReadingsAreKeys
    <3> QED BY <3>2 DEF KeyState, IsRedisValue
  <2>3. /\ cached' = [l \in FormKeys |-> cached'[l]] /\ cached'[keyAt] = r
        /\ \A l \in FormKeys : l # keyAt => cached'[l] = cached[l]
    BY <2>1, Puts DEF FormTypes
  <2>4. \A l \in FormKeys : KeyState(cached'[l])
    BY <2>2, <2>3 DEF FormTypes
  <2>5. CASE cached[keyAt] = r /\ UNCHANGED <<fields, filledFrom, exact, untouched>>
    <3>1. FormTypes'
      BY <2>1, <2>3, <2>4, <2>5 DEF FormTypes
    <3>2. FilledInv'
      BY <2>1, <2>3, <2>5 DEF FilledInv
    <3> QED BY <2>1, <3>1, <3>2
  <2>6. CASE Fills(keyAt, r)
    <3>1. /\ fields' = r /\ filledFrom' = keyAt
          /\ exact' \in BOOLEAN /\ untouched' \in BOOLEAN
          /\ untouched' => redis[keyAt] # NoKey /\ Told(fields', exact', redis[keyAt])
      BY <2>6, FillsTells
    <3>2. FormTypes'
      BY <2>1, <2>2, <2>3, <2>4, <3>1 DEF FormTypes
    <3>3. FilledInv'
      BY <2>1, <3>1 DEF FilledInv
    <3> QED BY <2>1, <3>2, <3>3
  <2> QED BY <2>5, <2>6
<1>2. CASE KeyFails
  <2>1. target = "edit"
    BY <1>2 DEF KeyFails, FilledInv
  <2> QED BY <1>2, <2>1 DEF KeyFails, FormTypes, FilledInv
<1>3. CASE RefocusForm
  BY <1>3 DEF RefocusForm, FormTypes, FilledInv
<1> QED BY <1>1, <1>2, <1>3

LEMMA EditsFill ==
    ASSUME FormTypes, FilledInv,
           \/ EditRows \/ \E ttl \in 0 .. MaxTtl : EditTtl(ttl)
           \/ \E type \in ValueTypes : ChooseType(type)
    PROVE  FormTypes' /\ FilledInv' /\ UNCHANGED <<redis, sent>>
<1>1. ASSUME NEW v, IsValue(v), Edits(v)
      PROVE  FormTypes' /\ FilledInv' /\ UNCHANGED <<redis, sent>>
  BY <1>1 DEF Edits, FormTypes, FilledInv
<1>2. IsValue(fields)
  BY DEF FormTypes
<1>3. CASE EditRows
  BY <1>1, <1>2, <1>3, EditedValues DEF EditRows
<1>4. ASSUME NEW ttl \in 0 .. MaxTtl, EditTtl(ttl)
      PROVE  FormTypes' /\ FilledInv' /\ UNCHANGED <<redis, sent>>
  BY <1>1, <1>2, <1>4, EditedValues DEF EditTtl
<1>5. ASSUME NEW type \in ValueTypes, ChooseType(type)
      PROVE  FormTypes' /\ FilledInv' /\ UNCHANGED <<redis, sent>>
  BY <1>1, <1>2, <1>5, EditedValues DEF ChooseType
<1> QED BY <1>3, <1>4, <1>5

LEMMA ClosingFills ==
    ASSUME FormTypes, FormCloses, UNCHANGED <<cached, keyAt>>,
           redis' = [l \in FormKeys |-> redis'[l]], \A l \in FormKeys : KeyState(redis'[l])
    PROVE  FormTypes' /\ FilledInv'
<1>1. FormTypes'
  BY EmptyIsValue DEF FormTypes, FormCloses, Emptied
<1>2. FilledInv'
  BY DEF FilledInv, FormCloses, Emptied
<1> QED BY <1>1, <1>2

LEMMA AskingFills ==
    ASSUME FormTypes, FilledInv,
           SaveKey \/ AskToDeleteKey \/ ConfirmDeleteKey \/ CancelDeleteKey \/ UNCHANGED redisFormVars
    PROVE  FormTypes' /\ FilledInv' /\ UNCHANGED redis
<1>1. CASE SaveKey \/ ConfirmDeleteKey \/ UNCHANGED redisFormVars
  <2>1. UNCHANGED <<redis, cached, formVars>>
    BY <1>1 DEF SaveKey, ConfirmDeleteKey, redisFormVars
  <2> QED BY <2>1 DEF formVars, FormTypes, FilledInv
<1>2. CASE AskToDeleteKey \/ CancelDeleteKey
  <2>1. /\ confirming' \in BOOLEAN /\ (confirming' => target = "edit")
        /\ UNCHANGED <<redis, cached, keyAt, target, fetch, fields, filledFrom, exact, untouched>>
    BY <1>2 DEF AskToDeleteKey, CancelDeleteKey
  <2> QED BY <2>1 DEF FormTypes, FilledInv
<1> QED BY <1>1, <1>2

\* Another client, or the time, changes the key under the form.
LEMMA OthersFill ==
    ASSUME FormTypes, FilledInv, NEW k \in FormKeys,
           TimePasses(k) \/ \E v \in KeyValues \cup {NoKey} : OtherClientWrites(k, v)
    PROVE  FormTypes' /\ FilledInv'
<1>1. CASE TimePasses(k)
  <2> DEFINE after == Later(redis[k])
  <2>1. /\ redis[k] # NoKey /\ redis[k].ttl > 0
        /\ redis' = [redis EXCEPT ![k] = after]
        /\ untouched' = (untouched /\ (k = keyAt => redis[k].ttl > 1))
        /\ UNCHANGED <<cached, sent, keyAt, target, fetch, fields, filledFrom, exact, confirming>>
    BY <1>1 DEF TimePasses
  <2>2. IsRedisValue(redis[k])
    BY <2>1 DEF FormTypes, KeyState
  <2>3. /\ KeyState(after) /\ (redis[k].ttl > 1 => after # NoKey)
        /\ after # NoKey => Same(redis[k], after)
    BY <2>1, <2>2, Expires
  <2> HIDE DEF after
  <2>4. /\ redis' = [l \in FormKeys |-> redis'[l]] /\ redis'[k] = after
        /\ \A l \in FormKeys : l # k => redis'[l] = redis[l]
    BY <2>1, Puts DEF FormTypes
  <2>5. FormTypes'
    BY <2>1, <2>3, <2>4 DEF FormTypes
  <2>6. FilledInv'
    <3>1. CASE k # keyAt
      BY <2>1, <2>4, <3>1 DEF FilledInv, FormTypes
    <3>2. CASE k = keyAt
      <4>1. ASSUME untouched' PROVE redis'[keyAt] # NoKey /\ Told(fields, exact, redis'[keyAt])
        BY <2>1, <2>3, <2>4, <3>2, <4>1, ToldLater DEF FilledInv
      <4> QED BY <2>1, <4>1 DEF FilledInv
    <3> QED BY <3>1, <3>2
  <2> QED BY <2>5, <2>6
<1>2. ASSUME NEW v \in KeyValues \cup {NoKey}, OtherClientWrites(k, v)
      PROVE  FormTypes' /\ FilledInv'
  <2>1. /\ redis' = [redis EXCEPT ![k] = v] /\ untouched' = (untouched /\ k # keyAt)
        /\ UNCHANGED <<cached, keyAt, target, fetch, fields, filledFrom, exact, confirming>>
    BY <1>2 DEF OtherClientWrites
  <2>2. /\ redis' = [l \in FormKeys |-> redis'[l]] /\ redis'[k] = v
        /\ \A l \in FormKeys : l # k => redis'[l] = redis[l]
    BY <2>1, Puts DEF FormTypes
  <2>3. KeyState(v)
    BY RedisValuesAssumption DEF KeyState
  <2>4. FormTypes'
    BY <2>1, <2>2, <2>3 DEF FormTypes
  <2>5. FilledInv'
    BY <2>1, <2>2 DEF FilledInv, FormTypes
  <2> QED BY <2>4, <2>5
<1> QED BY <1>1, <1>2

\* What is under way.
LEMMA SendShape ==
    ASSUME NEW s \in Replaces \cup Others
    PROVE  /\ s.key \in FormKeys /\ s.kind \in {"insert", "replace", "delete"}
           /\ s.kind = "replace" => s \in Replaces /\ IsValue(s.value)
BY DEF Replaces, Others, Values

LEMMA UnheardSend ==
    ASSUME NEW s \in Replaces \cup Others
    PROVE  LET u == [s EXCEPT !.heard = FALSE]
           IN  /\ u \in Replaces \cup Others /\ u.kind = s.kind /\ u.key = s.key
               /\ s.kind = "replace" =>
                     /\ u.from = s.from /\ u.value = s.value
                     /\ u.exact = s.exact /\ u.untouched = s.untouched
BY DEF Replaces, Others

LEMMA TouchedSend ==
    ASSUME NEW s \in Replaces \cup Others, NEW k
    PROVE  LET u == [s EXCEPT !.untouched = @ /\ k # s.key]
           IN  /\ u \in Replaces \cup Others /\ u.kind = s.kind /\ u.key = s.key
               /\ s.kind = "replace" =>
                     /\ u.from = s.from /\ u.value = s.value
                     /\ u.exact = s.exact /\ (u.untouched => s.untouched /\ k # s.key)
<1> DEFINE u == [s EXCEPT !.untouched = @ /\ k # s.key]
           still == s.untouched /\ k # s.key
<1>1. still \in BOOLEAN
  OBVIOUS
<1>2. u = [s EXCEPT !.untouched = still]
  OBVIOUS
<1>3. still => s.untouched /\ k # s.key
  OBVIOUS
<1> HIDE DEF still, u
<1>4. /\ u \in Replaces \cup Others /\ u.kind = s.kind /\ u.key = s.key
      /\ s.kind = "replace" => u.from = s.from /\ u.value = s.value /\ u.exact = s.exact
                              /\ u.untouched = still
  BY <1>1, <1>2 DEF Replaces, Others
<1> QED BY <1>3, <1>4 DEF u

LEMMA CloseKeepsSends ==
    ASSUME FormTypes, SentInv, CloseForm
    PROVE  FormTypes' /\ FilledInv' /\ SentInv'
<1>1. /\ FormCloses /\ UNCHANGED <<redis, cached, keyAt>>
      /\ sent' = {[s EXCEPT !.heard = FALSE] : s \in sent}
  BY DEF CloseForm
<1>2. FormTypes' /\ FilledInv'
  BY <1>1, ClosingFills DEF FormTypes
<1>3. \A u \in sent' : \E s \in sent :
         /\ u = [s EXCEPT !.heard = FALSE]
         /\ u \in Replaces \cup Others /\ u.kind = s.kind /\ u.key = s.key
         /\ s.kind = "replace" =>
               /\ u.from = s.from /\ u.value = s.value
               /\ u.exact = s.exact /\ u.untouched = s.untouched
  <2> SUFFICES ASSUME NEW s \in sent, NEW u, u = [s EXCEPT !.heard = FALSE]
               PROVE  /\ u \in Replaces \cup Others /\ u.kind = s.kind /\ u.key = s.key
                      /\ s.kind = "replace" =>
                            /\ u.from = s.from /\ u.value = s.value
                            /\ u.exact = s.exact /\ u.untouched = s.untouched
    BY <1>1
  <2>1. s \in Replaces \cup Others
    BY DEF SentInv
  <2> QED BY <2>1, UnheardSend
<1>4. sent' \subseteq Replaces \cup Others /\ \A t, u \in sent' : t = u
  BY <1>3 DEF SentInv
<1>5. ASSUME NEW u \in sent', u.kind = "replace"
      PROVE  /\ u.from = u.key
             /\ u.untouched /\ redis'[u.key] # NoKey /\ Whole(redis'[u.key]) =>
                   Told(u.value, u.exact, redis'[u.key])
  <2>1. PICK s \in sent : /\ u.kind = s.kind /\ u.key = s.key
                          /\ /\ u.from = s.from /\ u.value = s.value
                             /\ u.exact = s.exact /\ u.untouched = s.untouched
    BY <1>3, <1>5
  <2> QED BY <1>1, <1>5, <2>1 DEF SentInv
<1>6. SentInv'
  BY <1>4, <1>5 DEF SentInv
<1> QED BY <1>2, <1>6

LEMMA OthersKeepSends ==
    ASSUME FormTypes, SentInv, NEW k \in FormKeys,
           TimePasses(k) \/ \E v \in KeyValues \cup {NoKey} : OtherClientWrites(k, v)
    PROVE  SentInv'
<1>1. CASE TimePasses(k)
  <2>1. /\ redis[k] # NoKey /\ redis[k].ttl > 0
        /\ redis' = [redis EXCEPT ![k] = Later(redis[k])] /\ sent' = sent
    BY <1>1 DEF TimePasses
  <2>2. IsRedisValue(redis[k])
    BY <2>1 DEF FormTypes, KeyState
  <2>3. Later(redis[k]) # NoKey => Same(redis[k], Later(redis[k]))
    BY <2>1, <2>2, Expires
  <2>4. /\ redis'[k] = Later(redis[k])
        /\ \A l \in FormKeys : l # k => redis'[l] = redis[l]
    BY <2>1, Puts DEF FormTypes
  <2>5. ASSUME NEW s \in sent, s.kind = "replace", s.untouched,
               redis'[s.key] # NoKey, Whole(redis'[s.key])
        PROVE  Told(s.value, s.exact, redis'[s.key])
    <3>1. s.key \in FormKeys
      BY SendShape DEF SentInv
    <3>2. CASE s.key # k
      BY <2>4, <2>5, <3>1, <3>2 DEF SentInv
    <3>3. CASE s.key = k
      <4>1. Same(redis[k], redis'[k])
        BY <2>3, <2>4, <2>5, <3>3
      <4>2. Whole(redis[k])
        BY <2>5, <3>3, <4>1 DEF Whole, Same
      <4>3. Told(s.value, s.exact, redis[k])
        BY <2>1, <2>5, <3>3, <4>2 DEF SentInv
      <4> QED BY <3>3, <4>1, <4>3, ToldLater
    <3> QED BY <3>2, <3>3
  <2> QED BY <2>1, <2>5 DEF SentInv
<1>2. ASSUME NEW v \in KeyValues \cup {NoKey}, OtherClientWrites(k, v)
      PROVE  SentInv'
  <2>1. /\ redis' = [redis EXCEPT ![k] = v]
        /\ sent' = {[s EXCEPT !.untouched = @ /\ k # s.key] : s \in sent}
    BY <1>2 DEF OtherClientWrites
  <2>2. \A l \in FormKeys : l # k => redis'[l] = redis[l]
    BY <2>1, Puts DEF FormTypes
  <2>3. \A u \in sent' : \E s \in sent :
           /\ u = [s EXCEPT !.untouched = @ /\ k # s.key]
           /\ u \in Replaces \cup Others /\ u.kind = s.kind /\ u.key = s.key
           /\ s.kind = "replace" =>
                 /\ u.from = s.from /\ u.value = s.value
                 /\ u.exact = s.exact /\ (u.untouched => s.untouched /\ k # s.key)
    <3> SUFFICES ASSUME NEW s \in sent, NEW u, u = [s EXCEPT !.untouched = @ /\ k # s.key]
                 PROVE  /\ u \in Replaces \cup Others /\ u.kind = s.kind /\ u.key = s.key
                        /\ s.kind = "replace" =>
                              /\ u.from = s.from /\ u.value = s.value
                              /\ u.exact = s.exact /\ (u.untouched => s.untouched /\ k # s.key)
      BY <2>1
    <3>1. s \in Replaces \cup Others
      BY DEF SentInv
    <3> QED BY <3>1, TouchedSend
  <2>4. sent' \subseteq Replaces \cup Others /\ \A u \in sent' : u.key \in FormKeys
    BY <2>3, SendShape
  <2>5. \A t, u \in sent' : t = u
    BY <2>3 DEF SentInv
  <2>6. ASSUME NEW u \in sent', u.kind = "replace"
        PROVE  /\ u.from = u.key
               /\ u.untouched /\ redis'[u.key] # NoKey /\ Whole(redis'[u.key]) =>
                     Told(u.value, u.exact, redis'[u.key])
    <3>1. PICK s \in sent : /\ u.kind = s.kind /\ u.key = s.key
                            /\ u.from = s.from /\ u.value = s.value
                            /\ u.exact = s.exact /\ (u.untouched => s.untouched /\ k # s.key)
      BY <2>3, <2>6
    <3>2. s.from = s.key
      BY <2>6, <3>1 DEF SentInv
    <3>3. ASSUME u.untouched PROVE s.untouched /\ redis'[u.key] = redis[u.key]
      BY <2>2, <2>4, <3>1, <3>3
    <3> QED BY <2>6, <3>1, <3>2, <3>3 DEF SentInv
  <2> QED BY <2>4, <2>5, <2>6 DEF SentInv
<1> QED BY <1>1, <1>2

LEMMA SendingKeepsSends ==
    ASSUME FormTypes, FilledInv, SentInv, SaveKey \/ ConfirmDeleteKey
    PROVE  SentInv'
<1>1. ASSUME NEW kind \in {"insert", "delete"}, SendsForm(kind)
      PROVE  SentInv'
  <2> DEFINE s == [kind |-> kind, key |-> keyAt, untouched |-> FALSE, heard |-> TRUE]
  <2>1. sent' = {s}
    BY <1>1 DEF SendsForm
  <2>2. s \in Others /\ s.kind # "replace"
    BY DEF FormTypes, Others
  <2> HIDE DEF s
  <2> QED BY <2>1, <2>2 DEF SentInv
<1>2. ASSUME SendsForm("replace"), target = "edit", cached[keyAt] # NoKey, redis' = redis
      PROVE  SentInv'
  <2> DEFINE value == BuildValue(fields)
             s == [kind |-> "replace", key |-> keyAt, value |-> value, from |-> filledFrom,
                   exact |-> exact, untouched |-> untouched, heard |-> TRUE]
  <2>1. filledFrom = keyAt /\ exact \in BOOLEAN /\ untouched \in BOOLEAN /\ keyAt \in FormKeys /\ IsValue(fields)
    BY <1>2 DEF FormTypes, FilledInv
  <2>2. sent' = {s}
    BY <1>2 DEF SendsForm
  <2>3. IsValue(value) /\ value.type = fields.type /\ value.ttl = fields.ttl
        /\ (Whole(fields) => value = fields)
    BY <2>1, Built
  <2> HIDE DEF value
  <2>4. value \in Values
    BY <2>3 DEF IsValue, Values
  <2>5. /\ s \in Replaces /\ s.key = keyAt /\ s.from = keyAt /\ s.value = value
        /\ s.exact = exact /\ s.untouched = untouched
    BY <2>1, <2>4 DEF Replaces
  <2>6. ASSUME untouched, Whole(redis[keyAt])
        PROVE  Told(value, exact, redis[keyAt])
    <3>1. redis[keyAt] # NoKey /\ Told(fields, exact, redis[keyAt])
      BY <2>6 DEF FilledInv
    <3>2. Whole(fields)
      <4>1. IsRedisValue(redis[keyAt])
        BY <2>1, <3>1 DEF FormTypes, KeyState
      <4> QED BY <2>6, <3>1, <4>1, ToldWhole DEF Told
    <3> QED BY <2>3, <3>1, <3>2
  <2> HIDE DEF s
  <2> QED BY <1>2, <2>2, <2>5, <2>6 DEF SentInv
<1>3. CASE SaveKey
  <2>1. /\ FormOpen /\ FormCanSave /\ redis' = redis
        /\ SendsForm(IF target = "new" THEN "insert" ELSE "replace")
    BY <1>3 DEF SaveKey
  <2>2. CASE target = "new"
    BY <1>1, <2>1, <2>2
  <2>3. CASE target # "new"
    <3>1. target = "edit" /\ cached[keyAt] # NoKey
      BY <2>1, <2>3 DEF FormOpen, FormCanSave, FormTypes
    <3> QED BY <1>2, <2>1, <2>3, <3>1
  <2> QED BY <2>2, <2>3
<1>4. CASE ConfirmDeleteKey
  BY <1>1, <1>4 DEF ConfirmDeleteKey
<1> QED BY <1>3, <1>4

\* What a call that is carried out, or fails halfway, leaves of its key.
LEMMA LeftOfKey ==
    ASSUME FormTypes, NEW s \in Replaces \cup Others
    PROVE  /\ KeyState(KeyAfter(s))
           /\ \A v \in Halfway(s) : KeyState(v)
           /\ s.kind = "replace" => KeyAfter(s) = Put(s.value)
<1>1. s.key \in FormKeys /\ s.kind \in {"insert", "replace", "delete"}
  BY SendShape
<1>2. CASE s.kind = "insert"
  BY <1>1, <1>2 DEF KeyAfter, Halfway, FormTypes
<1>3. CASE s.kind = "delete"
  BY <1>3 DEF KeyAfter, Halfway, KeyState
<1>4. CASE s.kind = "replace"
  <2>1. KeyAfter(s) = Put(s.value)
    BY <1>4 DEF KeyAfter
  <2>2. IsValue(s.value)
    BY <1>4, SendShape
  <2>3. ASSUME NEW v, IsValue(v) PROVE KeyState(Put(v))
    BY <2>3 DEF Put, KeyState, IsRedisValue
  <2>4. IsValue([s.value EXCEPT !.ttl = 0])
    <3>1. 0 \in 0 .. MaxTtl
      BY RedisFormAssumption
    <3>2. \A ttl \in 0 .. MaxTtl : IsValue([s.value EXCEPT !.ttl = ttl])
      BY <2>2, EditedValues
    <3> QED BY <3>1, <3>2
  <2>5. \A v \in Halfway(s) : KeyState(v)
    BY <1>4, <2>3, <2>4 DEF Halfway, KeyState
  <2> QED BY <2>1, <2>2, <2>3, <2>5
<1> QED BY <1>1, <1>2, <1>3, <1>4

LEMMA OutcomesKeep ==
    ASSUME FormTypes, FilledInv, SentInv, NEW s \in sent, SaveSucceeds(s) \/ SaveFails(s)
    PROVE  FormTypes' /\ FilledInv' /\ SentInv'
<1>1. s.key \in FormKeys /\ KeyState(KeyAfter(s))
  BY LeftOfKey, SendShape DEF SentInv
<1>2. sent' = {}
  BY DEF SaveSucceeds, SaveFails
<1>3. SentInv'
  BY <1>2 DEF SentInv
<1>4. ASSUME NEW v, KeyState(v), redis' = [redis EXCEPT ![s.key] = v]
      PROVE  /\ redis' = [l \in FormKeys |-> redis'[l]]
             /\ \A l \in FormKeys : KeyState(redis'[l])
  <2>1. /\ redis' = [l \in FormKeys |-> redis'[l]] /\ redis'[s.key] = v
        /\ \A l \in FormKeys : l # s.key => redis'[l] = redis[l]
    BY <1>1, <1>4, Puts DEF FormTypes
  <2> QED BY <1>4, <2>1 DEF FormTypes
<1>5. CASE SaveSucceeds(s)
  <2>1. FormCloses /\ UNCHANGED <<cached, keyAt>>
        /\ redis' = [redis EXCEPT ![s.key] = KeyAfter(s)]
    BY <1>5 DEF SaveSucceeds
  <2> DEFINE after == KeyAfter(s)
  <2>2. KeyState(after) /\ redis' = [redis EXCEPT ![s.key] = after]
    BY <1>1, <2>1
  <2> HIDE DEF after
  <2>3. /\ redis' = [l \in FormKeys |-> redis'[l]]
        /\ \A l \in FormKeys : KeyState(redis'[l])
    BY <1>4, <2>2
  <2> QED BY <1>3, <2>1, <2>3, ClosingFills
<1>6. CASE SaveFails(s)
  <2>1. /\ redis' = redis \/ \E v \in {KeyAfter(s)} \cup Halfway(s) : redis' = [redis EXCEPT ![s.key] = v]
        /\ untouched' = (untouched /\ redis'[keyAt] = redis[keyAt])
        /\ UNCHANGED <<cached, keyAt, target, fetch, fields, filledFrom, exact, confirming>>
    BY <1>6 DEF SaveFails
  <2>2. /\ redis' = [l \in FormKeys |-> redis'[l]]
        /\ \A l \in FormKeys : KeyState(redis'[l])
    <3>1. CASE redis' = redis
      BY <3>1 DEF FormTypes
    <3>2. ASSUME NEW v \in {KeyAfter(s)} \cup Halfway(s), redis' = [redis EXCEPT ![s.key] = v]
          PROVE  /\ redis' = [l \in FormKeys |-> redis'[l]]
                 /\ \A l \in FormKeys : KeyState(redis'[l])
      <4>1. KeyState(v)
        BY <1>1, <3>2, LeftOfKey DEF SentInv
      <4> QED BY <1>4, <3>2, <4>1
    <3> QED BY <2>1, <3>1, <3>2
  <2>3. FormTypes'
    BY <2>1, <2>2 DEF FormTypes
  <2>4. FilledInv'
    BY <2>1 DEF FilledInv
  <2> QED BY <1>3, <2>3, <2>4
<1> QED BY <1>5, <1>6

LEMMA FormStep == FormInv /\ [FormNext]_redisFormVars => FormInv'
<1> SUFFICES ASSUME FormInv, [FormNext]_redisFormVars PROVE FormInv'
  OBVIOUS
<1>1. FormTypes /\ FilledInv /\ SentInv
  BY DEF FormInv
<1>2. ASSUME FormTypes', FilledInv', UNCHANGED <<redis, sent>> PROVE FormInv'
  BY <1>1, <1>2 DEF FormInv, SentInv
<1>3. CASE OpenKey \/ NewKey \/ \E k \in FormKeys : BackToKey(k)
  BY <1>1, <1>2, <1>3, OpeningFills
<1>4. CASE KeyArrives \/ KeyFails \/ RefocusForm
  BY <1>1, <1>2, <1>4, AnswersFill
<1>5. CASE \/ EditRows \/ \E ttl \in 0 .. MaxTtl : EditTtl(ttl)
           \/ \E type \in ValueTypes : ChooseType(type)
  BY <1>1, <1>2, <1>5, EditsFill
<1>6. CASE CloseForm
  BY <1>1, <1>6, CloseKeepsSends DEF FormInv
<1>7. CASE AskToDeleteKey \/ CancelDeleteKey \/ UNCHANGED redisFormVars
  <2>1. sent' = sent
    BY <1>7 DEF AskToDeleteKey, CancelDeleteKey, redisFormVars
  <2> QED BY <1>1, <1>2, <1>7, <2>1, AskingFills
<1>8. CASE SaveKey \/ ConfirmDeleteKey
  BY <1>1, <1>8, AskingFills, SendingKeepsSends DEF FormInv
<1>9. ASSUME NEW k \in FormKeys,
             TimePasses(k) \/ \E v \in KeyValues \cup {NoKey} : OtherClientWrites(k, v)
      PROVE  FormInv'
  BY <1>1, <1>9, OthersFill, OthersKeepSends DEF FormInv
<1>10. ASSUME NEW s \in sent, SaveSucceeds(s) \/ SaveFails(s) PROVE FormInv'
  BY <1>1, <1>10, OutcomesKeep DEF FormInv
<1> QED BY <1>3, <1>4, <1>5, <1>6, <1>7, <1>8, <1>9, <1>10 DEF FormNext

LEMMA SendsEnd ==
    ASSUME FormTypes, SentInv, NEW s \in sent, sent' = {}, [FormNext]_redisFormVars
    PROVE  SaveSucceeds(s) \/ SaveFails(s)
<1>1. \A t \in sent : t = s
  BY DEF SentInv
<1>2. sent # {}
  OBVIOUS
<1>3. ~SendsForm("insert") /\ ~SendsForm("replace") /\ ~SendsForm("delete")
  BY <1>2 DEF SendsForm
<1>4. ~SaveKey /\ ~ConfirmDeleteKey
  BY <1>3 DEF SaveKey, ConfirmDeleteKey
<1>5. ~CloseForm
  BY <1>2 DEF CloseForm
<1>6. ASSUME NEW k \in FormKeys, NEW v \in KeyValues \cup {NoKey}, OtherClientWrites(k, v)
      PROVE  FALSE
  <2>1. [s EXCEPT !.untouched = @ /\ k # s.key] \in sent'
    BY <1>6 DEF OtherClientWrites
  <2> QED BY <2>1
<1>7. \A k \in FormKeys : ~BackToKey(k) /\ ~TimePasses(k)
  BY <1>2 DEF BackToKey, TimePasses
<1>8. ~OpenKey /\ ~NewKey /\ ~KeyArrives /\ ~KeyFails /\ ~RefocusForm /\ ~AskToDeleteKey
      /\ ~CancelDeleteKey /\ ~UNCHANGED redisFormVars
  BY <1>2 DEF OpenKey, NewKey, KeyArrives, KeyFails, RefocusForm, AskToDeleteKey, CancelDeleteKey,
              redisFormVars
<1>9. \A v : ~Edits(v)
  BY <1>2 DEF Edits
<1>10. /\ ~EditRows /\ \A ttl \in 0 .. MaxTtl : ~EditTtl(ttl)
       /\ \A type \in ValueTypes : ~ChooseType(type)
  BY <1>9 DEF EditRows, EditTtl, ChooseType
<1>11. \E t \in sent : SaveSucceeds(t) \/ SaveFails(t)
  BY <1>4, <1>5, <1>6, <1>7, <1>8, <1>10 DEF FormNext
<1> QED BY <1>1, <1>11

\* What a replacement that ends may leave of its key.
LEMMA ReplaceLeaves ==
    ASSUME FormTypes, NEW s \in Replaces \cup Others, s.kind = "replace",
           SaveSucceeds(s) \/ SaveFails(s)
    PROVE  /\ redis'[s.key] \in {redis[s.key], NoKey, Put(s.value), Put([s.value EXCEPT !.ttl = 0])}
           /\ SaveSucceeds(s) => redis'[s.key] = Put(s.value)
<1>1. s.key \in FormKeys /\ KeyAfter(s) = Put(s.value)
  BY LeftOfKey, SendShape
<1>2. Halfway(s) = {NoKey, Put([s.value EXCEPT !.ttl = 0])}
  BY DEF Halfway
<1>3. ASSUME NEW v, redis' = [redis EXCEPT ![s.key] = v] PROVE redis'[s.key] = v
  BY <1>1, <1>3 DEF FormTypes
<1>4. SaveSucceeds(s) => redis'[s.key] = Put(s.value)
  BY <1>1, <1>3 DEF SaveSucceeds
<1>5. CASE SaveFails(s)
  <2>1. \/ redis' = redis
        \/ \E v \in {Put(s.value), NoKey, Put([s.value EXCEPT !.ttl = 0])} :
               redis' = [redis EXCEPT ![s.key] = v]
    BY <1>1, <1>2, <1>5 DEF SaveFails
  <2> QED BY <1>3, <1>4, <2>1
<1> QED BY <1>4, <1>5

\* Of a value that was read of a key, put with its ttl or without one.
LEMMA PutOfTold ==
    ASSUME NEW v, IsValue(v), NEW old, IsRedisValue(old), NEW whole, Told(v, whole, old)
    PROVE  /\ Put(v) # NoKey /\ Told(Put(v), whole, old)
           /\ Tells(Put([v EXCEPT !.ttl = 0]), old)
<1>1. v.rows # <<>> /\ Tells(v, old)
  BY ToldWhole DEF Told
<1>2. Put(v) = v /\ v # NoKey
  BY <1>1, RedisValuesAssumption DEF Put, IsRedisValue
<1>3. v = Value(v.type, v.rows, v.ttl)
  BY ValueShape
<1>4. [v EXCEPT !.ttl = 0] = Value(v.type, v.rows, 0)
  BY <1>3 DEF Value
<1>5. Put([v EXCEPT !.ttl = 0]) = Value(v.type, v.rows, 0)
  BY <1>1, <1>4 DEF Put, Value
<1>6. Tells(Value(v.type, v.rows, 0), old)
  BY <1>1 DEF Tells, Value
<1> QED BY <1>2, <1>5, <1>6

\* A save replaces a key only by what was loaded from that key.  One that
\* nobody touched leaves at most what was read of it, however it ends, and if
\* it succeeds and the key was read whole, with its expiry, it leaves all of
\* it (RedisValueEditor.tsx:60-64, 126-135).
THEOREM SavesKeepWhatWasLoaded == FormSpec => SaveKeepsWhatWasLoaded
<1>1. ASSUME FormInv, [FormNext]_redisFormVars, NEW s \in sent, sent' = {}, s.kind = "replace"
      PROVE  /\ s.from = s.key
             /\ s.untouched /\ redis[s.key] # NoKey /\ Whole(redis[s.key]) =>
                   /\ redis'[s.key] \in {NoKey, redis[s.key]} \/ Tells(redis'[s.key], redis[s.key])
                   /\ SaveSucceeds(s) =>
                         redis'[s.key] # NoKey /\ (s.exact => Same(redis'[s.key], redis[s.key]))
  <2>1. FormTypes /\ SentInv
    BY <1>1 DEF FormInv
  <2>2. s.key \in FormKeys /\ s.from = s.key /\ IsValue(s.value) /\ s \in Replaces \cup Others
    BY <1>1, <2>1, SendShape DEF SentInv
  <2>3. SaveSucceeds(s) \/ SaveFails(s)
    BY <1>1, <2>1, SendsEnd
  <2>4. /\ redis'[s.key] \in {redis[s.key], NoKey, Put(s.value), Put([s.value EXCEPT !.ttl = 0])}
        /\ SaveSucceeds(s) => redis'[s.key] = Put(s.value)
    BY <1>1, <2>1, <2>2, <2>3, ReplaceLeaves
  <2>5. ASSUME s.untouched, redis[s.key] # NoKey, Whole(redis[s.key])
        PROVE  /\ redis'[s.key] \in {NoKey, redis[s.key]} \/ Tells(redis'[s.key], redis[s.key])
               /\ SaveSucceeds(s) =>
                     redis'[s.key] # NoKey /\ (s.exact => Same(redis'[s.key], redis[s.key]))
    <3>1. Told(s.value, s.exact, redis[s.key])
      BY <1>1, <2>1, <2>5 DEF SentInv
    <3>2. IsRedisValue(redis[s.key])
      BY <2>1, <2>2, <2>5 DEF FormTypes, KeyState
    <3>3. /\ Put(s.value) # NoKey /\ Told(Put(s.value), s.exact, redis[s.key])
          /\ Tells(Put([s.value EXCEPT !.ttl = 0]), redis[s.key])
      BY <2>2, <3>1, <3>2, PutOfTold
    <3> QED BY <2>4, <3>3 DEF Told
  <2> QED BY <2>2, <2>5
<1>2. FormInv /\ [FormNext]_redisFormVars =>
         [\A s \in sent :
             LET old == redis[s.key]
                 new == redis'[s.key]
             IN  sent' = {} /\ s.kind = "replace" =>
                   /\ s.from = s.key
                   /\ s.untouched /\ old # NoKey
                         /\ (old.type = "list" => NoString \notin Range(old.rows)) =>
                       /\ new \in {NoKey, old} \/ Tells(new, old)
                       /\ SaveSucceeds(s) => new # NoKey /\ (s.exact => Same(new, old))]_redisFormVars
  BY <1>1 DEF Whole
<1>3. FormSpec => []FormInv
  BY FormInitially, FormStep, PTL DEF FormSpec
<1> QED BY <1>2, <1>3, PTL DEF FormSpec, SaveKeepsWhatWasLoaded

-----------------------------------------------------------------------------
(***************************************************************************)
(* The types of the three editors                                          *)
(***************************************************************************)

\* Each variable of the form keeps its type, whatever was loaded, typed, saved
\* or deleted (RedisValueEditor.tsx:34-94).
THEOREM FormTypeCorrect == FormSpec => []FormTypeOK
<1>1. FormInv => FormTypeOK
  <2> SUFFICES ASSUME FormInv PROVE FormTypeOK
    OBVIOUS
  <2>1. \A s \in sent : s.kind \in {"insert", "replace", "delete"} /\ s.key \in FormKeys
    BY SendShape DEF FormInv, SentInv
  <2> QED BY <2>1 DEF FormInv, FormTypes, KeyState, FormTypeOK
<1> QED BY <1>1, FormInitially, FormStep, PTL DEF FormSpec

\* As many values as arguments, or fewer.
LEMMA ImageCount ==
    ASSUME NEW S, IsFiniteSet(S), NEW f, f = [e \in S |-> f[e]], NEW T, T = {f[e] : e \in S}
    PROVE  IsFiniteSet(T) /\ Cardinality(T) <= Cardinality(S)
<1>1. f \in Surjection(S, T)
  BY DEF Surjection
<1> QED BY <1>1, FS_Surjection

\* What the document editor's inductive invariant leaves out.
DocRest ==
    /\ load \in {"idle", "loading", "failed"} /\ edited \in BOOLEAN
    /\ IsFiniteSet(calls) /\ Cardinality(calls) <= MaxCalls

LEMMA FewerCalls ==
    ASSUME DocRest, NEW some \in SUBSET calls,
           calls' = some \/ calls' = {[c EXCEPT !.heard = FALSE] : c \in some}
    PROVE  IsFiniteSet(calls') /\ Cardinality(calls') <= MaxCalls
<1>1. IsFiniteSet(some) /\ Cardinality(some) <= Cardinality(calls) /\ Cardinality(some) \in Nat
  BY FS_Subset, FS_CardinalityType DEF DocRest
<1>2. Cardinality(calls) \in Nat /\ MaxCalls \in Nat
  BY FS_CardinalityType, DocumentEditorAssumption DEF DocRest
<1>3. CASE calls' = some
  BY <1>1, <1>2, <1>3 DEF DocRest
<1>4. CASE calls' = {[c EXCEPT !.heard = FALSE] : c \in some}
  <2> DEFINE f == [c \in some |-> [c EXCEPT !.heard = FALSE]]
  <2>1. f = [c \in some |-> f[c]] /\ calls' = {f[c] : c \in some}
    BY <1>4
  <2> HIDE DEF f
  <2>2. IsFiniteSet(calls') /\ Cardinality(calls') <= Cardinality(some)
    BY <1>1, <2>1, ImageCount
  <2>3. Cardinality(calls') \in Nat
    BY <2>2, FS_CardinalityType
  <2> QED BY <1>1, <1>2, <2>2, <2>3 DEF DocRest
<1> QED BY <1>3, <1>4

LEMMA MoreCalls ==
    ASSUME DocRest, NEW kind, Sends(kind)
    PROVE  IsFiniteSet(calls') /\ Cardinality(calls') <= MaxCalls
<1>1. PICK call : calls' = calls \cup {call}
  BY DEF Sends
<1>2. /\ IsFiniteSet(calls')
      /\ Cardinality(calls') = IF call \in calls THEN Cardinality(calls) ELSE Cardinality(calls) + 1
  BY <1>1, FS_AddElement DEF DocRest
<1>3. Cardinality(calls) \in Nat /\ MaxCalls \in Nat /\ Cardinality(calls) < MaxCalls
  BY FS_CardinalityType, DocumentEditorAssumption DEF DocRest, Sends
<1> QED BY <1>2, <1>3

LEMMA LooksRest ==
    ASSUME DocRest, NEW d, Looks(d)
    PROVE  load' \in {"idle", "loading", "failed"} /\ edited' \in BOOLEAN
<1>1. load' \in {"idle", "loading", "failed"}
  BY DEF Looks
<1>2. edited' \in BOOLEAN
  BY DEF Looks, Loads, DocRest
<1> QED BY <1>1, <1>2

LEMMA DocRestStep == DocRest /\ [DocNext]_docVars => DocRest'
<1> SUFFICES ASSUME DocRest, [DocNext]_docVars PROVE DocRest'
  OBVIOUS
<1>1. ASSUME UNCHANGED calls, load' \in {"idle", "loading", "failed"}, edited' \in BOOLEAN
      PROVE  DocRest'
  BY <1>1 DEF DocRest
<1>2. ASSUME UNCHANGED <<load, edited>>, NEW kind, Sends(kind) PROVE DocRest'
  BY <1>2, MoreCalls DEF DocRest
<1>3. ASSUME load' = "idle", edited' = FALSE, NEW some \in SUBSET calls,
             calls' = {[c EXCEPT !.heard = FALSE] : c \in some}
      PROVE  DocRest'
  <2>1. IsFiniteSet(calls') /\ Cardinality(calls') <= MaxCalls
    BY <1>3, FewerCalls
  <2> QED BY <1>3, <2>1 DEF DocRest
<1>4. CASE OpenDocument
  BY <1>1, <1>4, LooksRest DEF OpenDocument
<1>5. CASE NewDocument \/ Arrives \/ LoadFails \/ Focus \/ Rerenders \/ SortFields
  BY <1>1, <1>5 DEF NewDocument, Arrives, Loads, LoadFails, Focus, Rerenders, SortFields, DocRest
<1>6. Unmounted => DocRest'
  BY <1>3 DEF Unmounted, Unheard
<1>7. ASSUME NEW d \in Docs \cup {Gone}, BackTo(d) PROVE DocRest'
  <2>1. CASE Looks(d) /\ UNCHANGED calls
    BY <1>1, <2>1, LooksRest
  <2>2. CASE UNCHANGED <<load, edited, calls>>
    BY <1>1, <2>2 DEF DocRest
  <2> QED BY <1>6, <1>7, <2>1, <2>2 DEF BackTo
<1>8. ASSUME NEW d \in Docs, NEW content \in Contents \cup {Gone}, OtherWrites(d, content)
      PROVE  DocRest'
  BY <1>1, <1>8 DEF OtherWrites, DocRest
<1>9. ASSUME NEW content \in Contents, Type(content) PROVE DocRest'
  BY <1>1, <1>9 DEF Type, DocRest
<1>10. CASE SaveDocument \/ AskToDelete \/ Confirm \/ CancelConfirmation
  <2>1. UNCHANGED <<load, edited>>
    BY <1>10 DEF SaveDocument, AskToDelete, Confirm, CancelConfirmation
  <2>2. UNCHANGED calls \/ \E kind : Sends(kind)
    BY <1>10 DEF SaveDocument, AskToDelete, Confirm, CancelConfirmation
  <2> QED BY <1>1, <1>2, <2>1, <2>2 DEF DocRest
<1>11. CASE Cancel \/ Escape
  BY <1>6, <1>10, <1>11 DEF Cancel, Escape, CloseEditor
<1>12. ASSUME NEW call \in calls, CallSucceeds(call) PROVE DocRest'
  <2>1. calls \ {call} \in SUBSET calls
    OBVIOUS
  <2> QED BY <1>3, <1>12, <2>1 DEF CallSucceeds
<1>13. ASSUME NEW call \in calls, CallFails(call) PROVE DocRest'
  <2>1. calls \ {call} \in SUBSET calls
    OBVIOUS
  <2>2. IsFiniteSet(calls') /\ Cardinality(calls') <= MaxCalls
    BY <1>13, <2>1, FewerCalls DEF CallFails
  <2> QED BY <1>13, <2>2 DEF CallFails, DocRest
<1>14. CASE UNCHANGED docVars
  BY <1>1, <1>14 DEF docVars, editorVars, DocRest
<1> QED BY <1>4, <1>5, <1>7, <1>8, <1>9, <1>10, <1>11, <1>12, <1>13, <1>14 DEF DocNext

\* Each variable of the document editor keeps its type, and a confirmation is
\* open only over the editor (DocumentEditor.tsx:28-40, App.tsx:446-462).
THEOREM DocTypeCorrect == DocSpec => []DocTypeOK
<1>1. DocInit => DocRest
  <2>1. IsFiniteSet({}) /\ Cardinality({}) = 0
    BY FS_EmptySet
  <2>2. 0 <= MaxCalls
    BY DocumentEditorAssumption
  <2> QED BY <2>1, <2>2 DEF DocInit, DocRest
<1>2. SaveInv /\ DocRest => DocTypeOK
  <2> SUFFICES ASSUME SaveInv, DocRest PROVE DocTypeOK
    OBVIOUS
  <2>1. \A call \in calls : /\ call.kind \in {"insert", "replace", "delete"}
                           /\ call.doc \in Docs /\ call.heard \in BOOLEAN
    BY DEF SaveInv, EditorRanges, DocCalls
  <2>2. text.is \in Contents \cup {Gone} /\ text.of \in Docs \cup {Gone}
    BY DEF SaveInv, EditorRanges
  <2> QED BY <2>1, <2>2 DEF SaveInv, EditorRanges, DocRest, DocTypeOK
<1> QED BY <1>1, <1>2, DocInitially, DocStep, DocRestStep, PTL DEF DocSpec

\* At most one, of S.
AtMostOne(T, S) == T = {} \/ \E e \in S : T = {e}

Queries == [filter : Text, order : Text]
Picks == [box : {"filter", "order"}, text : Text]

\* A draft in the editor and in the store, and the texts that were run.
DraftTypes ==
    /\ override \in BOOLEAN
    /\ \A coll \in EdColls : AtMostOne(drafts[coll], Drafts)
    /\ AtMostOne(draft, Drafts) /\ (mounted <=> draft # {})
    /\ ran \in Queries /\ ran.filter.form = "strict" /\ ran.order.form = "strict"
    /\ AtMostOne(pick, Picks)

\* What is under way, of an editor that is there for its counts.
AskedTypes ==
    /\ \A r \in asked : /\ r.kind \in {"aggregate", "count", "update"} /\ r.coll \in EdColls
                        /\ r.kind = "count" => mounted
    /\ pendingUpdate = {} \/ \E p : pendingUpdate = {p}
    /\ pendingUpdate # {} => mounted

LEMMA DefaultTypes ==
    /\ Default \in Text /\ Default.form = "strict"
    /\ DefaultQuery \in Queries
    /\ DefaultQuery.filter.form = "strict" /\ DefaultQuery.order.form = "strict"
    /\ \A query \in Queries : DefaultDraft(query) \in Drafts
<1>1. Default \in Text /\ Default.form = "strict"
  BY DEF Default, Text
<1>2. \A query \in Queries : DefaultDraft(query) \in Drafts
  <2> SUFFICES ASSUME NEW query \in Queries PROVE DefaultDraft(query) \in Drafts
    OBVIOUS
  <2>1. query.filter \in Text
    BY DEF Queries
  <2> QED BY <1>1, <2>1 DEF DefaultDraft, Drafts
<1> QED BY <1>1, <1>2 DEF DefaultQuery, Queries

\* The drafts that the editor makes of a draft.
LEMMA DraftsMade ==
    ASSUME NEW d \in Drafts
    PROVE  /\ \A box \in Boxes, is \in Text : [d EXCEPT !.text[box] = is] \in Drafts
           /\ \A into \in {"find", "aggregate", "update"} : [d EXCEPT !.mode = into] \in Drafts
           /\ \A box \in Boxes : d.text[box] \in Text
<1>1. /\ d = [mode |-> d.mode, text |-> d.text]
      /\ d.mode \in {"find", "aggregate", "update"} /\ d.text \in [Boxes -> Text]
  BY DEF Drafts
<1>2. ASSUME NEW box \in Boxes, NEW is \in Text PROVE [d EXCEPT !.text[box] = is] \in Drafts
  <2>1. [d.text EXCEPT ![box] = is] \in [Boxes -> Text]
    BY <1>1
  <2>2. [d EXCEPT !.text[box] = is] = [mode |-> d.mode, text |-> [d.text EXCEPT ![box] = is]]
    BY <1>1
  <2> QED BY <1>1, <2>1, <2>2 DEF Drafts
<1>3. ASSUME NEW into \in {"find", "aggregate", "update"} PROVE [d EXCEPT !.mode = into] \in Drafts
  BY <1>1 DEF Drafts
<1> QED BY <1>1, <1>2, <1>3

LEMMA PatchedDraft ==
    ASSUME NEW d \in Drafts, NEW picks, AtMostOne(picks, Picks)
    PROVE  \E e \in Drafts : Patched(d, picks) = {e}
<1> DEFINE becomes == IF \E p \in picks : p.box = "filter" THEN "find" ELSE d.mode
           is == [box \in Boxes |-> IF \E p \in picks : p.box = box
                                    THEN (CHOOSE p \in picks : p.box = box).text ELSE d.text[box]]
<1>1. becomes \in {"find", "aggregate", "update"}
  BY DEF Drafts
<1>2. ASSUME NEW box \in Boxes PROVE is[box] \in Text
  <2>1. CASE \E p \in picks : p.box = box
    <3>1. (CHOOSE p \in picks : p.box = box) \in picks
      BY <2>1
    <3>2. \A p \in picks : p.text \in Text
      BY DEF AtMostOne, Picks
    <3> QED BY <2>1, <3>1, <3>2
  <2>2. CASE ~\E p \in picks : p.box = box
    BY <2>2, DraftsMade
  <2> QED BY <2>1, <2>2
<1>3. is \in [Boxes -> Text]
  BY <1>2
<1>4. Patched(d, picks) = {[d EXCEPT !.mode = becomes, !.text = is]}
  BY DEF Patched
<1> HIDE DEF becomes, is
<1>5. [d EXCEPT !.mode = becomes, !.text = is] \in Drafts
  BY <1>1, <1>3 DEF Drafts
<1> QED BY <1>4, <1>5

LEMMA LoadedIsDraft ==
    ASSUME DraftTypes, NEW coll \in EdColls, NEW query \in Queries
    PROVE  \E d \in Drafts : LoadedDraft(coll, query) = {d}
BY DefaultTypes DEF LoadedDraft, DraftTypes, AtMostOne

\* A draft is shown, and stored.
LEMMA ShowsDraft ==
    ASSUME DraftInv, DraftTypes, NEW coll \in EdColls, NEW d \in Drafts, ShowDraft(coll, {d})
    PROVE  /\ \A c \in EdColls : AtMostOne(drafts'[c], Drafts)
           /\ AtMostOne(draft', Drafts) /\ draft' # {}
BY DEF DraftInv, DraftTypes, ShowDraft, AtMostOne

LEMMA ReloadShows ==
    ASSUME DraftInv, DraftTypes, NEW coll \in EdColls, ReloadDraft(coll, DefaultQuery)
    PROVE  /\ \A c \in EdColls : AtMostOne(drafts'[c], Drafts)
           /\ AtMostOne(draft', Drafts) /\ draft' # {}
<1>1. PICK d \in Drafts : LoadedDraft(coll, DefaultQuery) = {d}
  BY LoadedIsDraft, DefaultTypes
<1> QED BY <1>1, ShowsDraft DEF ReloadDraft

LEMMA MountShows ==
    ASSUME DraftInv, DraftTypes, NEW coll \in EdColls, NEW query \in Queries, Mounts(coll, query)
    PROVE  /\ \A c \in EdColls : AtMostOne(drafts'[c], Drafts)
           /\ AtMostOne(draft', Drafts) /\ draft' # {} /\ mounted' = TRUE
<1>1. PICK d \in Drafts : LoadedDraft(coll, query) = {d}
  BY LoadedIsDraft
<1>2. PICK e \in Drafts : Patched(d, pick) = {e}
  BY PatchedDraft DEF DraftTypes
<1>3. UNION {Patched(one, pick) : one \in LoadedDraft(coll, query)} = {e}
  BY <1>1, <1>2
<1>4. ShowDraft(coll, {e}) /\ mounted' = TRUE
  BY <1>3 DEF Mounts
<1> QED BY <1>4, ShowsDraft

LEMMA PatchShows ==
    ASSUME DraftInv, DraftTypes, mounted, NEW d \in Drafts, PatchDraft({d}),
           UNCHANGED mounted, override' \in BOOLEAN,
           ran' \in Queries, ran'.filter.form = "strict", ran'.order.form = "strict",
           AtMostOne(pick', Picks)
    PROVE  DraftTypes'
<1>1. ShowDraft(selected, {d}) /\ selected \in EdColls
  BY DEF PatchDraft, DraftInv
<1>2. /\ \A c \in EdColls : AtMostOne(drafts'[c], Drafts)
      /\ AtMostOne(draft', Drafts) /\ draft' # {}
  BY <1>1, ShowsDraft
<1> QED BY <1>2 DEF DraftTypes

LEMMA StillTypes ==
    ASSUME DraftTypes, UNCHANGED <<mounted, drafts, draft, ran, pick>>, override' \in BOOLEAN
    PROVE  DraftTypes'
BY DEF DraftTypes

LEMMA StrictIsText == \A is \in Text : Strict(is) \in Text /\ Strict(is).form # "loose"
                        /\ (is.form # "broken" => Strict(is).form = "strict")
BY DEF Strict, Text

LEMMA PartsAreTexts == \A is \in Text : Parts(is) \subseteq Text
BY DEF Parts, TypedTexts, Text

\* Going to another collection, tab or page.
LEMMA GoingTypes ==
    ASSUME DraftInv, DraftTypes,
           \/ \E coll \in EdColls : SelectCollectionHere(coll)
           \/ LeaveDocuments \/ ReturnToDocuments \/ ReloadPage
           \/ \E coll \in EdColls, is \in TypedTexts : Replay(coll, is)
    PROVE  DraftTypes'
<1>1. ASSUME NEW coll \in EdColls, ReloadDraft(coll, DefaultQuery), mounted, UNCHANGED mounted,
             ran' = DefaultQuery, override' = FALSE, AtMostOne(pick', Picks)
      PROVE  DraftTypes'
  <2>1. /\ \A c \in EdColls : AtMostOne(drafts'[c], Drafts)
        /\ AtMostOne(draft', Drafts) /\ draft' # {}
    BY <1>1, ReloadShows
  <2> QED BY <1>1, <2>1, DefaultTypes DEF DraftTypes
<1>2. ASSUME ran' = DefaultQuery, override' = FALSE, AtMostOne(pick', Picks),
             UNCHANGED <<mounted, editorTexts>>
      PROVE  DraftTypes'
  BY <1>2, DefaultTypes DEF DraftTypes, editorTexts
<1>3. AtMostOne(pick, Picks) /\ AtMostOne({}, Picks) /\ selected \in EdColls
  BY DEF DraftTypes, AtMostOne, DraftInv
<1>4. ASSUME NEW coll \in EdColls, SelectCollectionHere(coll) PROVE DraftTypes'
  <2>1. ran' = DefaultQuery /\ override' = FALSE /\ UNCHANGED <<mounted, pick>>
    BY <1>4 DEF SelectCollectionHere
  <2>2. CASE mounted /\ ReloadDraft(coll, DefaultQuery)
    BY <1>1, <1>3, <2>1, <2>2
  <2>3. CASE UNCHANGED editorTexts
    BY <1>2, <1>3, <2>1, <2>3
  <2> QED BY <1>4, <2>2, <2>3 DEF SelectCollectionHere
<1>5. CASE LeaveDocuments
  <2>1. mounted' = FALSE /\ draft' = {} /\ UNCHANGED <<drafts, ran, override, pick>>
    BY <1>5 DEF LeaveDocuments, appVars
  <2> QED BY <2>1 DEF DraftTypes, AtMostOne
<1>6. CASE ReturnToDocuments
  <2>1. Mounts(selected, ran) /\ UNCHANGED <<ran, override, pick>> /\ ran \in Queries
    BY <1>6 DEF ReturnToDocuments, appVars, DraftTypes
  <2>2. /\ \A c \in EdColls : AtMostOne(drafts'[c], Drafts)
        /\ AtMostOne(draft', Drafts) /\ draft' # {} /\ mounted' = TRUE
    BY <1>3, <2>1, MountShows
  <2> QED BY <2>1, <2>2 DEF DraftTypes
<1>7. CASE ReloadPage
  <2>1. ran' = DefaultQuery /\ override' = FALSE /\ pick' = {} /\ UNCHANGED mounted
    BY <1>7 DEF ReloadPage
  <2>2. CASE mounted /\ ReloadDraft(selected, DefaultQuery)
    BY <1>1, <1>3, <2>1, <2>2
  <2>3. CASE UNCHANGED editorTexts
    BY <1>2, <1>3, <2>1, <2>3
  <2> QED BY <1>7, <2>2, <2>3 DEF ReloadPage
<1>8. ASSUME NEW coll \in EdColls, NEW is \in TypedTexts, Replay(coll, is) PROVE DraftTypes'
  <2> DEFINE query == [DefaultQuery EXCEPT !.filter = is]
  <2>1. is \in Text /\ is.form = "strict" /\ Default \in Text /\ Default.form = "strict"
    BY <1>8, DefaultTypes DEF Replay, TypedTexts, Text
  <2>2. query = [filter |-> is, order |-> Default]
    BY DEF DefaultQuery
  <2> HIDE DEF query
  <2>3. query \in Queries /\ query.filter.form = "strict" /\ query.order.form = "strict"
    BY <2>1, <2>2 DEF Queries
  <2>4. ran' = query /\ override' = FALSE /\ Mounts(coll, ran') /\ UNCHANGED pick
    BY <1>8 DEF Replay, query
  <2>5. Mounts(coll, query)
    BY <2>4
  <2>6. /\ \A c \in EdColls : AtMostOne(drafts'[c], Drafts)
        /\ AtMostOne(draft', Drafts) /\ draft' # {} /\ mounted' = TRUE
    BY <2>3, <2>5, MountShows
  <2> QED BY <2>3, <2>4, <2>6 DEF DraftTypes
<1> QED BY <1>4, <1>5, <1>6, <1>7, <1>8

\* What the user types, fixes, picks or chooses.
LEMMA TypingTypes ==
    ASSUME DraftInv, DraftTypes,
           \/ \E box \in Boxes, is \in TypedTexts : TypeIn(box, is)
           \/ FixJson
           \/ \E into \in {"find", "aggregate", "update"} :
                 SwitchMode(into) \/ \E is \in TypedTexts : ApplyPreset(into, is)
           \/ \E box \in {"filter", "order"}, is \in TypedTexts : PickFromResults(box, is)
    PROVE  DraftTypes'
<1>1. TypedTexts \subseteq Text
  BY DEF TypedTexts, Text
<1>2. \A d \in draft : d \in Drafts
  BY DEF DraftTypes, AtMostOne
<1>3. ASSUME NEW d \in Drafts, PatchDraft({d}), mounted, UNCHANGED <<mounted, ran>>,
             override' \in BOOLEAN, AtMostOne(pick', Picks)
      PROVE  DraftTypes'
  BY <1>3, PatchShows DEF DraftTypes
<1>4. override \in BOOLEAN /\ AtMostOne(pick, Picks)
  BY DEF DraftTypes
<1>5. ASSUME NEW box \in Boxes, NEW is \in TypedTexts, TypeIn(box, is) PROVE DraftTypes'
  <2>1. PICK d \in draft : PatchDraft({[d EXCEPT !.text[box] = is]})
    BY <1>5 DEF TypeIn
  <2>2. [d EXCEPT !.text[box] = is] \in Drafts
    BY <1>1, <1>2, DraftsMade
  <2>3. mounted /\ UNCHANGED <<mounted, ran, override, pick>>
    BY <1>5 DEF TypeIn, appVars
  <2> QED BY <1>3, <1>4, <2>1, <2>2, <2>3
<1>6. CASE FixJson
  <2>1. PICK d \in draft :
           PatchDraft({[d EXCEPT !.text = [box \in Boxes |->
              IF box \in Shown(d) \ {"order"} THEN Strict(@[box]) ELSE @[box]]]})
    BY <1>6 DEF FixJson
  <2> DEFINE is == [box \in Boxes |->
                       IF box \in Shown(d) \ {"order"} THEN Strict(d.text[box]) ELSE d.text[box]]
  <2>2. is \in [Boxes -> Text]
    BY <1>2, DraftsMade, StrictIsText
  <2>3. PatchDraft({[d EXCEPT !.text = is]})
    BY <2>1
  <2> HIDE DEF is
  <2>4. [d EXCEPT !.text = is] \in Drafts
    BY <1>2, <2>2 DEF Drafts
  <2>5. mounted /\ UNCHANGED <<mounted, ran, override, pick>>
    BY <1>6 DEF FixJson, appVars
  <2> QED BY <1>3, <1>4, <2>3, <2>4, <2>5
<1>7. ASSUME NEW into \in {"find", "aggregate", "update"}, SwitchMode(into) PROVE DraftTypes'
  <2>1. PICK d \in draft : PatchDraft({[d EXCEPT !.mode = into]})
    BY <1>7 DEF SwitchMode
  <2>2. [d EXCEPT !.mode = into] \in Drafts
    BY <1>2, DraftsMade
  <2>3. mounted /\ UNCHANGED <<mounted, ran, pick>> /\ override' \in BOOLEAN
    BY <1>7 DEF SwitchMode
  <2> QED BY <1>3, <1>4, <2>1, <2>2, <2>3
<1>8. ASSUME NEW into \in {"find", "aggregate", "update"}, NEW is \in TypedTexts, ApplyPreset(into, is)
      PROVE  DraftTypes'
  <2>1. PICK d \in draft :
           PatchDraft({[mode |-> into,
                        text |-> [box \in Boxes |->
                            IF box \notin Shown([mode |-> into]) THEN d.text[box]
                            ELSE IF box = "order" THEN Default ELSE is]]})
    BY <1>8 DEF ApplyPreset
  <2> DEFINE texts == [box \in Boxes |-> IF box \notin Shown([mode |-> into]) THEN d.text[box]
                                         ELSE IF box = "order" THEN Default ELSE is]
  <2>2. texts \in [Boxes -> Text]
    BY <1>1, <1>2, DraftsMade, DefaultTypes
  <2>3. PatchDraft({[mode |-> into, text |-> texts]})
    BY <2>1
  <2> HIDE DEF texts
  <2>4. [mode |-> into, text |-> texts] \in Drafts
    BY <2>2 DEF Drafts
  <2>5. mounted /\ UNCHANGED <<mounted, ran, override, pick>>
    BY <1>8 DEF ApplyPreset, appVars
  <2> QED BY <1>3, <1>4, <2>3, <2>4, <2>5
<1>9. ASSUME NEW box \in {"filter", "order"}, NEW is \in TypedTexts, PickFromResults(box, is)
      PROVE  DraftTypes'
  <2>1. pick' = {[box |-> box, text |-> is]}
    BY <1>9 DEF PickFromResults
  <2>2. AtMostOne(pick', Picks)
    BY <1>1, <2>1 DEF AtMostOne, Picks
  <2>3. PICK d \in draft : PatchDraft(Patched(d, pick'))
    BY <1>9 DEF PickFromResults
  <2>4. PICK e \in Drafts : Patched(d, pick') = {e}
    BY <1>2, <2>2, PatchedDraft
  <2>5. mounted /\ UNCHANGED <<mounted, ran, override>>
    BY <1>9 DEF PickFromResults
  <2> QED BY <1>3, <1>4, <2>2, <2>3, <2>4, <2>5
<1> QED BY <1>5, <1>6, <1>7, <1>8, <1>9

LEMMA RunningTypes ==
    ASSUME DraftInv, DraftTypes, NEW whole \in BOOLEAN, RunFind(whole)
    PROVE  DraftTypes'
<1>1. PICK d \in draft, filter \in Text :
         /\ filter.form = "strict" /\ d.text["order"].form # "broken"
         /\ PatchDraft(Normalized(d))
         /\ ran' = [filter |-> filter, order |-> Strict(d.text["order"])]
  <2>1. PICK d \in draft :
           \E filter \in IF whole THEN {d.text["filter"]} ELSE Parts(d.text["filter"]) :
              /\ filter.form = "strict" /\ d.text["order"].form # "broken"
              /\ PatchDraft(Normalized(d))
              /\ ran' = [filter |-> filter, order |-> Strict(d.text["order"])]
    BY DEF RunFind
  <2>2. d \in Drafts /\ "filter" \in Boxes
    BY DEF DraftTypes, AtMostOne, Boxes
  <2>3. d.text["filter"] \in Text
    BY <2>2, DraftsMade
  <2>4. Parts(d.text["filter"]) \subseteq Text
    BY <2>3, PartsAreTexts
  <2> QED BY <2>1, <2>3, <2>4
<1>2. d \in Drafts /\ "order" \in Boxes /\ mounted
  BY DEF DraftTypes, AtMostOne, Boxes
<1>3. d.text["order"] \in Text
  BY <1>2, DraftsMade
<1>4. Strict(d.text["order"]) \in Text /\ Strict(d.text["order"]).form = "strict"
  BY <1>1, <1>3, StrictIsText
<1>5. ran' \in Queries /\ ran'.filter.form = "strict" /\ ran'.order.form = "strict"
  BY <1>1, <1>4 DEF Queries
<1>6. [d EXCEPT !.text["order"] = Strict(d.text["order"])] \in Drafts
  BY <1>2, <1>4, DraftsMade
<1>7. PatchDraft({[d EXCEPT !.text["order"] = Strict(d.text["order"])]})
  BY <1>1 DEF Normalized
<1>8. override' = FALSE /\ UNCHANGED <<pick, mounted>> /\ AtMostOne(pick, Picks)
  BY DEF RunFind, DraftTypes
<1> QED BY <1>2, <1>5, <1>6, <1>7, <1>8, PatchShows

LEMMA DraftTypesStep == DraftInv /\ DraftTypes /\ [QeNext]_queryEditorVars => DraftTypes'
<1> SUFFICES ASSUME DraftInv, DraftTypes, [QeNext]_queryEditorVars PROVE DraftTypes'
  OBVIOUS
<1>1. CASE \/ \E coll \in EdColls : SelectCollectionHere(coll)
           \/ LeaveDocuments \/ ReturnToDocuments \/ ReloadPage
           \/ \E coll \in EdColls, is \in TypedTexts : Replay(coll, is)
  BY <1>1, GoingTypes
<1>2. CASE \/ \E box \in Boxes, is \in TypedTexts : TypeIn(box, is)
           \/ FixJson
           \/ \E into \in {"find", "aggregate", "update"} :
                 SwitchMode(into) \/ \E is \in TypedTexts : ApplyPreset(into, is)
           \/ \E box \in {"filter", "order"}, is \in TypedTexts : PickFromResults(box, is)
  BY <1>2, TypingTypes
<1>3. ASSUME NEW whole \in BOOLEAN, RunFind(whole) PROVE DraftTypes'
  BY <1>3, RunningTypes
<1>4. CASE RunAggregate \/ PrepareUpdateMany \/ CancelUpdate \/ ConfirmUpdate
           \/ UNCHANGED queryEditorVars
  <2>1. UNCHANGED <<mounted, drafts, draft, ran, pick, override>>
    BY <1>4 DEF RunAggregate, PrepareUpdateMany, CancelUpdate, ConfirmUpdate, queryEditorVars,
       appVars, editorTexts
  <2> QED BY <2>1 DEF DraftTypes
<1>5. ASSUME NEW r \in asked,
             AggregateAnswers(r) \/ CountAnswers(r) \/ UpdateAnswers(r) \/ AskedFails(r)
      PROVE  DraftTypes'
  <2>1. UNCHANGED <<mounted, drafts, draft, ran, pick>> /\ (override' = TRUE \/ UNCHANGED override)
    BY <1>5 DEF AggregateAnswers, CountAnswers, UpdateAnswers, AskedFails, appVars, editorTexts
  <2> QED BY <2>1, StillTypes DEF DraftTypes
<1> QED BY <1>1, <1>2, <1>3, <1>4, <1>5 DEF QeNext

LEMMA AskedTypesStep ==
    DraftInv /\ UpdateInv /\ AskedTypes /\ DraftTypes /\ [QeNext]_queryEditorVars => AskedTypes'
<1> SUFFICES ASSUME DraftInv, UpdateInv, AskedTypes, DraftTypes, [QeNext]_queryEditorVars
             PROVE  AskedTypes'
  OBVIOUS
<1>0. selected \in EdColls /\ (draft # {} => mounted)
  BY DEF DraftInv, DraftTypes
<1>1. ASSUME mounted' = mounted, UNCHANGED <<pendingUpdate, asked>> PROVE AskedTypes'
  BY <1>1 DEF AskedTypes
<1>2. ASSUME NEW request, Asks(request), UNCHANGED <<mounted, pendingUpdate>>,
             request.kind \in {"aggregate", "count", "update"}, request.coll \in EdColls, mounted
      PROVE  AskedTypes'
  BY <1>2 DEF AskedTypes, Asks
<1>3. ASSUME NEW coll \in EdColls, SelectCollectionHere(coll) PROVE AskedTypes'
  BY <1>1, <1>3 DEF SelectCollectionHere
<1>4. CASE LeaveDocuments
  <2>1. mounted' = FALSE /\ pendingUpdate' = {}
    BY <1>4 DEF LeaveDocuments
  <2>2. ASSUME NEW s \in asked'
        PROVE  s.kind \in {"aggregate", "count", "update"} /\ s.coll \in EdColls /\ s.kind # "count"
    <3>1. PICK r \in asked : /\ r.kind # "count"
                            /\ s = IF r.kind = "update" THEN [r EXCEPT !.heard = FALSE] ELSE r
      BY <1>4, <2>2 DEF LeaveDocuments
    <3>2. r.kind \in {"aggregate", "count", "update"} /\ r.coll \in EdColls
      BY DEF AskedTypes
    <3>3. CASE r.kind = "update"
      <4>1. PICK coll, filter, update, counted, heard :
               r = UpdateRequest(coll, filter, update, counted, heard)
        BY <3>3 DEF UpdateInv, IsUpdate
      <4>2. s = UpdateRequest(coll, filter, update, counted, FALSE)
        BY <3>1, <3>3, <4>1 DEF UpdateRequest
      <4>3. s.kind = "update" /\ s.coll = r.coll
        BY <4>1, <4>2 DEF UpdateRequest
      <4> QED BY <3>2, <4>3
    <3>4. CASE r.kind # "update"
      BY <3>1, <3>2, <3>4
    <3> QED BY <3>3, <3>4
  <2> QED BY <2>1, <2>2 DEF AskedTypes
<1>5. CASE ReturnToDocuments
  <2>1. mounted' = TRUE /\ UNCHANGED <<pendingUpdate, asked>>
    BY <1>5 DEF ReturnToDocuments, Mounts
  <2> QED BY <2>1 DEF AskedTypes
<1>6. CASE ReloadPage
  BY <1>6 DEF ReloadPage, AskedTypes
<1>7. ASSUME NEW coll \in EdColls, NEW is \in TypedTexts, Replay(coll, is) PROVE AskedTypes'
  <2>1. mounted' = TRUE /\ UNCHANGED <<pendingUpdate, asked>>
    BY <1>7 DEF Replay, Mounts
  <2> QED BY <2>1 DEF AskedTypes
<1>8. ASSUME NEW box, NEW is, TypeIn(box, is) \/ PickFromResults(box, is) \/ ApplyPreset(box, is)
             \/ SwitchMode(box) \/ FixJson \/ RunFind(box)
      PROVE  AskedTypes'
  BY <1>1, <1>8 DEF TypeIn, PickFromResults, ApplyPreset, SwitchMode, FixJson, RunFind
<1>9. CASE RunAggregate
  <2> DEFINE request == [kind |-> "aggregate", coll |-> selected]
  <2>1. Asks(request) /\ UNCHANGED <<mounted, pendingUpdate>> /\ mounted
    BY <1>0, <1>9 DEF RunAggregate, InMode
  <2>2. request.kind = "aggregate" /\ request.coll = selected
    OBVIOUS
  <2> HIDE DEF request
  <2> QED BY <1>0, <1>2, <2>1, <2>2
<1>10. CASE PrepareUpdateMany
  <2>1. UNCHANGED <<mounted, pendingUpdate>> /\ mounted
    BY <1>0, <1>10 DEF PrepareUpdateMany, InMode
  <2>2. PICK filter, update :
           Asks([kind |-> "count", coll |-> selected, filter |-> filter, update |-> update])
    BY <1>10 DEF PrepareUpdateMany
  <2> DEFINE request == [kind |-> "count", coll |-> selected, filter |-> filter, update |-> update]
  <2>3. Asks(request) /\ request.kind = "count" /\ request.coll = selected
    BY <2>2
  <2> HIDE DEF request
  <2> QED BY <1>0, <1>2, <2>1, <2>3
<1>11. CASE CancelUpdate
  BY <1>11 DEF CancelUpdate, AskedTypes
<1>12. CASE ConfirmUpdate
  <2>1. PICK p \in pendingUpdate :
           Asks(UpdateRequest(selected, p.filter, p.update, p.counted, TRUE))
    BY <1>12 DEF ConfirmUpdate, UpdateRequest
  <2>2. UNCHANGED <<mounted, pendingUpdate>> /\ mounted
    BY <1>12, <2>1 DEF ConfirmUpdate, AskedTypes
  <2> DEFINE request == UpdateRequest(selected, p.filter, p.update, p.counted, TRUE)
  <2>3. Asks(request) /\ request.kind = "update" /\ request.coll = selected
    BY <2>1 DEF UpdateRequest
  <2> HIDE DEF request
  <2> QED BY <1>0, <1>2, <2>2, <2>3
<1>13. ASSUME NEW r \in asked, AggregateAnswers(r) \/ UpdateAnswers(r) \/ AskedFails(r)
       PROVE  AskedTypes'
  <2>1. asked' = asked \ {r} /\ UNCHANGED mounted
        /\ (pendingUpdate' = {} \/ pendingUpdate' = pendingUpdate)
    BY <1>13 DEF AggregateAnswers, UpdateAnswers, AskedFails
  <2> QED BY <2>1 DEF AskedTypes
<1>14. ASSUME NEW r \in asked, CountAnswers(r) PROVE AskedTypes'
  <2>1. asked' = asked \ {r} /\ UNCHANGED mounted /\ mounted
    BY <1>14 DEF CountAnswers, AskedTypes
  <2>2. \E p : pendingUpdate' = {p}
    BY <1>14 DEF CountAnswers
  <2> QED BY <2>1, <2>2 DEF AskedTypes
<1>15. CASE UNCHANGED queryEditorVars
  BY <1>1, <1>15 DEF queryEditorVars
<1> QED BY <1>3, <1>4, <1>5, <1>6, <1>7, <1>8, <1>9, <1>10, <1>11, <1>12, <1>13, <1>14, <1>15
        DEF QeNext

\* Each variable of the query editor keeps its type, and an editor that is not
\* on screen has no dialog open and waits for no count
\* (QueryEditor.tsx:56-79, 416-432).
THEOREM EdTypeCorrect == QeSpec => []EdTypeOK
<1>1. QeInit => DraftTypes /\ AskedTypes
  <2> SUFFICES ASSUME QeInit PROVE DraftTypes /\ AskedTypes
    OBVIOUS
  <2>1. DefaultDraft(DefaultQuery) \in Drafts
    BY DefaultTypes
  <2>2. DraftTypes
    BY <2>1, DefaultTypes DEF QeInit, DraftTypes, AtMostOne
  <2> QED BY <2>2 DEF QeInit, AskedTypes
<1>2. DraftInv /\ DraftTypes /\ AskedTypes => EdTypeOK
  <2> SUFFICES ASSUME DraftInv, DraftTypes, AskedTypes PROVE EdTypeOK
    OBVIOUS
  <2>1. \A S, T : AtMostOne(T, S) => T \subseteq S /\ Cardinality(T) < 2
    <3> SUFFICES ASSUME NEW S, NEW T, AtMostOne(T, S) PROVE T \subseteq S /\ Cardinality(T) < 2
      OBVIOUS
    <3>1. T = {} \/ \E e \in S : T = {e}
      BY DEF AtMostOne
    <3>2. Cardinality({}) = 0 /\ \A e : Cardinality({e}) = 1
      BY FS_EmptySet, FS_Singleton
    <3>3. CASE T = {}
      BY <3>2, <3>3
    <3>4. ASSUME NEW e \in S, T = {e} PROVE T \subseteq S /\ Cardinality(T) < 2
      <4>1. Cardinality(T) = 1
        BY <3>2, <3>4
      <4> QED BY <3>4, <4>1
    <3> QED BY <3>1, <3>3, <3>4
  <2>2. Cardinality(pendingUpdate) < 2
    <3>1. Cardinality({}) = 0 /\ \A e : Cardinality({e}) = 1
      BY FS_EmptySet, FS_Singleton
    <3> QED BY <3>1 DEF AskedTypes
  <2>3. \A coll \in EdColls : drafts[coll] \subseteq Drafts /\ Cardinality(drafts[coll]) < 2
    BY <2>1 DEF DraftTypes
  <2>4. draft \subseteq Drafts /\ pick \subseteq Picks
    BY <2>1 DEF DraftTypes
  <2> QED BY <2>2, <2>3, <2>4 DEF DraftInv, DraftTypes, AskedTypes, Picks, EdTypeOK
<1> QED BY <1>1, <1>2, QueryInitially, QueryStep, DraftTypesStep, AskedTypesStep, PTL DEF QeSpec

(***************************************************************************)
(* The editors together                                                    *)
(***************************************************************************)

\* A behaviour of the composed editors is one of each of them: the composition
\* gives none a step its own module does not have.
THEOREM EditorsAreOfParts == EditorsSpec => IxSpec /\ DocSpec /\ QeSpec /\ FormSpec
<1>1. EditorsInit => IxInit /\ DocInit /\ QeInit /\ FormInit
  BY DEF EditorsInit
<1>2. [EditorsNext]_editorsVars =>
        /\ [IxNext]_indexVars /\ [DocNext]_docVars
        /\ [QeNext]_queryEditorVars /\ [FormNext]_redisFormVars
  <2>1. EditorsNext =>
          /\ IxNext \/ UNCHANGED indexVars
          /\ DocNext \/ UNCHANGED docVars
          /\ QeNext \/ UNCHANGED queryEditorVars
          /\ FormNext \/ UNCHANGED redisFormVars
    BY DEF EditorsNext, Steps
  <2>2. UNCHANGED editorsVars =>
          /\ UNCHANGED indexVars /\ UNCHANGED docVars
          /\ UNCHANGED queryEditorVars /\ UNCHANGED redisFormVars
    BY DEF editorsVars
  <2> QED BY <2>1, <2>2
<1> QED BY <1>1, <1>2, PTL DEF EditorsSpec, IxSpec, DocSpec, QeSpec, FormSpec

\* Every editor keeps its types, and with them what they say of its dialogs and
\* of the requests under way.
THEOREM EditorsTypeCorrect == EditorsSpec => []EditorsTypeOK
<1>1. IxTypeOK /\ DocTypeOK /\ EdTypeOK /\ FormTypeOK => EditorsTypeOK
  BY DEF EditorsTypeOK
<1> QED BY <1>1, EditorsAreOfParts, IxTypeCorrect, DocTypeCorrect, EdTypeCorrect,
           FormTypeCorrect, PTL

=============================================================================
