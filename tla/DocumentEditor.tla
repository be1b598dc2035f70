--------------------------- MODULE DocumentEditor ---------------------------
(***************************************************************************)
(* The editor of one document (components/DocumentEditor), over the query  *)
(* that loads it, with its two confirmations and the stack of open dialogs *)
(* that decides whom Escape is for (Dialogs/Modal.tsx).  While it is open, *)
(* Back may select another collection under it, other clients change the   *)
(* document, and the answer to a save or a delete may come after the       *)
(* editor was closed and opened again.                                     *)
(*                                                                         *)
(* A document is shown under an ID that other collections have too, so a   *)
(* selected collection stands for the document it has under that ID.       *)
(***************************************************************************)
EXTENDS SequencesExt, FiniteSets, Naturals

CONSTANTS Docs,     \* the documents, one in each collection
          Contents, \* what a document can hold
          Risky,    \* what has a number the text does not carry back exactly
          Gone,     \* null: no such document, no text, nothing selected
          MaxCalls  \* bound: saves and deletes under way

ASSUME DocumentEditorAssumption ==
    /\ Risky \subseteq Contents
    /\ Gone \notin Contents \cup Docs
    /\ MaxCalls \in Nat

VARIABLES contents, \* of the documents, in the database
          at,       \* the document of the selected collection
          mode,     \* App's editorTarget: its mode, if any
          held,     \* the queries ['document', ...]: the answers in the cache
          load,     \* how the query of the open document does
          text,     \* what is in the editor, and the document it is of
          edited,   \* the text has been typed into since it was loaded
          asking,   \* the confirmation that is open
          calls,    \* mutations under way
          stack     \* modalStack of Modal.tsx

editorVars == <<at, mode, load, text, edited, asking, stack>>
docVars == <<contents, held, calls, editorVars>>

Confirmations == {"delete", "risky"}
NoText == [is |-> Gone, of |-> Gone]

\* App renders the editor while a collection is selected.
Mounted == mode # "closed" /\ at # Gone

\* Mutant of CanSave: no error is enough.
CanSaveUnlessFailed == mode = "new" \/ load # "failed"

\* canSave: the document is there.
CanSave == mode = "new" \/ held[at] # Gone

\* Each variable keeps its type; a confirmation is open only over the editor.
DocTypeOK ==
    /\ contents \in [Docs -> Contents \cup {Gone}]
    /\ held \in [Docs -> Contents \cup {Gone}]
    /\ at \in Docs \cup {Gone} /\ mode \in {"closed", "new", "edit"}
    /\ load \in {"idle", "loading", "failed"}
    /\ text.is \in Contents \cup {Gone} /\ text.of \in Docs \cup {Gone}
    /\ edited \in BOOLEAN
    /\ asking \in Confirmations \cup {"nothing"}
    /\ asking # "nothing" => Mounted
    /\ Cardinality(calls) <= MaxCalls
    /\ \A call \in calls : /\ call.kind \in {"insert", "replace", "delete"}
                           /\ call.doc \in Docs /\ call.heard \in BOOLEAN

DocInit ==
    /\ contents \in [Docs -> Contents]
    /\ at \in Docs \cup {Gone}
    /\ mode = "closed" /\ held = [d \in Docs |-> Gone] /\ load = "idle"
    /\ text = NoText /\ edited = FALSE /\ asking = "nothing"
    /\ calls = {} /\ stack = <<>>
-----------------------------------------------------------------------------
(* Mounting and loading *)

EditorDialogs == <<"editor", "delete", "risky">>
OpenDialogs == IF Mounted THEN {"editor", asking} \ {"nothing"} ELSE {}

\* Those of S in the stack s, in its order; there are three dialogs.
Only(s, S) ==
    LET Member(i) == IF i \in DOMAIN s /\ s[i] \in S THEN <<s[i]>> ELSE <<>>
    IN  Member(1) \o Member(2) \o Member(3)

\* Modal's effect: a dialog that opens, or that renders again, enters the stack
\* anew, the outer one of two first; one that closes leaves it.
Restack(rendered) ==
    LET enters == (OpenDialogs' \ Range(stack)) \cup (OpenDialogs' \cap rendered)
    IN  stack' = Only(stack, OpenDialogs' \ enters) \o Only(EditorDialogs, enters)

\* Mutant of AppRenders: the confirmations are passed the same function.
AppRendersEditor == Restack({"editor"})

\* Each dialog is passed a new function by the component it is in: App's render
\* is one of the editor too.
AppRenders == Restack(Range(EditorDialogs))
EditorRenders == Restack(Confirmations)

\* The effect on the document: it replaces the text.
Loads(d, content) ==
    /\ text' = [is |-> content, of |-> d] /\ edited' = FALSE

\* The query of a document that comes to be shown: what the cache has is shown,
\* and asked for again if it is old.
Looks(d) ==
    /\ load' \in IF held[d] = Gone THEN {"loading"} ELSE {"idle", "loading"}
    /\ \/ held[d] # Gone /\ Loads(d, held[d])
       \/ held[d] = Gone /\ UNCHANGED <<text, edited>>

\* Nobody listens to the calls of an editor that is gone.
Unheard == {[call EXCEPT !.heard = FALSE] : call \in calls}

\* openDocument, from a row of the list.
OpenDocument ==
    /\ mode = "closed" /\ at # Gone
    /\ mode' = "edit" /\ asking' = "nothing"
    /\ Looks(at)
    /\ UNCHANGED <<contents, at, held, calls>>
    /\ AppRenders

NewDocument ==
    /\ mode = "closed" /\ at # Gone
    /\ mode' = "new" /\ load' = "idle" /\ asking' = "nothing"
    /\ text' = NoText /\ edited' = FALSE
    /\ UNCHANGED <<contents, at, held, calls>>
    /\ AppRenders

\* What onClose and leaving the collection take down.
Unmounted == /\ load' = "idle" /\ text' = NoText /\ edited' = FALSE
             /\ asking' = "nothing" /\ calls' = Unheard

CloseEditor ==
    /\ mode' = "closed"
    /\ Unmounted
    /\ UNCHANGED <<contents, at, held>>
    /\ AppRenders

\* Cancel, the cross, or Escape in the editor when it is on top.
Cancel == Mounted /\ asking = "nothing" /\ CloseEditor

\* Back or Forward to another collection: the editor stays, with its target, and
\* a confirmation with it.
BackTo(d) ==
    /\ d # at
    /\ at' = d
    /\ \/ /\ Mounted /\ d # Gone
          /\ \/ mode = "edit" /\ Looks(d)
             \/ mode = "new" /\ UNCHANGED <<load, text, edited>>
          /\ UNCHANGED <<mode, asking, calls>>
       \/ /\ Mounted /\ d = Gone
          /\ Unmounted /\ UNCHANGED mode
       \/ /\ ~Mounted /\ mode = "edit"
          /\ Looks(d)
          /\ UNCHANGED <<mode, asking, calls>>
       \/ /\ ~Mounted /\ mode # "edit"
          /\ UNCHANGED <<mode, load, text, edited, asking, calls>>
    /\ UNCHANGED <<contents, held>>
    /\ AppRenders

\* The document arrives.  An equal one is no change, and the effect stays put.
Arrives ==
    /\ Mounted /\ load = "loading"
    /\ contents[at] # Gone
    /\ load' = "idle"
    /\ held' = [held EXCEPT ![at] = contents[at]]
    /\ \/ held[at] = contents[at] /\ UNCHANGED <<text, edited>>
       \/ held[at] # contents[at] /\ Loads(at, contents[at])
    /\ UNCHANGED <<contents, at, mode, asking, calls, stack>>

LoadFails ==
    /\ Mounted /\ load = "loading"
    /\ load' = "failed"
    /\ UNCHANGED <<contents, at, mode, held, text, edited, asking, calls, stack>>

\* The window gets the focus back, the answer being old.
Focus ==
    /\ Mounted /\ mode = "edit" /\ load # "loading"
    /\ load' = "loading"
    /\ UNCHANGED <<contents, at, mode, held, text, edited, asking, calls, stack>>

\* App renders again, and every dialog with it.
Rerenders ==
    /\ Mounted
    /\ UNCHANGED <<contents, at, mode, held, load, text, edited, asking, calls>>
    /\ AppRenders

\* Another client changes, deletes or creates a document.
OtherWrites(d, content) ==
    /\ contents[d] # content
    /\ contents' = [contents EXCEPT ![d] = content]
    /\ UNCHANGED <<at, mode, held, load, text, edited, asking, calls, stack>>
-----------------------------------------------------------------------------
(* The editor *)

\* The text is on screen unless the load is under way for the first time, or
\* failed.
TextShown == \/ mode = "new"
             \/ load = "idle" \/ (load = "loading" /\ held[at] # Gone)

Type(content) ==
    /\ Mounted /\ asking = "nothing" /\ TextShown
    /\ text.is # content
    /\ text' = [text EXCEPT !.is = content] /\ edited' = TRUE
    /\ UNCHANGED <<contents, at, mode, held, load, asking, calls, stack>>

\* The toggle rebuilds the text from what was loaded.
SortFields ==
    /\ Mounted /\ asking = "nothing" /\ CanSave /\ ~edited
    /\ \/ mode = "edit" /\ text' = [is |-> held[at], of |-> at]
       \/ mode = "new" /\ text' = NoText
    /\ UNCHANGED <<contents, at, mode, held, load, edited, asking, calls, stack>>

Pending(kinds) == \E call \in calls : call.heard /\ call.kind \in kinds
Saves == {"insert", "replace"}

Sends(kind) ==
    /\ Cardinality(calls) < MaxCalls
    /\ calls' = calls \cup {[kind |-> kind, doc |-> at, is |-> text.is, of |-> text.of,
                             heard |-> TRUE, asked |-> asking # "nothing"]}

\* handleSave.  A number the user left as it was displayed is asked about.
AsksFirst == mode = "edit" /\ held[at] \in Risky /\ text.is \in Risky

SaveDocument ==
    /\ Mounted /\ asking = "nothing" /\ CanSave /\ ~Pending(Saves)
    /\ text.is # Gone
    /\ \/ AsksFirst /\ asking' = "risky" /\ UNCHANGED calls
       \/ ~AsksFirst /\ Sends(IF mode = "new" THEN "insert" ELSE "replace") /\ UNCHANGED asking
    /\ UNCHANGED <<contents, at, mode, held, load, text, edited>>
    /\ EditorRenders

AskToDelete ==
    /\ Mounted /\ asking = "nothing" /\ mode = "edit" /\ ~Pending({"delete"})
    /\ asking' = "delete"
    /\ UNCHANGED <<contents, at, mode, held, load, text, edited, calls>>
    /\ EditorRenders

\* The mutation sends the text of that moment, to the document of that moment;
\* whether it is loaded is not looked at again.
Confirm ==
    /\ \/ /\ asking = "risky"
          /\ asking' = "nothing"
          /\ Sends(IF mode = "new" THEN "insert" ELSE "replace")
       \/ /\ asking = "delete" /\ ~Pending({"delete"})
          /\ Sends("delete")
          /\ UNCHANGED asking
    /\ UNCHANGED <<contents, at, mode, held, load, text, edited>>
    /\ EditorRenders

CancelConfirmation ==
    /\ asking # "nothing" /\ ~Pending({"delete"})
    /\ asking' = "nothing"
    /\ UNCHANGED <<contents, at, mode, held, load, text, edited, calls>>
    /\ EditorRenders

\* Escape goes to the dialog on top; a delete under way cannot be escaped.
Escape ==
    /\ stack # <<>>
    /\ \/ Last(stack) = "editor" /\ CloseEditor
       \/ Last(stack) # "editor" /\ CancelConfirmation
-----------------------------------------------------------------------------
(* The answers *)

Written(call) ==
    CASE call.kind = "replace" -> [contents EXCEPT ![call.doc] = IF @ = Gone THEN @ ELSE call.is]
      [] call.kind = "delete" -> [contents EXCEPT ![call.doc] = Gone]
      [] OTHER -> contents

\* onSuccess closes the editor, whichever is open by then.  The answer is not
\* taken into the query that the editor is loaded from.
CallSucceeds(call) ==
    /\ call.kind # "insert" => contents[call.doc] # Gone
    /\ contents' = Written(call)
    /\ mode' = "closed"
    /\ load' = "idle" /\ text' = NoText /\ edited' = FALSE
    /\ asking' = "nothing" /\ calls' = {[c EXCEPT !.heard = FALSE] : c \in calls \ {call}}
    /\ UNCHANGED <<at, held>>
    /\ AppRenders

\* An error, whether or not it was carried out; a failed delete keeps its
\* dialog.
CallFails(call) ==
    /\ contents' \in {contents, Written(call)}
    /\ calls' = calls \ {call}
    /\ UNCHANGED <<at, mode, held, load, text, edited, asking>>
    /\ EditorRenders

DocNext ==
    \/ OpenDocument \/ NewDocument \/ Cancel \/ Arrives \/ LoadFails \/ Focus \/ Rerenders
    \/ \E d \in Docs \cup {Gone} : BackTo(d)
    \/ \E d \in Docs, content \in Contents \cup {Gone} : OtherWrites(d, content)
    \/ \E content \in Contents : Type(content)
    \/ SortFields \/ SaveDocument \/ AskToDelete \/ Confirm \/ CancelConfirmation \/ Escape
    \/ \E call \in calls : CallSucceeds(call) \/ CallFails(call)

DocSpec == DocInit /\ [][DocNext]_docVars
-----------------------------------------------------------------------------
(* Properties *)

\* Save replaces a document only by text that began as that document, never by
\* what was in the editor before it was loaded, also when Back changes the
\* document under the editor (DocumentEditor.tsx:62-66).  The confirmation of
\* risky numbers does not look again.
SavesWhatItLoaded ==
    \A call \in calls : call.kind = "replace" /\ ~call.asked => call.of = call.doc

\* Escape acts on the innermost dialog alone, whichever of them rendered last
\* (Modal.tsx:7-17): a confirmation never takes the editor's text with it.
EscapeIsForInnermost ==
    Range(stack) = OpenDialogs /\ (asking # "nothing" => Last(stack) = asking)

=============================================================================
