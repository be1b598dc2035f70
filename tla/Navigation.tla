----------------------------- MODULE Navigation -----------------------------
(***************************************************************************)
(* Where the user is in the application (web/src/App.tsx): the database,   *)
(* collection and tab selected, the browser's own Back and Forward, and    *)
(* the sidebar's dialogs, whose requests are answered after the user may   *)
(* have gone elsewhere.  A dialog covers the page, so that nothing on it   *)
(* can be clicked, but not the browser's buttons.                          *)
(***************************************************************************)
EXTENDS SequencesExt, Naturals, FiniteSets

CONSTANTS Dbs,        \* names of databases
          Colls,      \* names of collections
          NoName,     \* null: nothing selected, nothing typed
          MaxEntries, \* bound: entries of the browser's history
          MaxPending  \* bound: requests of the sidebar under way

ASSUME NavigationAssumption ==
    /\ NoName \notin Dbs \cup Colls
    /\ MaxEntries \in Nat \ {0}
    /\ MaxPending \in Nat

VARIABLES page,      \* selectedDb, selection and tab
          entries,   \* window.history: what each entry restores
          pos,       \* the entry the browser is at
          schemaTab, \* the connection has the capability the tab needs
          query,     \* the query was run, or is the default one
          dialog,    \* the sidebar's DialogState
          typed,     \* what was typed into it
          pending,   \* mutations of the sidebar under way
          failed,    \* the kinds of mutation that hold an error
          submitted, \* the dialog was confirmed since it was opened
          ranAt,     \* the collection the query was run on, for the properties
          renamedTo  \* names that collections were renamed to, likewise

pageVars == <<page, entries, pos>>
queryVars == <<query, ranAt>>
sidebarVars == <<dialog, typed, pending, failed, submitted>>
navVars == <<pageVars, queryVars, sidebarVars, schemaTab, renamedTo>>

\* 'documents' stands for the tabs every connection has, 'schema' for those of
\* TAB_CAPABILITY.
NavTabs == {"documents", "schema"}
Pages == [db : Dbs \cup {NoName}, coll : Colls \cup {NoName}, tab : NavTabs]
Spot(p) == <<p.db, p.coll>>
Nowhere == <<NoName, NoName>>

Kinds == {"newDatabase", "dropDatabase", "newCollection", "dropCollection", "renameCollection"}
NoDialog == [kind |-> "none", name |-> NoName]

\* Two of the dialogs are only rendered while a database is selected
\* (Sidebar.tsx:287, 306).
Rendered(d, db) ==
    /\ d.kind # "none"
    /\ d.kind \in {"dropDatabase", "newCollection"} => db # NoName

DialogOpen == Rendered(dialog, page.db)

\* Every variable keeps its type; a collection is only ever selected in a
\* database (App.tsx:106-107).
NavTypeOK ==
    /\ page \in Pages
    /\ page.coll # NoName => page.db # NoName
    /\ pos \in 1 .. Len(entries) /\ \A i \in DOMAIN entries : entries[i] \in Pages
    /\ {schemaTab, submitted} \subseteq BOOLEAN
    /\ query \in {"default", "run"}
    /\ dialog.kind \in Kinds \cup {"none"} /\ dialog.name \in Colls \cup {NoName}
    /\ typed \in Dbs \cup Colls \cup {NoName}
    /\ failed \subseteq Kinds
    /\ \A m \in pending : m.kind \in Kinds /\ m.db \in Dbs \cup {NoName}

\* A first load, from a plain URL or from a deep link, and a connection that
\* may lack the tab's capability.
NavInit ==
    /\ page \in {p \in Pages : p.coll # NoName => p.db # NoName}
    /\ entries = <<page>> /\ pos = 1
    /\ schemaTab \in BOOLEAN
    /\ query = "default" /\ ranAt = Nowhere
    /\ dialog = NoDialog /\ typed = NoName
    /\ pending = {} /\ failed = {} /\ submitted = FALSE
    /\ renamedTo = {}
-----------------------------------------------------------------------------
(* Moving about *)

\* pushHistory: what lay ahead is gone.
Pushed(p) == /\ pos < MaxEntries
             /\ entries' = Append(SubSeq(entries, 1, pos), p)
             /\ pos' = pos + 1

\* setQuery(DEFAULT_QUERY)
ResetQuery == query' = "default" /\ ranAt' = Nowhere

\* A dialog that is no longer rendered forgets its text.
Retyped == typed' = IF Rendered(dialog', page'.db) THEN typed ELSE NoName

SelectTab(tab) ==
    /\ ~DialogOpen
    /\ tab = "schema" => schemaTab
    /\ page' = [page EXCEPT !.tab = tab]
    /\ Pushed(page')
    /\ UNCHANGED <<queryVars, sidebarVars, schemaTab, renamedTo>>

\* selectDatabase, from the sidebar's list or after one was created or
\* dropped.
GoToDatabase(db) ==
    /\ page' = [page EXCEPT !.db = db, !.coll = NoName]
    /\ Pushed(page')
    /\ ResetQuery

SelectDatabase(db) ==
    /\ ~DialogOpen
    /\ GoToDatabase(db)
    /\ UNCHANGED <<sidebarVars, schemaTab, renamedTo>>

\* A row of the collection list, which may be out of date.
SelectCollection(coll) ==
    /\ ~DialogOpen /\ page.db # NoName
    /\ page' = [page EXCEPT !.coll = coll]
    /\ Pushed(page')
    /\ ResetQuery
    /\ UNCHANGED <<sidebarVars, schemaTab, renamedTo>>

\* Back and Forward: onPopState restores the entry and pushes nothing.
Pop(i) ==
    /\ i \in 1 .. Len(entries) /\ i # pos
    /\ pos' = i
    /\ page' = entries[i]
    /\ ResetQuery
    /\ UNCHANGED <<entries, schemaTab, renamedTo, dialog, pending, failed, submitted>>
    /\ Retyped

\* Mutant of ReplayHistory: the page moves but no entry is pushed.
ReplayHistoryUnpushed(db, coll) ==
    /\ ~DialogOpen
    /\ page' = [db |-> db, coll |-> coll, tab |-> "documents"]
    /\ query' = "run" /\ ranAt' = <<db, coll>>
    /\ UNCHANGED <<entries, pos, sidebarVars, schemaTab, renamedTo>>

\* A row of the History tab: its query, on its collection.
ReplayHistory(db, coll) ==
    /\ ~DialogOpen
    /\ page' = [db |-> db, coll |-> coll, tab |-> "documents"]
    /\ Pushed(page')
    /\ query' = "run" /\ ranAt' = <<db, coll>>
    /\ UNCHANGED <<sidebarVars, schemaTab, renamedTo>>

\* The connection's capabilities arrive or change: a tab that lost its button
\* falls back to Documents, with no entry pushed.
CapabilitiesChange ==
    /\ schemaTab' = ~schemaTab
    /\ page' = [page EXCEPT !.tab = IF schemaTab' THEN @ ELSE "documents"]
    /\ UNCHANGED <<entries, pos, queryVars, sidebarVars, renamedTo>>

RunQueryHere ==
    /\ ~DialogOpen /\ page.coll # NoName /\ page.tab = "documents"
    /\ query' = "run" /\ ranAt' = Spot(page)
    /\ UNCHANGED <<pageVars, sidebarVars, schemaTab, renamedTo>>
-----------------------------------------------------------------------------
(* The sidebar's dialogs *)

\* Mutant of OpenDialog: the mutations are not reset.
OpenDialogUnreset(d) ==
    /\ ~DialogOpen
    /\ Rendered(d, page.db)
    /\ dialog' = d /\ submitted' = FALSE
    /\ typed' = IF d.kind = "renameCollection" THEN d.name ELSE NoName
    /\ UNCHANGED <<pageVars, queryVars, schemaTab, renamedTo, pending, failed>>

\* openDialog resets every mutation: their errors go, and one still under way
\* (of a dialog that Back took away) no longer reports.
OpenDialog(d) ==
    /\ ~DialogOpen
    /\ Rendered(d, page.db)
    /\ dialog' = d /\ submitted' = FALSE
    /\ typed' = IF d.kind = "renameCollection" THEN d.name ELSE NoName
    /\ failed' = {}
    /\ pending' = {[m EXCEPT !.heard = FALSE] : m \in pending}
    /\ UNCHANGED <<pageVars, queryVars, schemaTab, renamedTo>>

\* One of the dialog's own mutations is under way: its fields and buttons are
\* disabled.
Busy == \E m \in pending : m.kind = dialog.kind /\ m.heard

TypeText(text) ==
    /\ DialogOpen /\ ~Busy
    /\ typed' = text
    /\ UNCHANGED <<pageVars, queryVars, schemaTab, renamedTo, dialog, pending, failed, submitted>>

CancelDialog ==
    /\ DialogOpen /\ ~Busy
    /\ dialog' = NoDialog /\ typed' = NoName /\ submitted' = FALSE
    /\ UNCHANGED <<pageVars, queryVars, schemaTab, renamedTo, pending, failed>>

\* What the dialog asks to be typed before it destroys anything.
RequiredText ==
    CASE dialog.kind = "dropDatabase" -> {page.db}
      [] dialog.kind = "dropCollection" -> {dialog.name}
      [] dialog.kind = "newDatabase" -> Dbs
      [] OTHER -> Colls

\* Mutant of CanConfirm: any text will do.
CanConfirmAny == typed # NoName

CanConfirm == typed \in RequiredText

\* The request as the component sees the database at that moment; a rename to
\* the same name only closes the dialog.
ConfirmDialog ==
    /\ DialogOpen /\ ~Busy /\ CanConfirm
    /\ \/ /\ dialog.kind = "renameCollection" /\ typed = dialog.name
          /\ dialog' = NoDialog /\ typed' = NoName /\ submitted' = FALSE
          /\ UNCHANGED <<pending, failed>>
       \/ /\ dialog.kind = "renameCollection" => typed # dialog.name
          /\ Cardinality(pending) < MaxPending
          /\ pending' = pending \cup {[kind |-> dialog.kind, db |-> page.db,
                             name |-> dialog.name, typed |-> typed, heard |-> TRUE]}
          /\ failed' = failed \ {dialog.kind}
          /\ submitted' = TRUE
          /\ UNCHANGED <<dialog, typed>>
    /\ UNCHANGED <<pageVars, queryVars, schemaTab, renamedTo>>

\* collectionRenamed: the selection follows a name, in whatever database.
FollowRename(old, new) ==
    /\ page' = [page EXCEPT !.coll = IF @ = old THEN new ELSE @]
    /\ renamedTo' = renamedTo \cup {new}
    /\ UNCHANGED <<entries, pos, queryVars>>

\* onSuccess, even of a mutation nobody listens to any more: the lists are
\* refetched, the page follows and the dialog, whichever it is, closes.
SidebarSucceeds(m) ==
    /\ m \in pending
    /\ pending' = pending \ {m}
    /\ \/ m.kind = "newDatabase" /\ GoToDatabase(m.typed) /\ UNCHANGED renamedTo
       \/ m.kind = "dropDatabase" /\ GoToDatabase(NoName) /\ UNCHANGED renamedTo
       \/ m.kind = "renameCollection" /\ FollowRename(m.name, m.typed)
       \/ m.kind \in {"newCollection", "dropCollection"} /\ UNCHANGED <<pageVars, queryVars, renamedTo>>
    /\ dialog' = NoDialog /\ typed' = NoName /\ submitted' = FALSE
    /\ UNCHANGED <<schemaTab, failed>>

SidebarFails(m) ==
    /\ m \in pending
    /\ pending' = pending \ {m}
    /\ failed' = IF m.heard THEN failed \cup {m.kind} ELSE failed
    /\ UNCHANGED <<pageVars, queryVars, schemaTab, renamedTo, dialog, typed, submitted>>

Dialogs == [kind : {"newDatabase", "dropDatabase", "newCollection"}, name : {NoName}]
              \cup [kind : {"dropCollection", "renameCollection"}, name : Colls]

NavNext ==
    \/ \E tab \in NavTabs : SelectTab(tab)
    \/ \E db \in Dbs : SelectDatabase(db)
    \/ \E coll \in Colls : SelectCollection(coll)
    \/ \E i \in 1 .. MaxEntries : Pop(i)
    \/ \E db \in Dbs, coll \in Colls : ReplayHistory(db, coll)
    \/ CapabilitiesChange \/ RunQueryHere
    \/ \E d \in Dialogs : OpenDialog(d)
    \/ \E text \in Dbs \cup Colls : TypeText(text)
    \/ CancelDialog \/ ConfirmDialog
    \/ \E m \in pending : SidebarSucceeds(m) \/ SidebarFails(m)

NavSpec == NavInit /\ [][NavNext]_navVars
-----------------------------------------------------------------------------
(* Properties *)

\* The page is the one its history entry would restore, but for what the code
\* does without pushing: a renamed selection and a tab that lost its button
\* (App.tsx:142-231).  Back and Forward then lead where the user was.
PageIsHistoryEntry ==
    LET entry == entries[pos] IN
    /\ page.db = entry.db
    /\ page.coll # entry.coll => page.coll \in renamedTo
    /\ page.tab # entry.tab => page.tab = "documents"

\* A query that was run is only ever applied to the collection it was run on,
\* whichever way the user leaves it and however late the sidebar's answers
\* are (App.tsx:173-231).
QueryRanHere ==
    query = "run" => ranAt = Spot(page) \/ page.coll \in renamedTo

\* What the sidebar asks to be dropped is what the user typed the name of
\* (ConfirmDialog.tsx:46-54, documents.md:105), also when Back changed the
\* database under the dialog, whose text stays.
TypedNameConfirms ==
    \A m \in pending :
        /\ m.kind = "dropDatabase" => m.typed = m.db
        /\ m.kind = "dropCollection" => m.typed = m.name

\* A dialog shows no error of an earlier opening, not even of a request that
\* was still under way when it opened (Sidebar.tsx:86-97).
ErrorsAreOfThisOpening ==
    dialog.kind \in failed => submitted
=============================================================================
