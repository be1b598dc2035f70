--------------------------- MODULE WebPagesProofs ---------------------------
(***************************************************************************)
(* Proofs about where the browser is and what it runs: the Redis console   *)
(* and the navigation with the sidebar's dialogs, for any collections,     *)
(* databases and scripts and any number of requests under way; and about   *)
(* these with the list and the session gate.                               *)
(***************************************************************************)
EXTENDS MCPages, WebListProofs, FiniteSetTheorems, TLAPS

(***************************************************************************)
(* The Redis console                                                       *)
(***************************************************************************)

\* At most one script waits to be confirmed, under the screen that ran it.
ConsoleRanges ==
    /\ spot \in ConsoleColls /\ onScreen \in BOOLEAN
    /\ scripts \in [ConsoleColls -> AnyScript] /\ script \in AnyScript
    /\ pendingWipe = {} \/ (onScreen /\ \E text \in Scripts : text # <<>> /\ pendingWipe = {text})
    /\ typedName \in BOOLEAN /\ (typedName => pendingWipe # {})
    /\ running \subseteq RunRecords
    /\ results \subseteq Scripts /\ runFailed \in BOOLEAN /\ latest \in AnyScript

\* A run that will be heard is of the screen that is shown, and the last one.
HeardIsLatest == \A r \in running : r.heard => onScreen /\ r.text = latest

\* The inductive invariant.
ConsoleInv ==
    /\ ConsoleRanges
    /\ ScriptIsOwn
    /\ WipesAreConfirmed
    /\ HeardIsLatest
    /\ ResultsAreOfLatestRun
    /\ NoResultsUnderError

LEMMA ConsoleInitially == RcInit => ConsoleInv
BY DEF RcInit, ConsoleInv, ConsoleRanges, ScriptIsOwn, WipesAreConfirmed, HeardIsLatest,
       ResultsAreOfLatestRun, NoResultsUnderError, AnyScript

\* What a text is asked for, if anything, is a name it has.
LEMMA AskedForSeen ==
    ASSUME NEW text \in Scripts
    PROVE  /\ WipesEverything(text) \in WipeNames \cup {NoWipe}
           /\ WipesEverything(text) = NoWipe <=> text = <<>>
           /\ text # <<>> => \E n \in DOMAIN text : WipesEverything(text) = text[n]
<1>1. text \in Seq(WipeNames) /\ NoWipe \notin WipeNames
  BY RedisConsoleAssumption
<1>2. CASE text = <<>>
  BY <1>2 DEF WipesEverything
<1>3. CASE text # <<>>
  <2>1. /\ WipesEverything(text) = text[1]
        /\ 1 \in DOMAIN text /\ text[1] \in WipeNames
    BY <1>1, <1>3 DEF WipesEverything
  <2> QED BY <1>1, <1>3, <2>1
<1> QED BY <1>2, <1>3

\* The run r was confirmed as its text asks for.
AskedFor(r) == r.text # <<>> => \E n \in DOMAIN r.text : r.confirmed = r.text[n]

\* Muting every run keeps what was run and whether it was confirmed.
LEMMA BlankKeeps ==
    ASSUME running \subseteq RunRecords, WipesAreConfirmed, BlankConsole
    PROVE  /\ pendingWipe' = {} /\ running' \subseteq RunRecords
           /\ WipesAreConfirmed' /\ HeardIsLatest'
           /\ ResultsAreOfLatestRun' /\ NoResultsUnderError'
<1>1. ASSUME NEW s \in running'
      PROVE  s \in RunRecords /\ ~s.heard /\ AskedFor(s)
  <2>1. PICK r \in running : s = [r EXCEPT !.heard = FALSE]
    BY DEF BlankConsole
  <2>2. r \in RunRecords /\ AskedFor(r)
    BY DEF WipesAreConfirmed, AskedFor
  <2>3. s.text = r.text /\ s.confirmed = r.confirmed /\ s.heard = FALSE /\ s \in RunRecords
    BY <2>1, <2>2 DEF RunRecords
  <2> QED BY <2>2, <2>3 DEF AskedFor
<1> QED BY <1>1 DEF BlankConsole, WipesAreConfirmed, AskedFor, HeardIsLatest, ResultsAreOfLatestRun,
                    NoResultsUnderError

\* A new run, of a screen that hears no other.
LEMMA RunsKeeps ==
    ASSUME running \subseteq RunRecords, WipesAreConfirmed, ~RunPending, onScreen,
           NEW text \in Scripts, NEW agreedTo, agreedTo = WipesEverything(text),
           Runs(text, agreedTo), UNCHANGED onScreen
    PROVE  /\ running' \subseteq RunRecords /\ WipesAreConfirmed' /\ HeardIsLatest'
           /\ ResultsAreOfLatestRun'
<1> DEFINE new == [text |-> text, confirmed |-> agreedTo, heard |-> TRUE]
<1>1. new \in RunRecords /\ new.heard /\ new.text = text /\ new.confirmed = agreedTo /\ AskedFor(new)
  BY AskedForSeen DEF RunRecords, AskedFor
<1>2. running' = running \cup {new} /\ latest' = text
  BY DEF Runs
<1>3. RunPending'
  BY <1>1, <1>2 DEF RunPending
<1>4. running' \subseteq RunRecords /\ WipesAreConfirmed'
  <2> HIDE DEF new
  <2> QED BY <1>1, <1>2 DEF WipesAreConfirmed, AskedFor
<1> QED BY <1>1, <1>2, <1>3, <1>4 DEF RunPending, HeardIsLatest, ResultsAreOfLatestRun

\* A run that is answered, with what is shown then.
LEMMA AnswerKeeps ==
    ASSUME ConsoleInv, NEW r \in running, running' = running \ {r},
           UNCHANGED <<onScreen, latest>>,
           \/ onScreen /\ r.heard /\ results' \in {{r.text}, {}}
           \/ ~(onScreen /\ r.heard) /\ UNCHANGED results
    PROVE  /\ running' \subseteq RunRecords /\ WipesAreConfirmed' /\ HeardIsLatest'
           /\ ResultsAreOfLatestRun'
<1>1. running' \subseteq running
  OBVIOUS
<1>2. running' \subseteq RunRecords /\ WipesAreConfirmed' /\ HeardIsLatest'
  BY <1>1 DEF ConsoleInv, ConsoleRanges, WipesAreConfirmed, HeardIsLatest
<1>3. CASE onScreen /\ r.heard
  BY <1>2, <1>3 DEF ConsoleInv, HeardIsLatest, ResultsAreOfLatestRun
<1>4. CASE ~(onScreen /\ r.heard)
  <2>1. ~r.heard
    BY <1>4 DEF ConsoleInv, HeardIsLatest
  <2>2. RunPending' <=> RunPending
    BY <2>1 DEF RunPending
  <2> QED BY <1>2, <1>4, <2>2 DEF ConsoleInv, ResultsAreOfLatestRun
<1> QED BY <1>2, <1>3, <1>4

LEMMA ConsoleStep == ConsoleInv /\ [RcNext]_consoleVars => ConsoleInv'
<1> SUFFICES ASSUME ConsoleInv, [RcNext]_consoleVars PROVE ConsoleInv'
  OBVIOUS
<1> USE DEF ConsoleInv
<1>1. ASSUME NEW p \in ConsoleColls, SelectPrefix(p) PROVE ConsoleInv'
  <2>1. CASE onScreen /\ p # spot
    BY <1>1, <2>1 DEF SelectPrefix, ConsoleRanges, ScriptIsOwn, WipesAreConfirmed, HeardIsLatest,
       ResultsAreOfLatestRun, NoResultsUnderError
  <2>2. CASE ~onScreen \/ p = spot
    BY <1>1, <2>2 DEF SelectPrefix, shownVars, ConsoleRanges, ScriptIsOwn, WipesAreConfirmed,
       HeardIsLatest, ResultsAreOfLatestRun, NoResultsUnderError, RunPending
  <2> QED BY <2>1, <2>2
<1>2. CASE LeaveConsole
  BY <1>2, BlankKeeps DEF LeaveConsole, BlankConsole, ConsoleRanges, ScriptIsOwn, AnyScript
<1>3. CASE ReloadConsole
  BY <1>3, BlankKeeps DEF ReloadConsole, BlankConsole, ConsoleRanges, ScriptIsOwn, AnyScript
<1>4. CASE ReturnToConsole
  BY <1>4 DEF ReturnToConsole, shownVars, ConsoleRanges, ScriptIsOwn, WipesAreConfirmed,
     HeardIsLatest, ResultsAreOfLatestRun, NoResultsUnderError, RunPending
<1>5. ASSUME NEW text \in AnyScript, SetScript(text) PROVE ConsoleInv'
  BY <1>5 DEF SetScript, shownVars, ConsoleRanges, ScriptIsOwn, WipesAreConfirmed,
     HeardIsLatest, ResultsAreOfLatestRun, NoResultsUnderError, RunPending
<1>6. ASSUME NEW text \in Scripts, RunNow(text) PROVE ConsoleInv'
  <2>1. /\ UNCHANGED <<spot, onScreen, scripts, script, typedName, results, runFailed>>
        /\ onScreen /\ pendingWipe = {} /\ ~RunPending
    BY <1>6 DEF RunNow, CanRun, shownVars
  <2>2. CASE WipesEverything(text) # NoWipe /\ pendingWipe' = {text} /\ UNCHANGED <<running, latest>>
    BY <2>1, <2>2, AskedForSeen DEF ConsoleRanges, ScriptIsOwn, WipesAreConfirmed,
       HeardIsLatest, ResultsAreOfLatestRun, NoResultsUnderError, RunPending
  <2>3. CASE WipesEverything(text) = NoWipe /\ Runs(text, NoWipe) /\ UNCHANGED pendingWipe
    <3>1. /\ running' \subseteq RunRecords /\ WipesAreConfirmed' /\ HeardIsLatest'
          /\ ResultsAreOfLatestRun'
      BY <2>1, <2>3, RunsKeeps DEF ConsoleRanges
    <3> QED BY <2>1, <2>3, <3>1 DEF Runs, AnyScript, ConsoleRanges, ScriptIsOwn, NoResultsUnderError
  <2> QED BY <1>6, <2>2, <2>3 DEF RunNow
<1>7. CASE TypeName
  BY <1>7 DEF TypeName, shownVars, ConsoleRanges, ScriptIsOwn, WipesAreConfirmed,
     HeardIsLatest, ResultsAreOfLatestRun, NoResultsUnderError, RunPending
<1>8. CASE ConfirmWipe
  <2>1. PICK text \in pendingWipe : Runs(text, WipesEverything(text))
    BY <1>8 DEF ConfirmWipe
  <2>2. text \in Scripts /\ onScreen
    BY <2>1 DEF ConsoleRanges
  <2>3. /\ UNCHANGED <<spot, onScreen, scripts, script, results, runFailed>>
        /\ ~RunPending /\ pendingWipe' = {} /\ typedName' = FALSE
    BY <1>8 DEF ConfirmWipe, shownVars
  <2>4. /\ running' \subseteq RunRecords /\ WipesAreConfirmed' /\ HeardIsLatest'
        /\ ResultsAreOfLatestRun'
    BY <1>8, <2>1, <2>2, <2>3, RunsKeeps DEF ConsoleRanges
  <2> QED BY <2>1, <2>2, <2>3, <2>4 DEF Runs, AnyScript, ConsoleRanges, ScriptIsOwn, NoResultsUnderError
<1>9. CASE CancelWipe
  BY <1>9 DEF CancelWipe, shownVars, ConsoleRanges, ScriptIsOwn, WipesAreConfirmed,
     HeardIsLatest, ResultsAreOfLatestRun, NoResultsUnderError, RunPending
<1>10. ASSUME NEW r \in running, RunSucceeds(r) PROVE ConsoleInv'
  <2>1. /\ running' \subseteq RunRecords /\ WipesAreConfirmed' /\ HeardIsLatest'
        /\ ResultsAreOfLatestRun'
    BY <1>10, AnswerKeeps DEF RunSucceeds, shownVars
  <2>2. UNCHANGED <<spot, onScreen, scripts, script, pendingWipe, typedName, latest>>
    BY <1>10 DEF RunSucceeds
  <2>3. /\ results' \subseteq Scripts /\ runFailed' \in BOOLEAN
        /\ NoResultsUnderError'
    <3>1. r.text \in Scripts
      BY DEF ConsoleRanges, RunRecords
    <3>2. CASE onScreen /\ r.heard
      BY <1>10, <3>1, <3>2 DEF RunSucceeds, NoResultsUnderError
    <3>3. CASE UNCHANGED <<results, runFailed>>
      BY <3>3 DEF ConsoleRanges, NoResultsUnderError
    <3> QED BY <1>10, <3>2, <3>3 DEF RunSucceeds, shownVars
  <2> QED BY <2>1, <2>2, <2>3 DEF ConsoleRanges, ScriptIsOwn
<1>11. ASSUME NEW r \in running, RunFails(r) PROVE ConsoleInv'
  <2>1. /\ running' \subseteq RunRecords /\ WipesAreConfirmed' /\ HeardIsLatest'
        /\ ResultsAreOfLatestRun'
    BY <1>11, AnswerKeeps DEF RunFails, shownVars
  <2>2. UNCHANGED <<spot, onScreen, scripts, script, pendingWipe, typedName, latest>>
    BY <1>11 DEF RunFails
  <2>3. /\ results' \subseteq Scripts /\ runFailed' \in BOOLEAN
        /\ NoResultsUnderError'
    <3>1. r.text \in Scripts
      BY DEF ConsoleRanges, RunRecords
    <3>2. CASE onScreen /\ r.heard
      BY <1>11, <3>1, <3>2 DEF RunFails, NoResultsUnderError
    <3>3. CASE UNCHANGED <<results, runFailed>>
      BY <3>3 DEF ConsoleRanges, NoResultsUnderError
    <3> QED BY <1>11, <3>2, <3>3 DEF RunFails, shownVars
  <2> QED BY <2>1, <2>2, <2>3 DEF ConsoleRanges, ScriptIsOwn
<1>12. CASE UNCHANGED consoleVars
  BY <1>12 DEF consoleVars, shownVars, ConsoleRanges, ScriptIsOwn, WipesAreConfirmed,
     HeardIsLatest, ResultsAreOfLatestRun, NoResultsUnderError, RunPending
<1> QED BY <1>1, <1>2, <1>3, <1>4, <1>5, <1>6, <1>7, <1>8, <1>9, <1>10, <1>11, <1>12 DEF RcNext

\* Every variable of the console keeps its type, and one script at most waits
\* to be confirmed (RedisCommandRunner.tsx:84-108).
THEOREM ConsoleTypeCorrect == RcSpec => []ConsoleTypeOK
<1>1. ConsoleInv => ConsoleTypeOK
  <2> SUFFICES ASSUME ConsoleInv PROVE ConsoleTypeOK
    OBVIOUS
  <2>1. Cardinality(pendingWipe) < 2 /\ pendingWipe \subseteq {text \in Scripts : text # <<>>}
    <3>1. CASE pendingWipe = {}
      BY <3>1, FS_EmptySet
    <3>2. ASSUME NEW text \in Scripts, pendingWipe = {text} PROVE Cardinality(pendingWipe) < 2
      BY <3>2, FS_Singleton
    <3> QED BY <3>1, <3>2 DEF ConsoleInv, ConsoleRanges
  <2> QED BY <2>1 DEF ConsoleInv, ConsoleRanges, ConsoleTypeOK, RunRecords
<1> QED BY ConsoleInitially, ConsoleStep, <1>1, PTL DEF RcSpec

\* The editor shows the script of the collection it is on, whichever way the
\* user got there (RedisCommandRunner.tsx:22-28, 100-108).
THEOREM ConsoleShowsOwnScript == RcSpec => []ScriptIsOwn
<1>1. ConsoleInv => ScriptIsOwn
  BY DEF ConsoleInv
<1> QED BY ConsoleInitially, ConsoleStep, <1>1, PTL DEF RcSpec

\* A text with FLUSHALL or FLUSHDB at the start of a line runs only after one of
\* the names it has was typed; a name in quotes is not seen, and of two names one is asked for
\* (RedisCommandRunner.tsx:153-166).
THEOREM ConsoleConfirmsWipes == RcSpec => []WipesAreConfirmed
<1>1. ConsoleInv => WipesAreConfirmed
  BY DEF ConsoleInv
<1> QED BY ConsoleInitially, ConsoleStep, <1>1, PTL DEF RcSpec

\* What is shown as returned was returned by the script run last, and never
\* stands under an error (RedisCommandRunner.tsx:112-140).
THEOREM ConsoleShowsLatestRun == RcSpec => [](ResultsAreOfLatestRun /\ NoResultsUnderError)
<1>1. ConsoleInv => ResultsAreOfLatestRun /\ NoResultsUnderError
  BY DEF ConsoleInv
<1> QED BY ConsoleInitially, ConsoleStep, <1>1, PTL DEF RcSpec

(***************************************************************************)
(* Navigation and the sidebar's dialogs                                    *)
(***************************************************************************)

\* A collection is only selected in a database.
SoundPages == {p \in Pages : p.coll # NoName => p.db # NoName}

Names == Dbs \cup Colls \cup {NoName}
Mutations == [kind : Kinds, db : Dbs \cup {NoName}, name : Colls \cup {NoName},
              typed : Names, heard : BOOLEAN]

\* What a mutation renames, or creates, was named.
SoundMutation(m) ==
    /\ m \in Mutations
    /\ m.kind = "renameCollection" => m.name \in Colls /\ m.typed \in Colls
    /\ m.kind = "newDatabase" => m.typed \in Dbs

HistoryRanges ==
    /\ page \in SoundPages
    /\ entries \in Seq(SoundPages)
    /\ pos \in 1 .. Len(entries)
    /\ schemaTab \in BOOLEAN
    /\ query \in {"default", "run"}

SidebarRanges ==
    /\ submitted \in BOOLEAN
    /\ dialog \in Dialogs \cup {NoDialog}
    /\ typed \in Names
    /\ failed \subseteq Kinds
    /\ \A m \in pending : SoundMutation(m)

\* A mutation that the open dialog listens to was sent by it.
HeardIsSubmitted == \A m \in pending : m.heard /\ m.kind = dialog.kind => submitted

\* The inductive invariant, in the two parts that different actions disturb.
PageInv == HistoryRanges /\ PageIsHistoryEntry /\ QueryRanHere
SidebarInv == SidebarRanges /\ HeardIsSubmitted /\ ErrorsAreOfThisOpening /\ TypedNameConfirms
NavInv == PageInv /\ SidebarInv

\* The record operators, as the prover needs them.
LEMMA PageFields ==
    ASSUME NEW p \in SoundPages
    PROVE  /\ p.db \in Dbs \cup {NoName} /\ p.coll \in Colls \cup {NoName} /\ p.tab \in NavTabs
           /\ p.coll # NoName => p.db # NoName
           /\ \A tab \in NavTabs : [p EXCEPT !.tab = tab] \in SoundPages
           /\ \A db \in Dbs \cup {NoName} : [p EXCEPT !.db = db, !.coll = NoName] \in SoundPages
           /\ \A coll \in Colls : p.db # NoName => [p EXCEPT !.coll = coll] \in SoundPages
BY DEF SoundPages, Pages

\* A page that is told from another by its tab, or by its collection.
Retabbed(q, p, tab) == q \in SoundPages /\ q.db = p.db /\ q.coll = p.coll /\ q.tab = tab
Recollected(q, p, coll) == q \in SoundPages /\ q.db = p.db /\ q.tab = p.tab /\ q.coll = coll

LEMMA PageEdits ==
    ASSUME NEW p \in SoundPages
    PROVE  /\ \A tab \in NavTabs : \A q : q = [p EXCEPT !.tab = tab] => Retabbed(q, p, tab)
           /\ p.db # NoName => \A coll \in Colls : \A q :
                 q = [p EXCEPT !.coll = coll] => Recollected(q, p, coll)
<1>1. ASSUME NEW tab \in NavTabs, NEW q, q = [p EXCEPT !.tab = tab] PROVE Retabbed(q, p, tab)
  BY <1>1 DEF Retabbed, SoundPages, Pages
<1>2. ASSUME p.db # NoName, NEW coll \in Colls, NEW q, q = [p EXCEPT !.coll = coll]
      PROVE  Recollected(q, p, coll)
  BY <1>2 DEF Recollected, SoundPages, Pages
<1> QED BY <1>1, <1>2

\* A page is pushed over the entry the browser is at.
LEMMA PushedEntry ==
    ASSUME HistoryRanges, NEW p \in SoundPages, Pushed(p)
    PROVE  /\ entries' \in Seq(SoundPages) /\ pos' \in 1 .. Len(entries') /\ entries'[pos'] = p
<1> DEFINE kept == SubSeq(entries, 1, pos)
<1>1. kept \in Seq(SoundPages) /\ Len(kept) = pos /\ pos \in Nat
  BY DEF HistoryRanges
<1>2. entries' = Append(kept, p) /\ pos' = pos + 1
  BY DEF Pushed
<1> HIDE DEF kept
<1>3. Append(kept, p) \in Seq(SoundPages) /\ Len(Append(kept, p)) = pos + 1
      /\ Append(kept, p)[pos + 1] = p
  BY <1>1
<1> QED BY <1>1, <1>2, <1>3

\* A step that pushes where it goes keeps the page's part.
LEMMA PushKeeps ==
    ASSUME HistoryRanges, page' \in SoundPages, Pushed(page'), UNCHANGED schemaTab,
           \/ query' = "default"
           \/ query' = "run" /\ ranAt' = Spot(page')
    PROVE  PageInv'
<1>1. PICK p \in SoundPages : p = page'
  OBVIOUS
<1>2. /\ entries' \in Seq(SoundPages) /\ pos' \in 1 .. Len(entries') /\ entries'[pos'] = p
  BY <1>1, PushedEntry
<1>3. HistoryRanges'
  BY <1>2 DEF HistoryRanges
<1> QED BY <1>1, <1>2, <1>3 DEF PageInv, PageIsHistoryEntry, QueryRanHere, Spot

LEMMA NavInitially == NavInit => NavInv
<1> SUFFICES ASSUME NavInit PROVE NavInv
  OBVIOUS
<1>1. page \in SoundPages
  BY DEF NavInit, SoundPages
<1>2. entries = <<page>> /\ pos = 1 /\ entries \in Seq(SoundPages) /\ Len(entries) = 1 /\ entries[1] = page
  BY <1>1 DEF NavInit
<1>3. PageInv
  BY <1>1, <1>2 DEF NavInit, PageInv, HistoryRanges, PageIsHistoryEntry, QueryRanHere
<1>4. SidebarInv
  BY DEF NavInit, SidebarInv, SidebarRanges, HeardIsSubmitted, ErrorsAreOfThisOpening,
     TypedNameConfirms, NoDialog, Names
<1> QED BY <1>3, <1>4 DEF NavInv

-----------------------------------------------------------------------------
(* What moves the page *)

LEMMA PageMoves ==
    ASSUME NavInv, NavNext
    PROVE  PageInv'
<1> USE DEF NavInv, PageInv
<1>0. page \in SoundPages /\ HistoryRanges /\ {"documents", "schema"} = NavTabs
  BY DEF HistoryRanges, NavTabs
<1>00. /\ \A tab \in NavTabs : page' = [page EXCEPT !.tab = tab] => Retabbed(page', page, tab)
       /\ page.db # NoName => \A coll \in Colls :
             page' = [page EXCEPT !.coll = coll] => Recollected(page', page, coll)
  <2> HIDE DEF NavInv, PageInv
  <2> QED BY <1>0, PageEdits
<1>1. ASSUME NEW tab \in NavTabs, SelectTab(tab) PROVE PageInv'
  <2>1. page' \in SoundPages /\ page'.db = page.db /\ page'.coll = page.coll
    <3>1. page' = [page EXCEPT !.tab = tab]
      BY <1>1 DEF SelectTab
    <3> QED BY <1>00, <3>1 DEF Retabbed
  <2>2. Pushed(page') /\ UNCHANGED <<schemaTab, query, ranAt, renamedTo>>
    BY <1>1 DEF SelectTab, queryVars
  <2>3. HistoryRanges' /\ PageIsHistoryEntry'
    <3>1. PICK p \in SoundPages : p = page'
      BY <2>1
    <3>2. entries' \in Seq(SoundPages) /\ pos' \in 1 .. Len(entries') /\ entries'[pos'] = p
      BY <2>2, <3>1, PushedEntry
    <3> QED BY <2>2, <3>1, <3>2 DEF HistoryRanges, PageIsHistoryEntry
  <2> QED BY <2>1, <2>2, <2>3 DEF QueryRanHere, Spot
<1>2. ASSUME NEW db \in Dbs \cup {NoName}, GoToDatabase(db), UNCHANGED schemaTab PROVE PageInv'
  BY <1>0, <1>2, PageFields, PushKeeps DEF GoToDatabase, ResetQuery
<1>3. ASSUME NEW coll \in Colls, SelectCollection(coll) PROVE PageInv'
  BY <1>0, <1>3, PageFields, PushKeeps DEF SelectCollection, ResetQuery
<1>4. ASSUME NEW i \in 1 .. MaxEntries, Pop(i) PROVE PageInv'
  <2>1. i \in 1 .. Len(entries) /\ entries[i] \in SoundPages
    BY <1>0, <1>4 DEF Pop, HistoryRanges
  <2> QED BY <1>4, <2>1 DEF Pop, ResetQuery, HistoryRanges, PageIsHistoryEntry, QueryRanHere
<1>5. ASSUME NEW db \in Dbs, NEW coll \in Colls, ReplayHistory(db, coll) PROVE PageInv'
  <2>1. page' \in SoundPages /\ Spot(page') = <<db, coll>>
    BY <1>5, NavigationAssumption DEF ReplayHistory, SoundPages, Pages, NavTabs, Spot
  <2> QED BY <1>0, <1>5, <2>1, PushKeeps DEF ReplayHistory
<1>6. CASE CapabilitiesChange
  <2>1. /\ page' \in SoundPages /\ page'.db = page.db /\ page'.coll = page.coll
        /\ page'.tab # page.tab => page'.tab = "documents"
    <3>1. page.tab \in NavTabs /\ "documents" \in NavTabs
      BY <1>0, PageFields
    <3>2. PICK tab \in {page.tab, "documents"} : page' = [page EXCEPT !.tab = tab]
      BY <1>6 DEF CapabilitiesChange
    <3>3. tab \in NavTabs
      BY <3>1, <3>2
    <3>4. /\ page' \in SoundPages /\ page'.db = page.db /\ page'.coll = page.coll
          /\ page'.tab = tab
      BY <1>00, <3>2, <3>3 DEF Retabbed
    <3> QED BY <3>2, <3>4
  <2>2. UNCHANGED <<entries, pos, query, ranAt, renamedTo>> /\ schemaTab' \in BOOLEAN
    BY <1>6 DEF CapabilitiesChange, queryVars
  <2> QED BY <2>1, <2>2 DEF HistoryRanges, PageIsHistoryEntry, QueryRanHere, Spot
<1>7. CASE RunQueryHere
  BY <1>7 DEF RunQueryHere, pageVars, HistoryRanges, PageIsHistoryEntry, QueryRanHere
<1>8. ASSUME NEW old \in Colls, NEW new \in Colls, FollowRename(old, new), UNCHANGED schemaTab
      PROVE PageInv'
  <2>1. /\ page'.db = page.db /\ page'.tab = page.tab
        /\ page'.coll = page.coll \/ page'.coll = new
        /\ page' \in SoundPages
    <3>1. CASE page.coll = old
      <4>1. page' = [page EXCEPT !.coll = new] /\ page.db # NoName
        BY <1>0, <1>8, <3>1, PageFields, NavigationAssumption DEF FollowRename
      <4>2. /\ page' \in SoundPages
            /\ page'.db = page.db /\ page'.tab = page.tab /\ page'.coll = new
        BY <1>00, <4>1 DEF Recollected
      <4> QED BY <4>2
    <3>2. CASE page.coll # old
      <4>1. page' = page
        BY <1>0, <1>8, <3>2 DEF FollowRename, SoundPages, Pages
      <4> QED BY <1>0, <4>1
    <3> QED BY <3>1, <3>2
  <2>2. UNCHANGED <<entries, pos, query, ranAt>> /\ renamedTo' = renamedTo \cup {new}
    BY <1>8 DEF FollowRename, queryVars
  <2> QED BY <1>8, <2>1, <2>2 DEF HistoryRanges, PageIsHistoryEntry, QueryRanHere, Spot
<1>9. ASSUME UNCHANGED <<page, entries, pos, query, ranAt, schemaTab, renamedTo>> PROVE PageInv'
  BY <1>9 DEF HistoryRanges, PageIsHistoryEntry, QueryRanHere
<1>10. ASSUME NEW m \in pending, SidebarSucceeds(m) PROVE PageInv'
  <2>1. SoundMutation(m) /\ UNCHANGED schemaTab
    BY <1>10 DEF SidebarSucceeds, SidebarInv, SidebarRanges
  <2>2. CASE m.kind = "newDatabase" /\ GoToDatabase(m.typed)
    BY <1>2, <2>1, <2>2 DEF SoundMutation
  <2>3. CASE m.kind = "dropDatabase" /\ GoToDatabase(NoName)
    BY <1>2, <2>1, <2>3
  <2>4. CASE m.kind = "renameCollection" /\ FollowRename(m.name, m.typed)
    BY <1>8, <2>1, <2>4 DEF SoundMutation
  <2>5. CASE UNCHANGED <<pageVars, queryVars, renamedTo>>
    BY <1>9, <2>1, <2>5 DEF pageVars, queryVars
  <2> QED BY <1>10, <2>2, <2>3, <2>4, <2>5 DEF SidebarSucceeds
<1>11. ASSUME NEW d \in Dialogs, OpenDialog(d) PROVE PageInv'
  BY <1>9, <1>11 DEF OpenDialog, pageVars, queryVars
<1>12. ASSUME NEW text \in Dbs \cup Colls, TypeText(text) PROVE PageInv'
  BY <1>9, <1>12 DEF TypeText, pageVars, queryVars
<1>13. CASE CancelDialog \/ ConfirmDialog
  BY <1>9, <1>13 DEF CancelDialog, ConfirmDialog, pageVars, queryVars
<1>14. ASSUME NEW m \in pending, SidebarFails(m) PROVE PageInv'
  BY <1>9, <1>14 DEF SidebarFails, pageVars, queryVars
<1>15. ASSUME NEW db \in Dbs, SelectDatabase(db) PROVE PageInv'
  BY <1>2, <1>15 DEF SelectDatabase
<1> QED BY <1>1, <1>3, <1>4, <1>5, <1>6, <1>7, <1>10, <1>11, <1>12, <1>13, <1>14, <1>15 DEF NavNext

-----------------------------------------------------------------------------
(* What the sidebar does *)

\* A step that leaves the sidebar's state alone, but for text it may forget.
LEMMA SidebarStands ==
    ASSUME SidebarInv, UNCHANGED <<dialog, pending, failed, submitted>>, typed' \in Names
    PROVE  SidebarInv'
BY DEF SidebarInv, SidebarRanges, HeardIsSubmitted, ErrorsAreOfThisOpening, TypedNameConfirms

\* Muted, a mutation is still the one that was sent.
LEMMA MutedMutation ==
    ASSUME NEW m, SoundMutation(m)
    PROVE  LET n == [m EXCEPT !.heard = FALSE]
           IN  /\ SoundMutation(n) /\ ~n.heard
               /\ n.kind = m.kind /\ n.db = m.db /\ n.name = m.name /\ n.typed = m.typed
BY DEF SoundMutation, Mutations

LEMMA SidebarMoves ==
    ASSUME NavInv, NavNext
    PROVE  SidebarInv'
<1> USE DEF NavInv
<1>0. typed \in Names /\ NoName \in Names
  BY DEF SidebarInv, SidebarRanges, Names
<1>1. ASSUME UNCHANGED sidebarVars PROVE SidebarInv'
  BY <1>0, <1>1, SidebarStands DEF sidebarVars
<1>2. ASSUME NEW i \in 1 .. MaxEntries, Pop(i) PROVE SidebarInv'
  BY <1>0, <1>2, SidebarStands DEF Pop, Retyped
<1>3. ASSUME NEW text \in Dbs \cup Colls, TypeText(text) PROVE SidebarInv'
  BY <1>3, SidebarStands DEF TypeText, Names
<1>4. ASSUME NEW d \in Dialogs, OpenDialog(d) PROVE SidebarInv'
  <2>1. dialog' = d /\ failed' = {} /\ submitted' = FALSE /\ typed' \in Names
    <3>1. d.kind = "renameCollection" => d.name \in Colls
      BY DEF Dialogs
    <3> QED BY <1>0, <1>4, <3>1 DEF OpenDialog, Names
  <2>2. ASSUME NEW n \in pending'
        PROVE  /\ SoundMutation(n) /\ ~n.heard
               /\ n.kind = "dropDatabase" => n.typed = n.db
               /\ n.kind = "dropCollection" => n.typed = n.name
    <3>1. PICK m \in pending : n = [m EXCEPT !.heard = FALSE]
      BY <1>4 DEF OpenDialog
    <3>2. SoundMutation(m)
      BY DEF SidebarInv, SidebarRanges
    <3> QED BY <3>1, <3>2, MutedMutation DEF SidebarInv, TypedNameConfirms
  <2> QED BY <2>1, <2>2 DEF SidebarInv, SidebarRanges, HeardIsSubmitted, ErrorsAreOfThisOpening,
                            TypedNameConfirms
<1>5. ASSUME dialog' = NoDialog, typed' = NoName, submitted' = FALSE,
             pending' \subseteq pending, UNCHANGED failed
      PROVE  SidebarInv'
  <2>1. "none" \notin Kinds /\ NoDialog.kind = "none"
    BY DEF Kinds, NoDialog
  <2>2. \A m \in pending : m.kind \in Kinds
    BY DEF SidebarInv, SidebarRanges, SoundMutation, Mutations
  <2> QED BY <1>0, <1>5, <2>1, <2>2 DEF SidebarInv, SidebarRanges, HeardIsSubmitted,
          ErrorsAreOfThisOpening, TypedNameConfirms
<1>6. CASE CancelDialog
  BY <1>5, <1>6 DEF CancelDialog
<1>7. ASSUME NEW m \in pending, SidebarSucceeds(m) PROVE SidebarInv'
  BY <1>5, <1>7 DEF SidebarSucceeds
<1>8. ASSUME NEW m \in pending, SidebarFails(m) PROVE SidebarInv'
  <2>1. /\ UNCHANGED <<dialog, typed, submitted>> /\ pending' \subseteq pending
        /\ failed' = failed \/ (m.heard /\ failed' = failed \cup {m.kind})
    BY <1>8 DEF SidebarFails
  <2>2. m.kind \in Kinds /\ (m.heard /\ m.kind = dialog.kind => submitted)
    BY DEF SidebarInv, SidebarRanges, SoundMutation, Mutations, HeardIsSubmitted
  <2> QED BY <2>1, <2>2 DEF SidebarInv, SidebarRanges, HeardIsSubmitted,
          ErrorsAreOfThisOpening, TypedNameConfirms
<1>9. CASE ConfirmDialog
  <2>1. CASE dialog' = NoDialog /\ typed' = NoName /\ submitted' = FALSE /\ UNCHANGED <<pending, failed>>
    BY <1>5, <2>1
  <2>2. ASSUME pending' = pending \cup {[kind |-> dialog.kind, db |-> page.db, name |-> dialog.name,
                                        typed |-> typed, heard |-> TRUE]},
               failed' = failed \ {dialog.kind}, submitted' = TRUE, UNCHANGED <<dialog, typed>>
        PROVE  SidebarInv'
    <3> DEFINE new == [kind |-> dialog.kind, db |-> page.db, name |-> dialog.name,
                       typed |-> typed, heard |-> TRUE]
    <3>1. dialog.kind \in Kinds /\ dialog \in Dialogs /\ CanConfirm
      <4>1. dialog \in Dialogs /\ CanConfirm
        BY <1>9, NavigationAssumption DEF ConfirmDialog, DialogOpen, Rendered, SidebarInv, SidebarRanges, NoDialog
      <4> QED BY <4>1 DEF Dialogs, Kinds
    <3>2. page.db \in Dbs \cup {NoName}
      BY PageFields DEF PageInv, HistoryRanges
    <3>3. new \in Mutations
      BY <1>0, <3>1, <3>2 DEF Mutations, Dialogs
    <3>4. /\ new.kind = "dropDatabase" => new.typed = new.db
          /\ new.kind = "dropCollection" => new.typed = new.name
          /\ new.kind = "newDatabase" => new.typed \in Dbs
          /\ new.kind = "renameCollection" => new.name \in Colls /\ new.typed \in Colls
      BY <3>1 DEF CanConfirm, RequiredText, Dialogs
    <3>5. SoundMutation(new)
      BY <3>3, <3>4 DEF SoundMutation
    <3> HIDE DEF new
    <3> QED BY <2>2, <3>4, <3>5 DEF new, SidebarInv, SidebarRanges, HeardIsSubmitted,
            ErrorsAreOfThisOpening, TypedNameConfirms
  <2> QED BY <1>9, <2>1, <2>2 DEF ConfirmDialog
<1>10. CASE UNCHANGED sidebarVars
  BY <1>1, <1>10
<1> QED BY <1>1, <1>2, <1>3, <1>4, <1>6, <1>7, <1>8, <1>9
        DEF NavNext, SelectTab, SelectDatabase, SelectCollection, ReplayHistory, CapabilitiesChange,
            RunQueryHere

LEMMA NavStep == NavInv /\ [NavNext]_navVars => NavInv'
<1> SUFFICES ASSUME NavInv, [NavNext]_navVars PROVE NavInv'
  OBVIOUS
<1>1. CASE NavNext
  BY <1>1, PageMoves, SidebarMoves DEF NavInv
<1>2. CASE UNCHANGED navVars
  BY <1>2 DEF navVars, pageVars, queryVars, sidebarVars, NavInv, PageInv, SidebarInv, HistoryRanges,
     SidebarRanges, PageIsHistoryEntry, QueryRanHere, HeardIsSubmitted, ErrorsAreOfThisOpening,
     TypedNameConfirms
<1> QED BY <1>1, <1>2
-----------------------------------------------------------------------------
\* Every variable of the navigation keeps its type; a collection is only ever
\* selected in a database (App.tsx:106-107).
THEOREM NavTypeCorrect == NavSpec => []NavTypeOK
<1>1. NavInv => NavTypeOK
  <2> SUFFICES ASSUME NavInv PROVE NavTypeOK
    OBVIOUS
  <2>1. /\ page \in Pages /\ (page.coll # NoName => page.db # NoName)
        /\ pos \in 1 .. Len(entries) /\ \A i \in DOMAIN entries : entries[i] \in Pages
        /\ {schemaTab, submitted} \subseteq BOOLEAN /\ query \in {"default", "run"}
    BY DEF NavInv, PageInv, HistoryRanges, SoundPages, SidebarInv, SidebarRanges
  <2>2. dialog.kind \in Kinds \cup {"none"} /\ dialog.name \in Colls \cup {NoName}
    BY DEF NavInv, SidebarInv, SidebarRanges, Dialogs, NoDialog, Kinds
  <2>3. /\ typed \in Dbs \cup Colls \cup {NoName} /\ failed \subseteq Kinds
        /\ \A m \in pending : m.kind \in Kinds /\ m.db \in Dbs \cup {NoName}
    BY DEF NavInv, SidebarInv, SidebarRanges, SoundMutation, Mutations, Names
  <2> QED BY <2>1, <2>2, <2>3 DEF NavTypeOK
<1> QED BY NavInitially, NavStep, <1>1, PTL DEF NavSpec

\* Back and Forward lead where the user was: the page is the one its entry
\* restores, but for a renamed selection and a tab that lost its button
\* (App.tsx:141-229).
THEOREM BackLeadsWhereOneWas == NavSpec => []PageIsHistoryEntry
<1>1. NavInv => PageIsHistoryEntry
  BY DEF NavInv, PageInv
<1> QED BY NavInitially, NavStep, <1>1, PTL DEF NavSpec

\* A query that was run is never applied to a collection it was not run on,
\* but for one that was renamed (App.tsx:173-231).
THEOREM QueriesStayWhereTheyRan == NavSpec => []QueryRanHere
<1>1. NavInv => QueryRanHere
  BY DEF NavInv, PageInv
<1> QED BY NavInitially, NavStep, <1>1, PTL DEF NavSpec

\* Nothing is dropped but under the name that was typed (ConfirmDialog.tsx:46-54).
THEOREM DropsWhatWasTyped == NavSpec => []TypedNameConfirms
<1>1. NavInv => TypedNameConfirms
  BY DEF NavInv, SidebarInv
<1> QED BY NavInitially, NavStep, <1>1, PTL DEF NavSpec

\* A dialog shows no error of an earlier opening (Sidebar.tsx:86-97).
THEOREM DialogsShowOwnErrors == NavSpec => []ErrorsAreOfThisOpening
<1>1. NavInv => ErrorsAreOfThisOpening
  BY DEF NavInv, SidebarInv
<1> QED BY NavInitially, NavStep, <1>1, PTL DEF NavSpec

(***************************************************************************)
(* The pages together                                                      *)
(***************************************************************************)

\* A behaviour of the composed pages is one of each of them: the composition
\* gives none a step its own module does not have.
THEOREM PagesAreOfParts == PagesSpec => SessionSpec /\ NavSpec /\ ListSpec /\ RcSpec
<1>1. PagesInit => SessionInit /\ NavInit /\ ListInit /\ RcInit
  BY DEF PagesInit
<1>2. [PagesNext]_pagesVars =>
        /\ [SessionNext]_sessionVars /\ [NavNext]_navVars
        /\ [ListNext]_listVars /\ [RcNext]_consoleVars
  <2>1. PagesNext =>
          /\ SessionNext \/ UNCHANGED sessionVars
          /\ NavNext \/ UNCHANGED navVars
          /\ ListNext \/ UNCHANGED listVars
          /\ RcNext \/ UNCHANGED consoleVars
    BY DEF PagesNext, Steps
  <2>2. UNCHANGED pagesVars =>
          /\ UNCHANGED sessionVars /\ UNCHANGED navVars
          /\ UNCHANGED listVars /\ UNCHANGED consoleVars
    BY DEF pagesVars
  <2> QED BY <2>1, <2>2
<1> QED BY <1>1, <1>2, PTL DEF PagesSpec, SessionSpec, NavSpec, ListSpec, RcSpec

\* Every part keeps its types, and with them what they say of its screens and
\* of the requests under way.
THEOREM PagesTypeCorrect == PagesSpec => []PagesTypeOK
<1>1. SessionTypeOK /\ NavTypeOK /\ ListTypeOK /\ ConsoleTypeOK => PagesTypeOK
  BY DEF PagesTypeOK
<1> QED BY <1>1, PagesAreOfParts, SessionTypeCorrect, NavTypeCorrect, ListTypeCorrect,
           ConsoleTypeCorrect, PTL

=============================================================================
