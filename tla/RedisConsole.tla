---------------------------- MODULE RedisConsole ----------------------------
(***************************************************************************)
(* The command runner that Redis connections have in the place of the      *)
(* query editor (components/QueryEditor/RedisCommandRunner.tsx).  Each     *)
(* collection has a script of its own; a script that wipes everything asks *)
(* for the command to be typed first.  The answer to a run may come after  *)
(* another collection, or another tab, was selected.                       *)
(***************************************************************************)
EXTENDS FiniteSets, Naturals, Sequences

CONSTANTS ConsoleColls,   \* the collections, each in a database of its own
          WipeNames,  \* FLUSHALL and FLUSHDB
          NoWipe,     \* none of them
          Scripts,    \* what a script may be, see below
          Empty,      \* the empty script
          MaxRunning  \* bound: runs under way

\* Of a script counts which of the names it has at the starts of its lines, in
\* their order, which is all that this code sees of it.  The server takes quotes
\* off first: a line "FLUSHALL" in quotes wipes, and has no name here.
ASSUME RedisConsoleAssumption ==
    /\ NoWipe \notin WipeNames
    /\ Scripts \subseteq Seq(WipeNames)
    /\ Empty \notin Scripts
    /\ MaxRunning \in Nat

VARIABLES spot,      \* the collection shown
          onScreen,  \* the Documents tab is shown
          scripts,   \* scriptCache and localStorage
          script,    \* the one in the editor
          pendingWipe, \* the script to confirm, if any
          typedName, \* the name the dialog asks for was typed into it
          running,   \* runs under way, each with the name typed for it, if any
          results,   \* what the last run returned: its script, if any
          runFailed, \* the error of a run is shown
          latest     \* the script run last from this screen, for the properties

shownVars == <<results, runFailed>>
consoleVars == <<spot, onScreen, scripts, script, pendingWipe, typedName, running, shownVars, latest>>

AnyScript == Scripts \cup {Empty}
RunRecords == [text : Scripts, confirmed : WipeNames \cup {NoWipe}, heard : BOOLEAN]

\* Each variable keeps its type; what is to be confirmed names a wipe.
ConsoleTypeOK ==
    /\ spot \in ConsoleColls /\ onScreen \in BOOLEAN
    /\ scripts \in [ConsoleColls -> AnyScript] /\ script \in AnyScript
    /\ pendingWipe \subseteq {text \in Scripts : text # <<>>} /\ Cardinality(pendingWipe) < 2
    /\ typedName \in BOOLEAN /\ typedName => pendingWipe # {}
    /\ running \subseteq RunRecords
    /\ results \subseteq Scripts /\ runFailed \in BOOLEAN /\ latest \in AnyScript

\* A runner that has just mounted, or that App no longer renders.
BlankConsole == /\ pendingWipe' = {} /\ typedName' = FALSE
         /\ results' = {} /\ runFailed' = FALSE /\ latest' = Empty
         /\ running' = {[r EXCEPT !.heard = FALSE] : r \in running}

RcInit ==
    /\ spot \in ConsoleColls /\ onScreen = TRUE
    /\ scripts = [p \in ConsoleColls |-> Empty] /\ script = Empty
    /\ pendingWipe = {} /\ typedName = FALSE
    /\ running = {} /\ results = {} /\ runFailed = FALSE /\ latest = Empty
-----------------------------------------------------------------------------
(* Scripts *)

\* Another collection, by Back even under the dialog, which stays; so does a
\* run under way.
SelectPrefix(p) ==
    /\ spot' = p
    /\ \/ onScreen /\ p # spot /\ script' = scripts[p] /\ results' = {} /\ runFailed' = FALSE
       \/ (~onScreen \/ p = spot) /\ UNCHANGED <<script, shownVars>>
    /\ UNCHANGED <<onScreen, scripts, pendingWipe, typedName, running, latest>>

LeaveConsole ==
    /\ onScreen
    /\ onScreen' = FALSE /\ script' = Empty
    /\ BlankConsole
    /\ UNCHANGED <<spot, scripts>>

ReturnToConsole ==
    /\ ~onScreen
    /\ onScreen' = TRUE /\ script' = scripts[spot]
    /\ UNCHANGED <<spot, scripts, pendingWipe, typedName, running, shownVars, latest>>

\* The page is loaded again: the scripts are in localStorage.
ReloadConsole ==
    /\ script' = IF onScreen THEN scripts[spot] ELSE Empty
    /\ BlankConsole
    /\ UNCHANGED <<spot, onScreen, scripts>>

\* setScript, by typing or by a preset.
SetScript(text) ==
    /\ onScreen /\ pendingWipe = {}
    /\ script' = text /\ scripts' = [scripts EXCEPT ![spot] = text]
    /\ UNCHANGED <<spot, onScreen, pendingWipe, typedName, running, shownVars, latest>>
-----------------------------------------------------------------------------
(* Runs *)

\* run.isPending
RunPending == \E r \in running : r.heard

Runs(text, confirmed) ==
    /\ Cardinality(running) < MaxRunning
    /\ running' = running \cup {[text |-> text, confirmed |-> confirmed, heard |-> TRUE]}
    /\ latest' = text

\* pendingRef of runNow, also when it is the shortcut that calls it.
CanRun == ~RunPending

\* Mutant of WipesEverything: the whole script is looked at.
WipesEverythingWhole(text) == IF script = <<>> THEN NoWipe ELSE Head(script)

\* wipesEverything, of the text to run: the name its first such line starts with.
WipesEverything(text) == IF text = <<>> THEN NoWipe ELSE Head(text)

\* The script, or the selected part of it; a wipe asks first.
RunNow(text) ==
    /\ onScreen /\ pendingWipe = {} /\ CanRun
    /\ script # Empty
    /\ \/ WipesEverything(text) # NoWipe /\ pendingWipe' = {text} /\ UNCHANGED <<running, latest>>
       \/ WipesEverything(text) = NoWipe /\ Runs(text, NoWipe) /\ UNCHANGED pendingWipe
    /\ UNCHANGED <<spot, onScreen, scripts, script, typedName, shownVars>>

TypeName ==
    /\ pendingWipe # {} /\ ~typedName
    /\ typedName' = TRUE
    /\ UNCHANGED <<spot, onScreen, scripts, script, pendingWipe, running, shownVars, latest>>

\* The dialog closes before the answer comes.
ConfirmWipe ==
    /\ typedName /\ ~RunPending
    /\ \E text \in pendingWipe : Runs(text, WipesEverything(text))
    /\ pendingWipe' = {} /\ typedName' = FALSE
    /\ UNCHANGED <<spot, onScreen, scripts, script, shownVars>>

CancelWipe ==
    /\ pendingWipe # {} /\ ~RunPending
    /\ pendingWipe' = {} /\ typedName' = FALSE
    /\ UNCHANGED <<spot, onScreen, scripts, script, running, shownVars, latest>>

\* onSuccess shows the results, of whichever collection.
RunSucceeds(r) ==
    /\ running' = running \ {r}
    /\ \/ onScreen /\ r.heard /\ results' = {r.text} /\ runFailed' = FALSE
       \/ ~(onScreen /\ r.heard) /\ UNCHANGED shownVars
    /\ UNCHANGED <<spot, onScreen, scripts, script, pendingWipe, typedName, latest>>

RunFails(r) ==
    /\ running' = running \ {r}
    /\ \/ onScreen /\ r.heard /\ results' = {} /\ runFailed' = TRUE
       \/ ~(onScreen /\ r.heard) /\ UNCHANGED shownVars
    /\ UNCHANGED <<spot, onScreen, scripts, script, pendingWipe, typedName, latest>>

RcNext ==
    \/ \E p \in ConsoleColls : SelectPrefix(p)
    \/ LeaveConsole \/ ReturnToConsole \/ ReloadConsole
    \/ \E text \in AnyScript : SetScript(text)
    \/ \E text \in Scripts : RunNow(text)
    \/ TypeName \/ ConfirmWipe \/ CancelWipe
    \/ \E r \in running : RunSucceeds(r) \/ RunFails(r)

RcSpec == RcInit /\ [][RcNext]_consoleVars
-----------------------------------------------------------------------------
(* Properties *)

\* The editor shows the script of the collection it is on: "leaking the
\* previous collection's content or wiping it back to empty" does not happen
\* (RedisCommandRunner.tsx:22-28).
ScriptIsOwn == script = IF onScreen THEN scripts[spot] ELSE Empty

\* A text that has FLUSHALL or FLUSHDB at the start of a line runs after one of
\* the names it has was typed, be it the whole script or a part of it
\* (RedisCommandRunner.tsx:157-164).  That is less than "type the name to
\* confirm" (docs/features/documents.md:105): a name in quotes is not seen, and
\* of two names one is asked for.
WipesAreConfirmed ==
    \A r \in running : r.text # <<>> => \E n \in DOMAIN r.text : r.confirmed = r.text[n]

\* What is shown as returned is what the script run last returned, once it has:
\* no two runs of one screen race (RedisCommandRunner.tsx:134-140).
ResultsAreOfLatestRun == results # {} /\ ~RunPending => results = {latest}

\* No results stand under an error, as if they were that command's
\* (RedisCommandRunner.tsx:126-131).
NoResultsUnderError == ~(runFailed /\ results # {})
=============================================================================
