------------------------------ MODULE MCPages ------------------------------
(***************************************************************************)
(* Where the browser is and what it lists, in one instance for TLC: the    *)
(* session gate, the navigation, the document list and the console.  The   *)
(* modules share no variable, and their states are not multiplied: a       *)
(* behaviour is one of one part, chosen at the start, while each of the    *)
(* others keeps one initial state, which has none of the permuted values.  *)
(***************************************************************************)
EXTENDS WebSession, Navigation, DocumentList, RedisConsole, TLC

CONSTANTS MCParts, \* the parts that are checked
          a, b,    \* connections, or collections to go to
          d1, d2   \* databases

VARIABLE part

\* Servers that do not sign their session IDs.
MCServers == {[multi |-> multi, signed |-> FALSE] : multi \in BOOLEAN}

\* A server started with --sessions and --session-secret.
MCSigning == {[multi |-> TRUE, signed |-> TRUE]}

MCStandard == <<4>>
MCFine == <<1, 2>>

\* A script in which no wipe is seen, one with one, and one with both.
MCScripts == {<<>>, <<"FLUSHALL">>, <<"FLUSHDB", "FLUSHALL">>}

Symmetry == Permutations({a, b}) \cup Permutations({d1, d2})

Is(name) == part = name

PagesInit ==
    /\ part \in MCParts
    /\ SessionInit
    /\ Is("session") \/ server.multi
    /\ NavInit
    /\ Is("navigation") \/ (page.db = NoName /\ page.tab = "documents" /\ schemaTab)
    /\ ListInit
    /\ Is("list") \/ view = FirstPage(CHOOSE coll \in ListColls : TRUE, CHOOSE f \in Filters : TRUE)
    /\ RcInit
    /\ Is("console") \/ spot = CHOOSE coll \in ConsoleColls : TRUE

Steps(name, next, unchanged) == (Is(name) /\ next) \/ (~Is(name) /\ unchanged)

PagesNext ==
    /\ UNCHANGED part
    /\ Steps("session", SessionNext, UNCHANGED sessionVars)
    /\ Steps("navigation", NavNext, UNCHANGED navVars)
    /\ Steps("list", ListNext, UNCHANGED listVars)
    /\ Steps("console", RcNext, UNCHANGED consoleVars)

pagesVars == <<part, sessionVars, navVars, listVars, consoleVars>>

PagesSpec == PagesInit /\ [][PagesNext]_pagesVars

\* Each part keeps its types, and with them what they say of its screens.
PagesTypeOK == SessionTypeOK /\ NavTypeOK /\ ListTypeOK /\ ConsoleTypeOK
=============================================================================
