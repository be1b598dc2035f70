----------------------------- MODULE WebSession -----------------------------
(***************************************************************************)
(* The session gate of the browser (web/src/App.tsx) with what feeds it:   *)
(* the stored session ID (api/http.ts), the connection screen, the Server  *)
(* tab and the connection-lost placeholder, against a server that other    *)
(* browsers use and that may stop.                                         *)
(*                                                                         *)
(* Every session-scoped query of the cache behaves alike here, so one,     *)
(* rows, stands for each of them: those of the tabs, which leave the       *)
(* screen with their tab, and the list of documents, which does when       *)
(* another collection is selected.                                         *)
(***************************************************************************)
EXTENDS QueryCache, Naturals, FiniteSets

CONSTANTS Conns,      \* the connections a run can open; with --sessions they
                      \* are named by the session ID they get
          DefaultId,  \* the ID of the only session otherwise
          Servers,    \* the ways the server may have been started
          MaxOpened   \* bound: connects there may have been when it stops

ASSUME WebSessionAssumption ==
    /\ DefaultId \notin Conns
    /\ Servers \subseteq [multi : BOOLEAN, signed : BOOLEAN]
    /\ MaxOpened \in Nat

VARIABLES server,    \* how it was started
          up,        \* the server can be reached
          live,      \* the connections of its registry
          attempt,   \* how far the connect that opens each one is
          from,      \* the screen it was asked from
          stored,    \* sessionId of api/http.ts
          forced,    \* forcedDisconnect
          infoFailed,\* infoQuery.isError
          list,      \* the query ['sessions']
          rows,      \* a session-scoped query: whose data it has
          shown,     \* a component shows it
          overtaken, \* its request was under way, with nothing to show on
                     \* screen, when the session was set: for the properties
          adding,    \* the Server tab's own connection screen is open
          mine       \* connects pending in the connection screen now open

serverVars == <<server, up, live>>
gateVars == <<stored, forced, infoFailed>>
rowsVars == <<rows, shown, overtaken>>
sessionVars == <<serverVars, attempt, from, gateVars, list, rowsVars, adding, mine>>

NoStored == [id |-> DefaultId, signed |-> FALSE, set |-> FALSE]
Stored(id, signed) == [id |-> id, signed |-> signed, set |-> TRUE]

IdOf(c) == IF server.multi THEN c ELSE DefaultId

\* resolveSessionID and registry.Get: the connection a request with this ID
\* reaches, if any.  Without the header it is the default one; on a server
\* with a secret the ID must be a signed one.
Reached(st) ==
    {c \in live : IdOf(c) = st.id /\ (st.set => server.signed = st.signed)}

\* The registry after a connect: the default session is replaced.
Registered(c) == IF server.multi THEN live \cup {c} ELSE {c}

\* A request under way: the ID in its header, and the answer once served.
Sent(st) == [by |-> st, answer |-> {}]

\* What App renders (App.tsx:288-325).
View ==
    IF infoFailed /\ ~forced THEN "lost"
    ELSE IF forced \/ list.data = {{}} THEN "gate"
    ELSE "app"

\* A connection screen loses its state when App stops rendering it.
Rerender ==
    \/ View' = View /\ UNCHANGED <<adding, mine>>
    \/ View' # View /\ adding' = FALSE /\ mine' = {}

IsEntry(q, answers) ==
    /\ q.data \subseteq answers /\ Cardinality(q.data) < 2
    /\ Cardinality(q.asked) < 2
    /\ \A request \in q.asked :
          /\ request.by.id \in Conns \cup {DefaultId}
          /\ request.answer \subseteq answers /\ Cardinality(request.answer) < 2
    /\ q.stale \in BOOLEAN

\* Each variable keeps its type, and a screen only waits for connects it sent.
SessionTypeOK ==
    /\ server \in Servers /\ up \in BOOLEAN /\ live \subseteq Conns
    /\ attempt \in [Conns -> {"unused", "sent", "registered", "used"}]
    /\ from \in [Conns -> {"gate", "add", "gone"}]
    /\ stored.id \in Conns \cup {DefaultId}
    /\ {stored.signed, stored.set, forced, infoFailed, adding, shown, overtaken} \subseteq BOOLEAN
    /\ IsEntry(list, SUBSET (Conns \cup {DefaultId}))
    /\ IsEntry(rows, Conns)
    /\ \A c \in mine : attempt[c] \in {"sent", "registered"} /\ from[c] # "gone"

\* The page is opened: App mounts and asks.  What an earlier page sent may
\* still be served.
PageOpens ==
    /\ forced' = FALSE /\ infoFailed' = FALSE
    /\ list' = Fresh(Sent(NoStored)) /\ rows' = Fresh(Sent(stored))
    /\ shown' = TRUE /\ overtaken' = FALSE
    /\ adding' = FALSE /\ mine' = {}
    /\ from' = [c \in Conns |-> "gone"]

\* With a database on the command line one connection is there from the
\* start; with --sessions, none.
StartsWith(ls) ==
    IF server.multi THEN ls = {}
    ELSE \E c \in Conns : attempt[c] = "unused" /\ ls = {c}

SessionInit ==
    /\ server \in Servers
    /\ up = TRUE
    /\ live \in SUBSET Conns
    /\ Cardinality(live) = (IF server.multi THEN 0 ELSE 1)
    /\ attempt = [c \in Conns |-> IF c \in live THEN "used" ELSE "unused"]
    /\ from = [c \in Conns |-> "gone"]
    /\ stored = NoStored
    /\ forced = FALSE /\ infoFailed = FALSE
    /\ list = Fresh(Sent(NoStored)) /\ rows = Fresh(Sent(NoStored))
    /\ shown = TRUE /\ overtaken = FALSE
    /\ adding = FALSE /\ mine = {}

Reload ==
    /\ up
    /\ PageOpens
    /\ UNCHANGED <<serverVars, attempt, stored>>
-----------------------------------------------------------------------------
(* The server, and others who use it *)

ServerStops ==
    /\ up
    /\ Cardinality({c \in Conns : attempt[c] # "unused"}) <= MaxOpened
    /\ up' = FALSE /\ live' = {}
    /\ UNCHANGED <<server, attempt, from, gateVars, list, rowsVars, adding, mine>>

ServerStarts ==
    /\ ~up
    /\ up' = TRUE
    /\ live' \in SUBSET Conns /\ StartsWith(live')
    /\ attempt' = [c \in Conns |-> IF c \in live' THEN "used" ELSE attempt[c]]
    /\ UNCHANGED <<server, from, gateVars, list, rowsVars, adding, mine>>

OtherConnects(c) ==
    /\ up /\ attempt[c] = "unused"
    /\ attempt' = [attempt EXCEPT ![c] = "used"]
    /\ live' = Registered(c)
    /\ UNCHANGED <<server, up, from, gateVars, list, rowsVars, adding, mine>>

OtherDisconnects(c) ==
    /\ c \in live
    /\ live' = live \ {c}
    /\ UNCHANGED <<server, up, attempt, from, gateVars, list, rowsVars, adding, mine>>

ServeList ==
    /\ up
    /\ \E request \in list.asked :
          /\ request.answer = {}
          /\ list' = [list EXCEPT !.asked =
                {[request EXCEPT !.answer = {{IdOf(c) : c \in live}}]}]
    /\ UNCHANGED <<serverVars, attempt, from, gateVars, rowsVars, adding, mine>>

ServeRows ==
    /\ up
    /\ \E request \in rows.asked : \E c \in Reached(request.by) :
          /\ request.answer = {}
          /\ rows' = [rows EXCEPT !.asked = {[request EXCEPT !.answer = {c}]}]
    /\ UNCHANGED <<serverVars, attempt, from, gateVars, list, shown, overtaken, adding, mine>>

\* handleConnect, dialled: the reply is on its way, or never comes.
ServeConnect(c) ==
    /\ up /\ attempt[c] = "sent"
    /\ attempt' = [attempt EXCEPT ![c] = "registered"]
    /\ live' = Registered(c)
    /\ UNCHANGED <<server, up, from, gateVars, list, rowsVars, adding, mine>>
-----------------------------------------------------------------------------
(* The browser *)

\* useInfo, every five seconds, and Retry of the placeholder.
PollInfo ==
    /\ infoFailed' = ~up
    /\ UNCHANGED <<serverVars, attempt, from, stored, forced, list, rowsVars>>
    /\ Rerender

Refocus ==
    /\ list' \in MayRefetch(list, Sent(NoStored))
    /\ rows' \in IF shown THEN MayRefetch(rows, Sent(stored)) ELSE {rows}
    /\ UNCHANGED <<serverVars, attempt, from, gateVars, shown, overtaken, adding, mine>>

\* The tab, or the collection, that the rows are of is selected again.
ShowRows ==
    /\ ~shown
    /\ shown' = TRUE
    /\ rows' \in MayRefetch(rows, Sent(stored))
    /\ UNCHANGED <<serverVars, attempt, from, gateVars, list, overtaken, adding, mine>>

\* Another one is: a request under way goes on.
HideRows ==
    /\ shown
    /\ shown' = FALSE
    /\ UNCHANGED <<serverVars, attempt, from, gateVars, list, rows, overtaken, adding, mine>>

DropRows ==
    /\ ~shown /\ ~Fetching(rows)
    /\ rows' = Dropped
    /\ UNCHANGED <<serverVars, attempt, from, gateVars, list, shown, overtaken, adding, mine>>

\* The session is set while the rows are asked for.
Overtake == overtaken' = (Fetching(rows) /\ ~(shown /\ Loaded(rows)))

\* App's effect on the session list: a stored ID the list does not have is
\* dropped.  The listed IDs are raw, the stored one as the server handed it
\* out or as the Server tab picked it.
GateEffect(ids) ==
    IF stored.set /\ (stored.signed \/ stored.id \notin ids)
    THEN stored' = NoStored /\ forced' = TRUE /\ Overtake
    ELSE UNCHANGED <<stored, forced, overtaken>>

\* The list arrives.  An equal one is no change, and the effect stays put.
ListArrives ==
    /\ \E request \in list.asked : \E ids \in request.answer :
          /\ list' = Succeeded(list, ids)
          /\ \/ list.data = {ids} /\ UNCHANGED <<stored, forced, overtaken>>
             \/ list.data # {ids} /\ GateEffect(ids)
    /\ UNCHANGED <<serverVars, attempt, from, infoFailed, rows, shown>>
    /\ Rerender

ListFails ==
    /\ Fetching(list)
    /\ list' = Failed(list)
    /\ UNCHANGED <<serverVars, attempt, from, gateVars, rowsVars, adding, mine>>

RowsArrive ==
    /\ \E request \in rows.asked : \E c \in request.answer : rows' = Succeeded(rows, c)
    /\ overtaken' = FALSE
    /\ UNCHANGED <<serverVars, attempt, from, gateVars, list, shown, adding, mine>>

\* The request is lost, or withSession finds no connection.
RowsFail ==
    /\ Fetching(rows)
    /\ rows' = Failed(rows) /\ overtaken' = FALSE
    /\ UNCHANGED <<serverVars, attempt, from, gateVars, list, shown, adding, mine>>

\* Mutant of InvalidateAll: switching refetches the list only.
InvalidateListOnly == list' = Invalidated(list, Sent(NoStored)) /\ UNCHANGED rows

\* Mutant of InvalidateAll: the list is left as it is, and so is a request for
\* it that is under way.
InvalidateRowsOnly ==
    /\ UNCHANGED list
    /\ rows' = IF shown THEN Invalidated(rows, Sent(stored')) ELSE Marked(rows)

\* queryClient.invalidateQueries(), after the new ID is stored: only what is
\* shown is asked for again.  The list is served to any ID alike.
InvalidateAll ==
    /\ list' = Invalidated(list, Sent(NoStored))
    /\ rows' = IF shown THEN Invalidated(rows, Sent(stored')) ELSE Marked(rows)

\* Connect in the screen that is open; one pending connect disables it.
Connect(c) ==
    /\ View = "gate" \/ adding
    /\ mine = {}
    /\ attempt[c] = "unused"
    /\ attempt' = [attempt EXCEPT ![c] = "sent"]
    /\ from' = [from EXCEPT ![c] = IF adding THEN "add" ELSE "gate"]
    /\ mine' = {c}
    /\ UNCHANGED <<serverVars, gateVars, list, rowsVars, adding>>

\* The mutation's onSuccess, which runs even if its screen is gone.  Only the
\* gate's clears forcedDisconnect.
ConnectAnswered(c) ==
    /\ attempt[c] = "registered"
    /\ from[c] # "gone"
    /\ attempt' = [attempt EXCEPT ![c] = "used"]
    /\ stored' = Stored(IdOf(c), server.signed)
    /\ forced' = (forced /\ from[c] = "add")
    /\ InvalidateAll /\ Overtake
    /\ from' = [from EXCEPT ![c] = "gone"]
    /\ UNCHANGED <<serverVars, infoFailed, shown>>
    /\ adding' = (adding /\ from[c] = "gate" /\ View' = View)
    /\ mine' = IF View' = View /\ adding' = adding THEN mine \ {c} ELSE {}

\* The dial fails, or the request or its reply is lost: only an error shows.
ConnectFails(c) ==
    /\ attempt[c] \in {"sent", "registered"}
    /\ attempt' = [attempt EXCEPT ![c] = IF @ = "sent" THEN "unused" ELSE "used"]
    /\ from' = [from EXCEPT ![c] = "gone"]
    /\ mine' = mine \ {c}
    /\ UNCHANGED <<serverVars, gateVars, list, rowsVars, adding>>

AddConnection ==
    /\ View = "app" /\ ~adding
    /\ adding' = TRUE
    /\ UNCHANGED <<serverVars, attempt, from, gateVars, list, rowsVars, mine>>

CancelAdding ==
    /\ adding
    /\ adding' = FALSE /\ mine' = {}
    /\ UNCHANGED <<serverVars, attempt, from, gateVars, list, rowsVars>>

\* Use this connection: the row's ID, as the list has it.
SwitchSession(id) ==
    /\ View = "app" /\ ~adding
    /\ \E ids \in list.data : id \in ids
    /\ stored # Stored(id, FALSE)
    /\ stored' = Stored(id, FALSE)
    /\ InvalidateAll /\ Overtake
    /\ UNCHANGED <<serverVars, attempt, from, forced, infoFailed, shown, adding, mine>>

\* Disconnect, in the header or the Server tab: what it leaves behind is
\* found out through the session list.
Disconnect ==
    /\ View = "app" /\ ~adding /\ up
    /\ Reached(stored) # {}
    /\ live' = live \ Reached(stored)
    /\ list' = Invalidated(list, Sent(NoStored))
    /\ UNCHANGED <<server, up, attempt, from, gateVars, rowsVars, adding, mine>>

DisconnectAfterConnectionLost ==
    /\ View = "lost"
    /\ stored' = NoStored /\ forced' = TRUE /\ Overtake
    /\ UNCHANGED <<serverVars, attempt, from, infoFailed, list, rows, shown>>
    /\ Rerender

SessionNext ==
    \/ Reload
    \/ ServerStops \/ ServerStarts \/ ServeList \/ ServeRows
    \/ \E c \in Conns : \/ OtherConnects(c) \/ OtherDisconnects(c)
                        \/ ServeConnect(c) \/ Connect(c)
                        \/ ConnectAnswered(c) \/ ConnectFails(c)
    \/ PollInfo \/ Refocus \/ ShowRows \/ HideRows \/ DropRows
    \/ ListArrives \/ ListFails \/ RowsArrive \/ RowsFail
    \/ AddConnection \/ CancelAdding
    \/ \E id \in Conns \cup {DefaultId} : SwitchSession(id)
    \/ Disconnect \/ DisconnectAfterConnectionLost

SessionSpec == SessionInit /\ [][SessionNext]_sessionVars
-----------------------------------------------------------------------------
(* Properties *)

\* With --sessions, what the rows get is what the session in use now returned:
\* an answer to the session before, on its way when the user switched, is not
\* adopted (ServerPanel.tsx:35-38, ConnectionModal.tsx:76-79).  But for one that
\* was on its way, when the session was set, to rows that were hidden or had no
\* data yet: invalidateQueries does not give that request up, and its answer
\* does replace the rows.
RowsReplacedByOwn == [][
    rows'.data # rows.data /\ Loaded(rows)' /\ ~overtaken /\ server.multi /\ View = "app" /\ View' = "app"
        => rows'.data = {stored'.id}]_sessionVars

\* The gate's effect drops no stored session that the server still has, once
\* the list has loaded (App.tsx:80-93, docs/features/server-and-sessions.md:45-47).
LiveSessionIsKept == [][
    stored' # stored /\ server.multi /\ Loaded(list) /\ ListArrives
        => Reached(stored) = {}]_sessionVars
=============================================================================
