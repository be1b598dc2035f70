------------------------------ MODULE MCStores ------------------------------
(***************************************************************************)
(* The two stores that the server keeps in memory beside its registry, in  *)
(* one instance for TLC: the export tickets and the query history.  They   *)
(* share nothing, and their states are not multiplied: a behaviour is one  *)
(* of one store, chosen at the start.                                      *)
(***************************************************************************)
EXTENDS ExportTickets, QueryHistory

VARIABLE store

storesVars == <<store, vars, historyVars>>

\* The history of a behaviour of the tickets stays as one context leaves it.
StoresInit ==
    /\ store \in {"tickets", "history"}
    /\ Init
    /\ HistoryInit
    /\ store = "history" \/ memory = CHOOSE mem \in [Ctxs -> Request] : TRUE

StoresNext ==
    /\ UNCHANGED store
    /\ \/ store = "tickets" /\ Next /\ UNCHANGED historyVars
       \/ store = "history" /\ HistoryNext /\ UNCHANGED vars

StoresSpec == StoresInit /\ [][StoresNext]_storesVars

\* Each store keeps its types: the tickets kept are of minted tokens
\* (export_tickets.go), the entries of the history of queries that were logged
\* (history.go).
StoresTypeOK == TypeOK /\ HistoryTypeOK
=============================================================================
