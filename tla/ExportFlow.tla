----------------------------- MODULE ExportFlow -----------------------------
(***************************************************************************)
(* pkg/api/handlers_export.go: the two halves of a browser download, which *)
(* bring the session registry and the ticket store together.  A            *)
(* session-scoped GET issues a ticket naming its session; a later request  *)
(* with no session header spends the ticket, looks that session up again   *)
(* and exports from whatever client it finds.  Between the two anything    *)
(* may happen to the session.                                              *)
(***************************************************************************)
EXTENDS Sessions, Integers, FiniteSets

CONSTANTS Downloads,   \* goroutines that serve GET /api/export/:ticket
          Tokens, TTL, MaxTickets, MaxTime, NoTicket, \* as in ExportTickets
          NoPayload    \* a download with no ticket in hand

VARIABLES m, now, minted, answer, \* the ticket store
          dpc,     \* the program point of each download
          spent,   \* what the ticket it claimed remembers
          dheld    \* the client it looked up

\* A ticket keeps the session ID.  The client behind that session when the
\* ticket was issued is not in the code: it is kept for the properties.
Payload == [id : Ids, issuer : Clients]

Tickets == INSTANCE ExportTickets WITH Payloads <- Payload

ASSUME FlowAssumption ==
    /\ TTL \in Nat
    /\ NoTicket \notin Tickets!Ticket
    /\ NoPayload \notin Payload

storeVars == <<m, now, minted, answer>>
downloadVars == <<dpc, spent, dheld>>
flowVars == <<vars, storeVars, downloadVars>>

\* Both parts keep their types, and a download that is to export holds a
\* ticket and, from its lookup on, a client (handlers_export.go:77-104).
FlowTypeOK ==
    /\ TypeOK
    /\ Tickets!TypeOK
    /\ dpc \in [Downloads -> {"idle", "get", "find"}]
    /\ spent \in [Downloads -> Payload \cup {NoPayload}]
    /\ dheld \in [Downloads -> Clients \cup {NoClient}]
    /\ \A d \in Downloads :
          /\ dpc[d] = "idle" <=> spent[d] = NoPayload
          /\ dpc[d] = "find" <=> dheld[d] # NoClient

FlowInit ==
    /\ Init
    /\ Tickets!Init
    /\ dpc = [d \in Downloads |-> "idle"]
    /\ spent = [d \in Downloads |-> NoPayload]
    /\ dheld = [d \in Downloads |-> NoClient]

\* handleExportTicket, the handler of a GET that withSession let through.
\* It clones what it keeps of the request, so a ticket never changes.
RequestTicket(r) ==
    /\ pc[r] = "run"
    /\ op[r] = "read"
    /\ \/ \E k \in Tokens, handled \in 0 .. now :
             Tickets!Issue(k, [id |-> sid[r], issuer |-> held[r]], handled)
       \/ Tickets!IssueRefused
    /\ Respond(r)
    /\ UNCHANGED <<sessions, conn, mode, issued, written, downloadVars>>

\* handleExportDownload: the ticket is spent whatever comes next.
ClaimTicket(d, k) ==
    /\ dpc[d] = "idle"
    /\ \/ /\ Tickets!Claim(k)
          /\ dpc' = [dpc EXCEPT ![d] = "get"]
          /\ spent' = [spent EXCEPT ![d] = m[k].payload]
       \/ Tickets!ClaimRejected(k) /\ UNCHANGED <<dpc, spent>>
    /\ UNCHANGED <<vars, dheld>>

\* The download of d is answered.
Finish(d) ==
    /\ dpc' = [dpc EXCEPT ![d] = "idle"]
    /\ spent' = [spent EXCEPT ![d] = NoPayload]
    /\ dheld' = [dheld EXCEPT ![d] = NoClient]

\* Mutant of LookUpIssuer: the error of registry.Get is dropped.
LookUpIssuerUnchecked(d) ==
    /\ dpc[d] = "get"
    /\ dpc' = [dpc EXCEPT ![d] = "find"]
    /\ dheld' = [dheld EXCEPT ![d] =
           IF Has(spent[d].id) THEN sessions[spent[d].id].client ELSE NoClient]
    /\ UNCHANGED <<spent, vars, storeVars>>

\* registry.Get(t.sessionID): 400 when the session is gone by now.
LookUpIssuer(d) ==
    /\ dpc[d] = "get"
    /\ \/ /\ Has(spent[d].id)
          /\ dpc' = [dpc EXCEPT ![d] = "find"]
          /\ dheld' = [dheld EXCEPT ![d] = sessions[spent[d].id].client]
          /\ UNCHANGED spent
       \/ ~Has(spent[d].id) /\ Finish(d)
    /\ UNCHANGED <<vars, storeVars>>

\* streamExport: one Find on the client, then the response.
StreamExport(d) ==
    /\ dpc[d] = "find"
    /\ Finish(d)
    /\ UNCHANGED <<vars, storeVars>>

FlowNext ==
    \/ Next /\ UNCHANGED <<storeVars, downloadVars>>
    \/ Tickets!Tick /\ UNCHANGED <<vars, downloadVars>>
    \/ \E r \in Requests : RequestTicket(r)
    \/ \E d \in Downloads :
          \/ \E k \in Tokens : ClaimTicket(d, k)
          \/ LookUpIssuer(d)
          \/ StreamExport(d)

FlowSpec == FlowInit /\ [][FlowNext]_flowVars
-----------------------------------------------------------------------------
(* Properties *)

\* With --sessions a ticket only ever exports from the connection it was
\* issued on: "the ticket grants nothing the session that issued it did not
\* already have" (handlers_export.go:84-85), however long after a disconnect
\* and whatever was connected since.  It rests on IDs never coming back.
ExportsFromIssuer ==
    SessionsMode => \A d \in Downloads :
        dpc[d] = "find" => dheld[d] = spent[d].issuer
=============================================================================
