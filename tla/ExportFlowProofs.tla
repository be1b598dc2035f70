-------------------------- MODULE ExportFlowProofs --------------------------
(***************************************************************************)
(* Proofs about ExportFlow, for any numbers of requests, downloads,        *)
(* sessions and tickets: the composition is still the session registry,    *)
(* and a ticket leads to the connection it was issued on or to none.       *)
(***************************************************************************)
EXTENDS ExportFlow, SessionsProofs

(***************************************************************************)
(* The session registry under exports                                      *)
(***************************************************************************)

\* To the registry, a request for a ticket is one more scoped read, and a
\* download is nothing at all.
LEMMA FlowStepsAreSessionSteps == [FlowNext]_flowVars => [Next]_vars
<1> SUFFICES ASSUME [FlowNext]_flowVars PROVE [Next]_vars
  OBVIOUS
<1>1. CASE Next
  BY <1>1
<1>2. ASSUME NEW r \in Requests, RequestTicket(r) PROVE Next
  <2>1. RunHandler(r)
    BY <1>2 DEF RequestTicket, RunHandler
  <2> QED BY <2>1 DEF Next, Serve
<1>3. ASSUME NEW d \in Downloads,
             \/ \E k \in Tokens : ClaimTicket(d, k)
             \/ LookUpIssuer(d)
             \/ StreamExport(d)
      PROVE  UNCHANGED vars
  BY <1>3 DEF ClaimTicket, LookUpIssuer, StreamExport
<1>4. CASE UNCHANGED flowVars
  BY <1>4 DEF flowVars
<1> QED BY <1>1, <1>2, <1>3, <1>4 DEF FlowNext

\* The server with exports is a server as Sessions describes it: every theorem
\* about Sessions holds of it too (handlers_export.go, session.go).
THEOREM FlowImplementsSessions == FlowSpec => Spec
<1>1. FlowInit => Init
  BY DEF FlowInit
<1> QED BY <1>1, FlowStepsAreSessionSteps, PTL DEF FlowSpec, Spec

\* With --sessions no open connection gets lost, exports or not.
THEOREM NoLeakUnderExports == SessionsMode => (FlowSpec => []EveryOpenClientOwned)
BY FlowImplementsSessions, NoLeakInSessionsMode

\* To the ticket store, what sessions and downloads do beside it is nothing,
\* and a request that is issued a ticket has a session and a client in hand.
LEMMA FlowStepsAreTicketSteps ==
    TypeOK /\ [FlowNext]_flowVars => [Tickets!Next]_(Tickets!vars)
<1> SUFFICES ASSUME TypeOK, [FlowNext]_flowVars
             PROVE  Tickets!Next \/ UNCHANGED Tickets!vars
  OBVIOUS
<1>1. CASE Tickets!Tick
  BY <1>1 DEF Tickets!Next
<1>2. ASSUME NEW r \in Requests, RequestTicket(r) PROVE Tickets!Next
  <2>1. sid[r] \in Ids /\ held[r] \in Clients
    BY <1>2 DEF RequestTicket, TypeOK, RequestTypeOK, Holding
  <2>2. [id |-> sid[r], issuer |-> held[r]] \in Payload
    BY <2>1 DEF Payload
  <2>3. CASE Tickets!IssueRefused
    BY <2>3 DEF Tickets!Next
  <2>4. ASSUME NEW k \in Tokens, NEW handled \in 0 .. now,
               Tickets!Issue(k, [id |-> sid[r], issuer |-> held[r]], handled)
        PROVE  Tickets!Next
    BY <2>2, <2>4 DEF Tickets!Next
  <2> QED BY <1>2, <2>3, <2>4 DEF RequestTicket
<1>3. ASSUME NEW d \in Downloads, NEW k \in Tokens, ClaimTicket(d, k) PROVE Tickets!Next
  <2>1. Tickets!Claim(k) \/ Tickets!ClaimRejected(k)
    BY <1>3 DEF ClaimTicket
  <2> QED BY <2>1 DEF Tickets!Next
<1>4. CASE \/ Next /\ UNCHANGED <<storeVars, downloadVars>>
           \/ \E d \in Downloads : LookUpIssuer(d) \/ StreamExport(d)
           \/ UNCHANGED flowVars
  BY <1>4 DEF LookUpIssuer, StreamExport, flowVars, storeVars, Tickets!vars
<1> QED BY <1>1, <1>2, <1>3, <1>4 DEF FlowNext

\* The server with sessions is also the ticket store as ExportTickets describes
\* it: whatever happens to the sessions, a ticket is good for one download and
\* only until its deadline, and the store is capped (export_tickets.go:69-107).
THEOREM FlowImplementsTickets == FlowSpec => Tickets!Spec
<1>1. FlowInit => Tickets!Init
  BY DEF FlowInit
<1>2. FlowSpec => []TypeOK
  BY FlowImplementsSessions, TypeCorrect
<1> QED BY <1>1, <1>2, FlowStepsAreTicketSteps, PTL DEF FlowSpec, Tickets!Spec
-----------------------------------------------------------------------------
(***************************************************************************)
(* What an ID leads to                                                     *)
(***************************************************************************)

\* The ID was handed out, and while it leads anywhere it leads to c.
LeadsTo(id, c) == id \in issued /\ (Has(id) => sessions[id].client = c)

\* A session is of an ID that was handed out, and a request uses the client
\* its ID leads to.
SessionsLead ==
    /\ \A id \in Ids : Has(id) => id \in issued
    /\ \A r \in Requests : pc[r] \in {"info", "run"} => LeadsTo(sid[r], held[r])

\* With --sessions an ID is handed out once, so what it leads to never changes.
LEMMA LeadingLasts ==
    ASSUME SessionsMode, TypeOK, [Next]_vars, NEW id \in Ids, NEW c, LeadsTo(id, c)
    PROVE  LeadsTo(id, c)'
<1>1. ASSUME NEW r \in Requests, NEW j \in Ids, RegisterConnection(r, j)
      PROVE  LeadsTo(id, c)'
  <2>1. j # id /\ issued' = issued \cup {j}
    BY <1>1 DEF RegisterConnection, NewSessionIds, LeadsTo
  <2>2. sessions'[id] = sessions[id]
    BY <1>1, <2>1 DEF RegisterConnection, Put, TypeOK, RegistryTypeOK
  <2> QED BY <2>1, <2>2 DEF LeadsTo, Has
<1>2. ASSUME NEW r \in Requests, RemoveEntry(r) PROVE LeadsTo(id, c)'
  <2>1. sessions'[id] \in {sessions[id], NoEntry} /\ issued' = issued
    BY <1>2 DEF RemoveEntry, Delete, TypeOK, RegistryTypeOK, RequestTypeOK
  <2> QED BY <2>1 DEF LeadsTo, Has
<1>3. CASE UNCHANGED <<sessions, issued>>
  BY <1>3 DEF LeadsTo, Has
<1>4. ASSUME NEW r \in Requests,
             \/ Arrives(r) \/ \E e \in Clients : DialSucceeds(r, e)
             \/ DialFails(r) \/ LookUpClient(r) \/ CheckReadonly(r)
             \/ RunHandler(r) \/ CloseClient(r)
      PROVE  UNCHANGED <<sessions, issued>>
  BY <1>4 DEF Arrives, ConnectArrives, ScopedArrives, DisconnectArrives, DialSucceeds,
              DialFails, LookUpClient, CheckReadonly, RunHandler, CloseClient
<1>5. CASE UNCHANGED vars
  BY <1>3, <1>5 DEF vars
<1> QED BY <1>1, <1>2, <1>3, <1>4, <1>5 DEF Next, Serve

\* A request that uses a client used it before the step, or has just looked it
\* up.
LEMMA WhoUses ==
    ASSUME TypeOK, [Next]_vars, NEW r \in Requests, pc'[r] \in {"info", "run"}
    PROVE  \/ pc[r] \in {"info", "run"} /\ sid'[r] = sid[r] /\ held'[r] = held[r]
           \/ /\ Has(sid[r]) /\ sid'[r] = sid[r] /\ held'[r] = sessions[sid[r]].client
              /\ UNCHANGED <<sessions, issued>>
<1> DEFINE Stays(q) == pc'[q] = pc[q] /\ sid'[q] = sid[q] /\ held'[q] = held[q]
           Goal == \/ pc[r] \in {"info", "run"} /\ sid'[r] = sid[r] /\ held'[r] = held[r]
                   \/ /\ Has(sid[r]) /\ sid'[r] = sid[r] /\ held'[r] = sessions[sid[r]].client
                      /\ UNCHANGED <<sessions, issued>>
<1>0. RequestTypeOK
  BY DEF TypeOK
<1>1. ASSUME NEW q \in Requests, Respond(q) PROVE Goal
  <2>1. pc'[q] = "idle" /\ (q # r => Stays(r))
    BY <1>0, <1>1 DEF Respond, RequestTypeOK
  <2> QED BY <2>1
<1>2. ASSUME NEW q \in Requests, NEW point, NEW c, Proceed(q, point, c)
      PROVE  /\ q # r => Stays(r)
             /\ pc'[q] = point /\ held'[q] = c /\ sid'[q] = sid[q]
  BY <1>0, <1>2 DEF Proceed, RequestTypeOK
<1>3. ASSUME NEW q \in Requests, Arrives(q) PROVE Goal
  <2>1. pc'[q] \in {"dial", "get", "delete"} /\ (q # r => Stays(r))
    BY <1>0, <1>3 DEF Arrives, ConnectArrives, ScopedArrives, DisconnectArrives, RequestTypeOK
  <2> QED BY <2>1
<1>4. ASSUME NEW q \in Requests, NEW c \in Clients, DialSucceeds(q, c) PROVE Goal
  <2>1. Proceed(q, "put", c)
    BY <1>4 DEF DialSucceeds
  <2>2. pc'[q] = "put" /\ (q # r => Stays(r))
    BY <1>2, <2>1
  <2> QED BY <2>2
<1>5. ASSUME NEW q \in Requests,
             \/ DialFails(q) \/ \E id \in Ids : RegisterConnection(q, id)
             \/ RunHandler(q) \/ CloseClient(q)
      PROVE  Goal
  <2>1. Respond(q)
    BY <1>5 DEF DialFails, RegisterConnection, RunHandler, CloseClient
  <2> QED BY <1>1, <2>1
<1>6. ASSUME NEW q \in Requests, LookUpClient(q) PROVE Goal
  <2>1. CASE Has(sid[q]) /\ Proceed(q, "info", sessions[sid[q]].client)
    <3>1. (q # r => Stays(r)) /\ held'[q] = sessions[sid[q]].client /\ sid'[q] = sid[q]
      BY <1>2, <2>1
    <3> QED BY <1>6, <2>1, <3>1 DEF LookUpClient
  <2>2. CASE Respond(q)
    BY <1>1, <2>2
  <2> QED BY <1>6, <2>1, <2>2 DEF LookUpClient
<1>7. ASSUME NEW q \in Requests, CheckReadonly(q) PROVE Goal
  <2>1. CASE Proceed(q, "run", held[q])
    <3>1. (q # r => Stays(r)) /\ held'[q] = held[q] /\ sid'[q] = sid[q] /\ pc[q] = "info"
      BY <1>2, <1>7, <2>1 DEF CheckReadonly
    <3> QED BY <3>1
  <2>2. CASE Respond(q)
    BY <1>1, <2>2
  <2> QED BY <1>7, <2>1, <2>2 DEF CheckReadonly
<1>8. ASSUME NEW q \in Requests, RemoveEntry(q) PROVE Goal
  <2>1. CASE Proceed(q, "close", sessions[sid[q]].client)
    <3>1. pc'[q] = "close" /\ (q # r => Stays(r))
      BY <1>2, <2>1
    <3> QED BY <3>1
  <2>2. CASE Respond(q)
    BY <1>1, <2>2
  <2> QED BY <1>8, <2>1, <2>2 DEF RemoveEntry
<1>9. CASE UNCHANGED vars
  BY <1>9 DEF vars, requestVars
<1> QED BY <1>3, <1>4, <1>5, <1>6, <1>7, <1>8, <1>9 DEF Next, Serve

\* An ID that leads somewhere was handed out.
LEMMA OnlyIssuedLead ==
    ASSUME TypeOK, \A id \in Ids : Has(id) => id \in issued, [Next]_vars
    PROVE  (\A id \in Ids : Has(id) => id \in issued)'
<1>1. ASSUME NEW r \in Requests, NEW j \in Ids, RegisterConnection(r, j)
      PROVE  (\A id \in Ids : Has(id) => id \in issued)'
  <2>1. \A id \in Ids : id # j => sessions'[id] = sessions[id]
    BY <1>1 DEF RegisterConnection, Put, TypeOK, RegistryTypeOK
  <2>2. issued' = issued \cup {j}
    BY <1>1 DEF RegisterConnection
  <2> QED BY <2>1, <2>2 DEF Has
<1>2. ASSUME NEW r \in Requests, RemoveEntry(r)
      PROVE  (\A id \in Ids : Has(id) => id \in issued)'
  <2>1. \A id \in Ids : sessions'[id] \in {sessions[id], NoEntry}
    BY <1>2 DEF RemoveEntry, Delete, TypeOK, RegistryTypeOK
  <2> QED BY <1>2, <2>1 DEF RemoveEntry, Has
<1>3. CASE UNCHANGED <<sessions, issued>>
  BY <1>3 DEF Has
<1>4. ASSUME NEW r \in Requests,
             \/ Arrives(r) \/ \E e \in Clients : DialSucceeds(r, e)
             \/ DialFails(r) \/ LookUpClient(r) \/ CheckReadonly(r)
             \/ RunHandler(r) \/ CloseClient(r)
      PROVE  UNCHANGED <<sessions, issued>>
  BY <1>4 DEF Arrives, ConnectArrives, ScopedArrives, DisconnectArrives, DialSucceeds,
              DialFails, LookUpClient, CheckReadonly, RunHandler, CloseClient
<1>5. CASE UNCHANGED vars
  BY <1>3, <1>5 DEF vars
<1> QED BY <1>1, <1>2, <1>3, <1>4, <1>5 DEF Next, Serve

LEMMA SessionsLeadStep ==
    ASSUME SessionsMode, TypeOK, SessionsLead, [Next]_vars
    PROVE  SessionsLead'
<1>1. (\A id \in Ids : Has(id) => id \in issued)'
  BY OnlyIssuedLead DEF SessionsLead
<1>2. ASSUME NEW r \in Requests, pc'[r] \in {"info", "run"}
      PROVE  LeadsTo(sid[r], held[r])'
  <2> DEFINE id == sid[r]  c == held[r]
  <2>1. id \in Ids
    BY DEF TypeOK, RequestTypeOK
  <2>2. CASE pc[r] \in {"info", "run"} /\ sid'[r] = sid[r] /\ held'[r] = held[r]
    <3>1. LeadsTo(id, c)
      BY <2>2 DEF SessionsLead
    <3>2. id \in issued' /\ (sessions'[id] # NoEntry => sessions'[id].client = c)
      BY <2>1, <3>1, LeadingLasts DEF LeadsTo, Has
    <3> QED BY <2>2, <3>2 DEF LeadsTo, Has
  <2>3. CASE /\ Has(sid[r]) /\ sid'[r] = sid[r] /\ held'[r] = sessions[sid[r]].client
             /\ UNCHANGED <<sessions, issued>>
    BY <2>1, <2>3 DEF SessionsLead, LeadsTo, Has
  <2> QED BY <1>2, <2>2, <2>3, WhoUses
<1> QED BY <1>1, <1>2 DEF SessionsLead
-----------------------------------------------------------------------------
(***************************************************************************)
(* What a ticket leads to                                                  *)
(***************************************************************************)

Swept == Tickets!Swept

\* The types of the ticket store and of the downloads.
FlowRest ==
    /\ Tickets!TypeOK
    /\ dpc \in [Downloads -> {"idle", "get", "find"}]
    /\ spent \in [Downloads -> Payload \cup {NoPayload}]
    /\ dheld \in [Downloads -> Clients \cup {NoClient}]
    /\ \A d \in Downloads :
          /\ dpc[d] = "idle" <=> spent[d] = NoPayload
          /\ dpc[d] = "find" <=> dheld[d] # NoClient

\* What each step of the composition does to the store: a claim and a sweep
\* take tickets out, a new one is of the request's own session and client.
LEMMA StoreSteps ==
    ASSUME TypeOK, Tickets!TypeOK, [FlowNext]_flowVars, NEW k
    PROVE  /\ Tickets!TypeOK'
           /\ k \in Tokens =>
                 \/ m'[k] = m[k] \/ m'[k] = NoTicket
                 \/ \E r \in Requests :
                       /\ pc[r] = "run"
                       /\ m'[k].payload = [id |-> sid[r], issuer |-> held[r]]
                       /\ UNCHANGED <<sessions, issued>>
<1> DEFINE Goal == /\ Tickets!TypeOK'
                   /\ k \in Tokens =>
                         \/ m'[k] = m[k] \/ m'[k] = NoTicket
                         \/ \E r \in Requests :
                               /\ pc[r] = "run"
                               /\ m'[k].payload = [id |-> sid[r], issuer |-> held[r]]
                               /\ UNCHANGED <<sessions, issued>>
<1> DEFINE Store == Tickets!Ticket \cup {NoTicket}
<1>0. m \in [Tokens -> Store] /\ now \in Nat /\ minted \subseteq Tokens /\ answer \in Tickets!Answers
  BY DEF Tickets!TypeOK
<1>1. CASE UNCHANGED storeVars
  BY <1>1 DEF storeVars, Tickets!TypeOK
<1>2. CASE Tickets!Tick
  BY <1>0, <1>2 DEF Tickets!Tick, Tickets!TypeOK
<1>3. /\ Swept \in [Tokens -> Store]
      /\ \A j \in Tokens : Swept[j] = m[j] \/ Swept[j] = NoTicket
  BY <1>0 DEF Swept, Tickets!Swept
<1>4. ASSUME NEW r \in Requests, RequestTicket(r) PROVE Goal
  <2>1. CASE Tickets!IssueRefused
    BY <1>0, <1>3, <2>1 DEF Tickets!IssueRefused, Tickets!TypeOK, Tickets!Answers, Swept
  <2>2. ASSUME NEW j \in Tokens, NEW handled \in 0 .. now,
               Tickets!Issue(j, [id |-> sid[r], issuer |-> held[r]], handled)
        PROVE  Goal
    <3> DEFINE pay == [id |-> sid[r], issuer |-> held[r]]
               t == [payload |-> pay, expires |-> handled + TTL]
    <3>1. pc[r] = "run" /\ UNCHANGED <<sessions, issued>>
      BY <1>4 DEF RequestTicket
    <3>2. pay \in Payload
      BY <3>1, InHand DEF Payload, Holding, TypeOK, RequestTypeOK
    <3>3. handled + TTL \in Nat
      BY <1>0, FlowAssumption
    <3>4. t \in Tickets!Ticket /\ t.payload = pay
      BY <3>2, <3>3 DEF Tickets!Ticket
    <3> HIDE DEF t, pay
    <3>5. /\ m' = [Swept EXCEPT ![j] = t] /\ now' = now
          /\ minted' = minted \cup {j} /\ answer' = "ticket"
      BY <2>2 DEF Tickets!Issue, Swept, t, pay
    <3>6. Tickets!TypeOK'
      BY <1>0, <1>3, <3>4, <3>5 DEF Tickets!TypeOK, Tickets!Answers
    <3>7. k \in Tokens => m'[k] = t \/ m'[k] = m[k] \/ m'[k] = NoTicket
      BY <1>3, <3>5
    <3> QED BY <3>1, <3>4, <3>6, <3>7 DEF pay
  <2> QED BY <1>4, <2>1, <2>2 DEF RequestTicket
<1>5. ASSUME NEW d \in Downloads, NEW j \in Tokens, ClaimTicket(d, j) PROVE Goal
  <2>1. /\ m' = [m EXCEPT ![j] = NoTicket] /\ now' = now /\ minted' = minted
        /\ answer' \in Tickets!Answers
    BY <1>5 DEF ClaimTicket, Tickets!Claim, Tickets!ClaimRejected, Tickets!Answers
  <2> QED BY <1>0, <2>1 DEF Tickets!TypeOK
<1>6. ASSUME NEW d \in Downloads, LookUpIssuer(d) \/ StreamExport(d) PROVE Goal
  BY <1>1, <1>6 DEF LookUpIssuer, StreamExport
<1>7. CASE UNCHANGED flowVars
  BY <1>1, <1>7 DEF flowVars
<1> QED BY <1>1, <1>2, <1>4, <1>5, <1>6, <1>7 DEF FlowNext

\* What each step of the composition does to a download: it claims a ticket,
\* looks its session up, ends, or is left alone.
Claims(d) == \E k \in Tokens : /\ m[k] # NoTicket /\ dpc[d] = "idle"
                               /\ dpc'[d] = "get" /\ spent'[d] = m[k].payload
                               /\ dheld'[d] = dheld[d]
Finds(d) == /\ dpc[d] = "get" /\ Has(spent[d].id)
            /\ dpc'[d] = "find" /\ spent'[d] = spent[d]
            /\ dheld'[d] = sessions[spent[d].id].client
Ends(d) == dpc'[d] = "idle" /\ spent'[d] = NoPayload /\ dheld'[d] = NoClient
LeftAlone(d) == dpc'[d] = dpc[d] /\ spent'[d] = spent[d] /\ dheld'[d] = dheld[d]

DownloadRanges ==
    /\ dpc \in [Downloads -> {"idle", "get", "find"}]
    /\ spent \in [Downloads -> Payload \cup {NoPayload}]
    /\ dheld \in [Downloads -> Clients \cup {NoClient}]

LEMMA DownloadSteps ==
    ASSUME TypeOK, FlowRest, [FlowNext]_flowVars
    PROVE  /\ DownloadRanges'
           /\ \A d \in Downloads : /\ Claims(d) \/ Finds(d) => UNCHANGED <<sessions, issued>>
                                   /\ Claims(d) \/ Finds(d) \/ Ends(d) \/ LeftAlone(d)
<1> DEFINE Step(d) == Claims(d) \/ Finds(d) \/ Ends(d) \/ LeftAlone(d)
           Goal == /\ DownloadRanges'
                   /\ \A d \in Downloads :
                         /\ Claims(d) \/ Finds(d) => UNCHANGED <<sessions, issued>>
                         /\ Step(d)
<1>0. DownloadRanges
  BY DEF FlowRest, DownloadRanges
<1>1. CASE UNCHANGED downloadVars
  <2>1. \A d \in Downloads : LeftAlone(d) /\ ~Claims(d) /\ ~Finds(d)
    BY <1>1 DEF downloadVars, LeftAlone, Claims, Finds
  <2>2. DownloadRanges'
    BY <1>0, <1>1 DEF downloadVars, DownloadRanges
  <2> QED BY <2>1, <2>2
<1>2. ASSUME NEW d \in Downloads, NEW k \in Tokens, ClaimTicket(d, k) PROVE Goal
  <2>1. CASE Tickets!ClaimRejected(k) /\ UNCHANGED <<dpc, spent>>
    BY <1>1, <1>2, <2>1 DEF ClaimTicket, downloadVars
  <2>2. CASE /\ Tickets!Claim(k)
             /\ dpc' = [dpc EXCEPT ![d] = "get"]
             /\ spent' = [spent EXCEPT ![d] = m[k].payload]
    <3>1. m[k] # NoTicket
      BY <2>2 DEF Tickets!Claim, Tickets!Claimable
    <3>2. m[k].payload \in Payload
      BY <3>1 DEF FlowRest, Tickets!TypeOK, Tickets!Ticket
    <3>3. DownloadRanges'
      BY <1>0, <1>2, <2>2, <3>2 DEF ClaimTicket, DownloadRanges
    <3>4. Claims(d) /\ \A e \in Downloads : e # d => LeftAlone(e)
      BY <1>0, <1>2, <2>2, <3>1 DEF ClaimTicket, DownloadRanges, Claims, LeftAlone
    <3>5. UNCHANGED <<sessions, issued>>
      BY <1>2 DEF ClaimTicket, vars
    <3> QED BY <3>3, <3>4, <3>5
  <2> QED BY <1>2, <2>1, <2>2 DEF ClaimTicket
<1>3. ASSUME NEW d \in Downloads, Finish(d), UNCHANGED vars PROVE Goal
  <2>1. DownloadRanges' /\ Ends(d) /\ \A e \in Downloads : e # d => LeftAlone(e)
    BY <1>0, <1>3 DEF Finish, DownloadRanges, Ends, LeftAlone
  <2>2. UNCHANGED <<sessions, issued>>
    BY <1>3 DEF vars
  <2> QED BY <2>1, <2>2
<1>4. ASSUME NEW d \in Downloads, LookUpIssuer(d) PROVE Goal
  <2>1. CASE Finish(d)
    BY <1>3, <1>4, <2>1 DEF LookUpIssuer
  <2>2. CASE /\ Has(spent[d].id)
             /\ dpc' = [dpc EXCEPT ![d] = "find"]
             /\ dheld' = [dheld EXCEPT ![d] = sessions[spent[d].id].client]
             /\ UNCHANGED spent
    <3>1. dpc[d] = "get" /\ UNCHANGED <<sessions, issued>>
      BY <1>4 DEF LookUpIssuer, vars
    <3>2. spent[d] \in Payload
      BY <3>1 DEF FlowRest
    <3>3. sessions[spent[d].id].client \in Clients
      BY <2>2, <3>2, LookUp DEF Payload
    <3>4. DownloadRanges'
      BY <1>0, <2>2, <3>3 DEF DownloadRanges
    <3>5. Finds(d) /\ \A e \in Downloads : e # d => LeftAlone(e)
      BY <1>0, <2>2, <3>1 DEF DownloadRanges, Finds, LeftAlone
    <3> QED BY <3>1, <3>4, <3>5
  <2> QED BY <1>4, <2>1, <2>2 DEF LookUpIssuer
<1>5. ASSUME NEW d \in Downloads, StreamExport(d) PROVE Goal
  BY <1>3, <1>5 DEF StreamExport
<1>6. ASSUME NEW r \in Requests, RequestTicket(r) PROVE UNCHANGED downloadVars
  BY <1>6 DEF RequestTicket
<1>7. CASE UNCHANGED flowVars
  BY <1>1, <1>7 DEF flowVars
<1> QED BY <1>1, <1>2, <1>4, <1>5, <1>6, <1>7 DEF FlowNext

LEMMA FlowRestStep ==
    ASSUME TypeOK, FlowRest, [FlowNext]_flowVars
    PROVE  FlowRest'
<1>1. Tickets!TypeOK'
  BY StoreSteps DEF FlowRest
<1>2. DownloadRanges'
  BY DownloadSteps
<1>3. ASSUME NEW d \in Downloads
      PROVE  /\ dpc'[d] = "idle" <=> spent'[d] = NoPayload
             /\ dpc'[d] = "find" <=> dheld'[d] # NoClient
  <2>0. /\ dpc[d] = "idle" <=> spent[d] = NoPayload
        /\ dpc[d] = "find" <=> dheld[d] # NoClient
        /\ dpc[d] \in {"idle", "get", "find"}
    BY DEF FlowRest
  <2>1. CASE Claims(d)
    <3>1. PICK k \in Tokens : /\ m[k] # NoTicket /\ dpc[d] = "idle"
                              /\ dpc'[d] = "get" /\ spent'[d] = m[k].payload
                              /\ dheld'[d] = dheld[d]
      BY <2>1 DEF Claims
    <3>2. m[k].payload \in Payload
      BY <3>1 DEF FlowRest, Tickets!TypeOK, Tickets!Ticket
    <3> QED BY <2>0, <3>1, <3>2, FlowAssumption
  <2>2. CASE Finds(d)
    <3>1. spent[d] \in Payload
      BY <2>0, <2>2 DEF Finds, FlowRest
    <3>2. sessions[spent[d].id].client \in Clients
      BY <2>2, <3>1, LookUp DEF Finds, Payload
    <3> QED BY <2>0, <2>2, <3>1, <3>2, FlowAssumption, SessionsAssumption DEF Finds
  <2>3. CASE Ends(d)
    BY <2>3 DEF Ends
  <2>4. CASE LeftAlone(d)
    BY <2>0, <2>4 DEF LeftAlone
  <2> QED BY <2>1, <2>2, <2>3, <2>4, DownloadSteps
<1> QED BY <1>1, <1>2, <1>3 DEF FlowRest, DownloadRanges

\* The composition keeps its types (handlers_export.go:77-104).
THEOREM FlowTypeCorrect == FlowSpec => []FlowTypeOK
<1>1. FlowInit => FlowRest
  BY FlowAssumption DEF FlowInit, FlowRest, Tickets!Init, Tickets!TypeOK, Tickets!Answers
<1>2. TypeOK /\ FlowRest /\ [FlowNext]_flowVars => FlowRest'
  BY FlowRestStep
<1>3. TypeOK /\ FlowRest => FlowTypeOK
  BY DEF FlowRest, FlowTypeOK
<1>4. FlowSpec => []TypeOK
  BY FlowImplementsSessions, TypeCorrect, PTL
<1> QED BY <1>1, <1>2, <1>3, <1>4, PTL DEF FlowSpec
-----------------------------------------------------------------------------
(***************************************************************************)
(* What an export reads                                                    *)
(***************************************************************************)

TicketLeads(t) == LeadsTo(t.id, t.issuer)

\* A ticket in the store, and one that was claimed, names an ID that leads to
\* its issuer, and a download that was let through has that client.
TicketsLead ==
    /\ \A k \in Tokens : m[k] # NoTicket => TicketLeads(m[k].payload)
    /\ \A d \in Downloads : dpc[d] # "idle" => TicketLeads(spent[d])
    /\ \A d \in Downloads : dpc[d] = "find" => dheld[d] = spent[d].issuer

\* The same of a ticket, in terms of the state after the step.
LEMMA TicketsLast ==
    ASSUME SessionsMode, TypeOK, [Next]_vars, NEW t \in Payload, TicketLeads(t)
    PROVE  t.id \in issued' /\ (sessions'[t.id] # NoEntry => sessions'[t.id].client = t.issuer)
BY LeadingLasts DEF TicketLeads, LeadsTo, Has, Payload

LEMMA TicketsLeadStep ==
    ASSUME SessionsMode, TypeOK, FlowRest, SessionsLead, TicketsLead, [FlowNext]_flowVars
    PROVE  TicketsLead'
<1>0. [Next]_vars
  BY FlowStepsAreSessionSteps
<1>1. ASSUME NEW k \in Tokens, m[k] # NoTicket
      PROVE  m[k].payload \in Payload /\ TicketLeads(m[k].payload)
  BY <1>1 DEF FlowRest, Tickets!TypeOK, Tickets!Ticket, TicketsLead
<1>2. ASSUME NEW k \in Tokens, m'[k] # NoTicket PROVE TicketLeads(m[k].payload)'
  <2>1. CASE m'[k] = m[k]
    BY <1>0, <1>1, <1>2, <2>1, TicketsLast DEF TicketLeads, LeadsTo, Has
  <2>2. ASSUME NEW r \in Requests, pc[r] = "run",
               m'[k].payload = [id |-> sid[r], issuer |-> held[r]],
               UNCHANGED <<sessions, issued>>
        PROVE  TicketLeads(m[k].payload)'
    <3>1. LeadsTo(sid[r], held[r])
      BY <2>2 DEF SessionsLead
    <3> QED BY <2>2, <3>1 DEF TicketLeads, LeadsTo, Has
  <2> QED BY <1>2, <2>1, <2>2, StoreSteps DEF FlowRest
<1>3. ASSUME NEW d \in Downloads
      PROVE  /\ dpc'[d] # "idle" => TicketLeads(spent[d])'
             /\ dpc'[d] = "find" => dheld'[d] = spent'[d].issuer
  <2>1. CASE Claims(d)
    <3>1. PICK k \in Tokens : m[k] # NoTicket /\ dpc'[d] = "get" /\ spent'[d] = m[k].payload
      BY <2>1 DEF Claims
    <3>2. UNCHANGED <<sessions, issued>>
      BY <2>1, DownloadSteps
    <3> QED BY <1>1, <3>1, <3>2 DEF TicketLeads, LeadsTo, Has
  <2>2. CASE Finds(d)
    <3>1. TicketLeads(spent[d]) /\ UNCHANGED <<sessions, issued>>
      BY <2>2, DownloadSteps DEF Finds, TicketsLead
    <3> QED BY <2>2, <3>1 DEF Finds, TicketLeads, LeadsTo, Has
  <2>3. CASE Ends(d)
    BY <2>3 DEF Ends
  <2>4. CASE LeftAlone(d)
    <3>1. CASE dpc[d] # "idle"
      <4>1. spent[d] \in Payload /\ TicketLeads(spent[d])
        BY <3>1 DEF FlowRest, TicketsLead
      <4> QED BY <1>0, <2>4, <4>1, TicketsLast DEF LeftAlone, TicketsLead, TicketLeads, LeadsTo, Has
    <3>2. CASE dpc[d] = "idle"
      BY <2>4, <3>2 DEF LeftAlone
    <3> QED BY <3>1, <3>2
  <2> QED BY <2>1, <2>2, <2>3, <2>4, DownloadSteps
<1> QED BY <1>2, <1>3 DEF TicketsLead

\* With --sessions a ticket only ever exports from the connection it was issued
\* on, however long after a disconnect and whatever was connected since
\* (handlers_export.go:84-85).
THEOREM ExportsAreFromIssuer == FlowSpec => []ExportsFromIssuer
<1>1. CASE SessionsMode
  <2>1. FlowInit => SessionsLead /\ TicketsLead
    BY <1>1 DEF FlowInit, Init, NewRegistry, Has, SessionsLead, TicketsLead, Tickets!Init
  <2>2. FlowTypeOK /\ SessionsLead /\ TicketsLead /\ [FlowNext]_flowVars
          => SessionsLead' /\ TicketsLead'
    BY <1>1, FlowStepsAreSessionSteps, SessionsLeadStep, TicketsLeadStep DEF FlowTypeOK, FlowRest
  <2>3. TicketsLead => ExportsFromIssuer
    BY DEF TicketsLead, ExportsFromIssuer
  <2> QED BY <2>1, <2>2, <2>3, FlowTypeCorrect, PTL DEF FlowSpec
<1>2. CASE ~SessionsMode
  <2>1. ExportsFromIssuer
    BY <1>2 DEF ExportsFromIssuer
  <2> QED BY <2>1, PTL
<1> QED BY <1>1, <1>2
=============================================================================
