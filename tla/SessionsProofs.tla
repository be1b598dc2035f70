--------------------------- MODULE SessionsProofs ---------------------------
(***************************************************************************)
(* Proofs about Sessions, for any number of requests, clients and session  *)
(* IDs.  The argument follows a client through its life: nobody else knows *)
(* a client that was dialled and not registered, Put is the only step that *)
(* registers one and gives it its mode, and a client that left the         *)
(* registry can never come back because it already has a mode.             *)
(***************************************************************************)
EXTENDS MCServers, TLAPS

(* The conjuncts of the inductive invariant, beside TypeOK. *)

\* An entry leads to an open client registered with the entry's own flag.
EntryMatchesClient ==
    \A id \in Ids : Has(id) =>
        /\ conn[sessions[id].client] = "open"
        /\ mode[sessions[id].client] = Mode(sessions[id].readonly)

\* Only a dialled client has a mode.
ModeNeedsDial == \A c \in Clients : conn[c] = "unused" => mode[c] = "none"

\* What a connect is about to register is open and was never registered.
DialledIsNew ==
    \A r \in Requests : pc[r] = "put" =>
        conn[held[r]] = "open" /\ mode[held[r]] = "none"

\* What a disconnect is about to close is open and was registered once.
RemovedIsOpen ==
    \A r \in Requests : pc[r] = "close" =>
        conn[held[r]] = "open" /\ mode[held[r]] # "none"

\* What a scoped request uses was registered, and if it still is, then under
\* the ID the request asked for.
UsedIsItsSession ==
    \A r \in Requests : pc[r] \in {"info", "run"} =>
        /\ mode[held[r]] # "none"
        /\ \A id \in Ids :
              Has(id) /\ sessions[id].client = held[r] => id = sid[r]

IInv ==
    /\ TypeOK
    /\ EntryMatchesClient
    /\ ModeNeedsDial
    /\ DialledIsNew
    /\ RemovedIsOpen
    /\ UsedIsItsSession
    /\ SingleOwner
    /\ ReadonlyWhileRegistered
-----------------------------------------------------------------------------
(* Type correctness *)

LEMMA TypeInit == Init => TypeOK
BY RegistryAssumption, SessionsAssumption
   DEF Init, TypeOK, RequestTypeOK, RegistryTypeOK, Entry, NewRegistry, Mode,
       Points, Holding

\* Where the registry has an entry, it leads to one of the clients.
LEMMA LookUp ==
    ASSUME TypeOK, NEW id \in Ids, Has(id)
    PROVE  /\ sessions[id].client \in Clients
           /\ sessions[id].readonly \in BOOLEAN
BY DEF TypeOK, RegistryTypeOK, Entry, Has

LEMMA RespondType ==
    ASSUME RequestTypeOK, NEW r \in Requests, Respond(r)
    PROVE  RequestTypeOK'
BY RegistryAssumption DEF RequestTypeOK, Respond, Points, Holding

LEMMA ProceedType ==
    ASSUME RequestTypeOK, NEW r \in Requests,
           NEW point \in Holding, NEW c \in Clients, Proceed(r, point, c)
    PROVE  RequestTypeOK'
BY SessionsAssumption DEF RequestTypeOK, Proceed, Points, Holding

\* A request at a holding point has a client in hand.
LEMMA InHand ==
    ASSUME TypeOK, NEW r \in Requests, pc[r] \in Holding
    PROVE  held[r] \in Clients
BY DEF TypeOK, RequestTypeOK

LEMMA TypeNext == TypeOK /\ [Next]_vars => TypeOK'
<1> SUFFICES ASSUME TypeOK, [Next]_vars PROVE TypeOK'
  OBVIOUS
<1> USE DEF TypeOK
<1>1. ASSUME NEW r \in Requests, NEW b \in BOOLEAN, ConnectArrives(r, b)
      PROVE TypeOK'
  BY <1>1 DEF ConnectArrives, RequestTypeOK, RegistryTypeOK, Points, Holding
<1>2. ASSUME NEW r \in Requests, NEW m \in {"read", "write"}, NEW id \in Ids,
             ScopedArrives(r, m, id)
      PROVE TypeOK'
  BY <1>2 DEF ScopedArrives, RequestTypeOK, RegistryTypeOK, Points, Holding
<1>3. ASSUME NEW r \in Requests, NEW id \in Ids, DisconnectArrives(r, id)
      PROVE TypeOK'
  BY <1>3 DEF DisconnectArrives, RequestTypeOK, RegistryTypeOK, Points, Holding
<1>4. ASSUME NEW r \in Requests, NEW c \in Clients, DialSucceeds(r, c)
      PROVE TypeOK'
  BY <1>4, ProceedType DEF DialSucceeds, RegistryTypeOK, Holding
<1>5. ASSUME NEW r \in Requests, DialFails(r) PROVE TypeOK'
  BY <1>5, RespondType DEF DialFails, RegistryTypeOK
<1>6. ASSUME NEW r \in Requests, NEW id \in Ids, RegisterConnection(r, id)
      PROVE TypeOK'
  <2>1. held[r] \in Clients /\ ForcedReadonly(r) \in BOOLEAN
    BY <1>6, InHand DEF RegisterConnection, ForcedReadonly, Holding
  <2>2. RegistryTypeOK'
    BY <1>6, <2>1 DEF RegisterConnection, Put, RegistryTypeOK, Entry
  <2>3. QED
    BY <1>6, <2>2, RespondType DEF RegisterConnection, Mode
<1>7. ASSUME NEW r \in Requests, LookUpClient(r) PROVE TypeOK'
  <2>1. RequestTypeOK'
    <3>1. CASE Has(sid[r]) /\ Proceed(r, "info", sessions[sid[r]].client)
      BY <3>1, LookUp, ProceedType DEF RequestTypeOK, Holding
    <3>2. CASE Respond(r)
      BY <3>2, RespondType
    <3>3. QED
      BY <1>7, <3>1, <3>2 DEF LookUpClient
  <2>2. QED
    BY <1>7, <2>1 DEF LookUpClient, RegistryTypeOK
<1>8. ASSUME NEW r \in Requests, CheckReadonly(r) PROVE TypeOK'
  <2>1. held[r] \in Clients
    BY <1>8, InHand DEF CheckReadonly, Holding
  <2>2. RequestTypeOK'
    BY <1>8, <2>1, ProceedType, RespondType DEF CheckReadonly, Holding
  <2>3. QED
    BY <1>8, <2>2 DEF CheckReadonly, RegistryTypeOK
<1>9. ASSUME NEW r \in Requests, RunHandler(r) PROVE TypeOK'
  <2>1. held[r] \in Clients
    BY <1>9, InHand DEF RunHandler, Holding
  <2>2. QED
    BY <1>9, <2>1, RespondType DEF RunHandler, RegistryTypeOK
<1>10. ASSUME NEW r \in Requests, RemoveEntry(r) PROVE TypeOK'
  <2>1. RequestTypeOK'
    <3>1. CASE Has(sid[r]) /\ Proceed(r, "close", sessions[sid[r]].client)
      BY <3>1, LookUp, ProceedType DEF RequestTypeOK, Holding
    <3>2. CASE Respond(r)
      BY <3>2, RespondType
    <3>3. QED
      BY <1>10, <3>1, <3>2 DEF RemoveEntry
  <2>2. RegistryTypeOK'
    BY <1>10 DEF RemoveEntry, Delete, RegistryTypeOK
  <2>3. QED
    BY <1>10, <2>1, <2>2 DEF RemoveEntry
<1>11. ASSUME NEW r \in Requests, CloseClient(r) PROVE TypeOK'
  BY <1>11, RespondType DEF CloseClient, RegistryTypeOK
<1>12. CASE UNCHANGED vars
  BY <1>12 DEF vars, requestVars, RequestTypeOK, RegistryTypeOK
<1>13. QED
  BY <1>1, <1>2, <1>3, <1>4, <1>5, <1>6, <1>7, <1>8, <1>9, <1>10, <1>11, <1>12
     DEF Next, Arrives, Serve

\* Every variable keeps its type, and a request holds a client exactly
\* between the step that obtains one and its response.
THEOREM TypeCorrect == Spec => []TypeOK
BY TypeInit, TypeNext, PTL DEF Spec
-----------------------------------------------------------------------------
(* The inductive invariant *)

LEMMA InvInit == Init => IInv
<1> SUFFICES ASSUME Init PROVE IInv
  OBVIOUS
<1>1. TypeOK
  BY TypeInit
<1>2. EntryMatchesClient /\ ModeNeedsDial
  BY RegistryAssumption
     DEF Init, EntryMatchesClient, ModeNeedsDial, Has, NewRegistry, Mode
<1>3. DialledIsNew /\ RemovedIsOpen /\ UsedIsItsSession /\ ReadonlyWhileRegistered
  BY DEF Init, DialledIsNew, RemovedIsOpen, UsedIsItsSession,
         ReadonlyWhileRegistered
<1>4. SingleOwner
  BY RegistryAssumption DEF Init, SingleOwner, Owns, Has, NewRegistry
<1>5. QED
  BY <1>1, <1>2, <1>3, <1>4 DEF IInv

\* A step that leaves the registry and the clients alone and only makes a
\* request respond keeps the invariant: the request gives up what it held.
LEMMA InvRespond ==
    ASSUME IInv, NEW r \in Requests, Respond(r), TypeOK',
           UNCHANGED <<sessions, conn, mode>>
    PROVE  IInv'
<1>1. \A q \in Requests : q # r => /\ pc'[q] = pc[q] /\ held'[q] = held[q]
                                  /\ op'[q] = op[q] /\ sid'[q] = sid[q]
  BY DEF Respond, IInv, TypeOK, RequestTypeOK
<1>2. pc'[r] = "idle"
  BY DEF Respond, IInv, TypeOK, RequestTypeOK
<1>3. EntryMatchesClient' /\ ModeNeedsDial'
  BY DEF IInv, EntryMatchesClient, ModeNeedsDial, Has
<1>4. DialledIsNew' /\ RemovedIsOpen'
  BY <1>1, <1>2 DEF IInv, DialledIsNew, RemovedIsOpen
<1>5. UsedIsItsSession'
  BY <1>1, <1>2 DEF IInv, UsedIsItsSession, Has
<1>6. SingleOwner'
  BY <1>1, <1>2 DEF IInv, SingleOwner, Owns, Has, Registered
<1>7. ReadonlyWhileRegistered'
  BY <1>1, <1>2 DEF IInv, ReadonlyWhileRegistered, Has, Registered
<1>8. QED
  BY <1>3, <1>4, <1>5, <1>6, <1>7 DEF IInv

\* The same for a request that arrives: it holds nothing yet.
LEMMA InvArrive ==
    ASSUME IInv, TypeOK', NEW r \in Requests, NEW point \in {"dial", "get", "delete"},
           pc[r] = "idle", pc' = [pc EXCEPT ![r] = point],
           \A q \in Requests : q # r => op'[q] = op[q] /\ sid'[q] = sid[q],
           UNCHANGED <<sessions, conn, mode, held>>
    PROVE  IInv'
<1>1. \A q \in Requests : q # r => pc'[q] = pc[q]
  BY DEF IInv, TypeOK, RequestTypeOK
<1>2. pc'[r] = point
  BY DEF IInv, TypeOK, RequestTypeOK
<1>3. EntryMatchesClient' /\ ModeNeedsDial'
  BY DEF IInv, EntryMatchesClient, ModeNeedsDial, Has
<1>4. DialledIsNew' /\ RemovedIsOpen'
  BY <1>1, <1>2 DEF IInv, DialledIsNew, RemovedIsOpen
<1>5. UsedIsItsSession'
  BY <1>1, <1>2 DEF IInv, UsedIsItsSession, Has
<1>6. SingleOwner'
  BY <1>1, <1>2 DEF IInv, SingleOwner, Owns, Has, Registered
<1>7. ReadonlyWhileRegistered'
  BY <1>1, <1>2 DEF IInv, ReadonlyWhileRegistered, Has, Registered
<1>8. QED
  BY <1>3, <1>4, <1>5, <1>6, <1>7 DEF IInv

\* What Proceed leaves of the other requests, and what it makes of its own.
LEMMA ProceedStep ==
    ASSUME RequestTypeOK, NEW r \in Requests, NEW point, NEW c,
           Proceed(r, point, c)
    PROVE  /\ \A q \in Requests : q # r => pc'[q] = pc[q] /\ held'[q] = held[q]
           /\ pc'[r] = point /\ held'[r] = c
           /\ op' = op /\ sid' = sid
BY DEF Proceed, RequestTypeOK

LEMMA InvDial ==
    ASSUME IInv, TypeOK', NEW r \in Requests, NEW c \in Clients, DialSucceeds(r, c)
    PROVE  IInv'
<1> USE ProceedStep DEF IInv, DialSucceeds, TypeOK
<1>1. conn[c] = "unused" /\ mode[c] = "none"
  BY DEF ModeNeedsDial
<1>2. conn'[c] = "open" /\ \A d \in Clients : d # c => conn'[d] = conn[d]
  OBVIOUS
<1>3. ~Registered(c)
  BY <1>1 DEF Registered, EntryMatchesClient
<1>4. EntryMatchesClient'
  BY <1>1, <1>2, LookUp DEF EntryMatchesClient, Has
<1>5. ModeNeedsDial'
  BY <1>2 DEF ModeNeedsDial
<1>6. \A q \in Requests : q # r /\ pc[q] \in {"put", "close"} => held[q] # c
  BY <1>1 DEF DialledIsNew, RemovedIsOpen
<1>7. DialledIsNew' /\ RemovedIsOpen'
  BY <1>1, <1>2, InHand DEF DialledIsNew, RemovedIsOpen, Holding
<1>8. UsedIsItsSession'
  BY DEF UsedIsItsSession, Has
<1>9. SingleOwner'
  BY <1>3, <1>6 DEF SingleOwner, Owns, Has, Registered
<1>10. ReadonlyWhileRegistered'
  BY DEF ReadonlyWhileRegistered, Has, Registered
<1>11. QED
  BY <1>4, <1>5, <1>7, <1>8, <1>9, <1>10

\* The registering step gives a client that nobody else knows its only entry.
LEMMA InvRegister ==
    ASSUME IInv, TypeOK', NEW r \in Requests, NEW id \in Ids,
           RegisterConnection(r, id)
    PROVE  IInv'
<1> DEFINE c == held[r]
           ro == ForcedReadonly(r)
<1> USE DEF IInv, RegisterConnection, TypeOK
<1>1. c \in Clients /\ ro \in BOOLEAN /\ Owns(r, c)
  BY InHand DEF Holding, ForcedReadonly, Owns, RequestTypeOK
<1>2. conn[c] = "open" /\ mode[c] = "none"
  BY DEF DialledIsNew
<1>3. /\ \A q \in Requests : q # r => /\ pc'[q] = pc[q] /\ held'[q] = held[q]
                                     /\ op'[q] = op[q] /\ sid'[q] = sid[q]
      /\ pc'[r] = "idle"
  BY DEF Respond, RequestTypeOK
<1>4. /\ sessions'[id] = [client |-> c, readonly |-> ro]
      /\ \A i \in Ids : i # id => sessions'[i] = sessions[i]
      /\ sessions'[id] # NoEntry
  BY <1>1, RegistryAssumption DEF Put, RegistryTypeOK, Entry
<1>5. mode'[c] = Mode(ro) /\ \A d \in Clients : d # c => mode'[d] = mode[d]
  BY <1>1
<1>6. ~Registered(c)
  BY <1>1 DEF SingleOwner
<1>7. EntryMatchesClient'
  <2> SUFFICES ASSUME NEW i \in Ids, Has(i)'
               PROVE  /\ conn'[sessions'[i].client] = "open"
                      /\ mode'[sessions'[i].client] = Mode(sessions'[i].readonly)
    BY DEF EntryMatchesClient, Mode
  <2>1. CASE i = id
    BY <2>1, <1>2, <1>4, <1>5
  <2>2. CASE i # id
    <3>1. Has(i) /\ sessions'[i] = sessions[i] /\ sessions[i].client # c
      BY <2>2, <1>4, <1>6 DEF Has, Registered
    <3>2. QED
      BY <3>1, <1>5, LookUp DEF EntryMatchesClient
  <2>3. QED
    BY <2>1, <2>2
<1>8. ModeNeedsDial'
  BY <1>2, <1>5 DEF ModeNeedsDial
<1>9. \A q \in Requests : q # r /\ pc[q] \in {"put", "close"} => held[q] # c
  BY <1>1 DEF SingleOwner, Owns
<1>10. \A q \in Requests : pc[q] \in {"info", "run", "close"} => held[q] # c
  BY <1>2 DEF UsedIsItsSession, RemovedIsOpen
<1>11. DialledIsNew' /\ RemovedIsOpen'
  BY <1>3, <1>5, <1>9, InHand DEF DialledIsNew, RemovedIsOpen, Holding
<1>12. \A i \in Ids, d \in Clients : d # c /\ Has(i)' /\ sessions'[i].client = d
           => Has(i) /\ sessions[i].client = d
  BY <1>4 DEF Has
<1>13. \A d \in Clients : d # c /\ Registered(d)' => Registered(d)
  BY <1>12 DEF Registered
<1>14. UsedIsItsSession'
  BY <1>3, <1>5, <1>10, <1>12, InHand DEF UsedIsItsSession, Holding
<1>15. SingleOwner'
  <2>1. \A q \in Requests, d \in Clients : Owns(q, d)' => Owns(q, d) /\ d # c
    BY <1>3, <1>9 DEF Owns
  <2>2. \A i, j \in Ids : Has(i)' /\ Has(j)' /\ sessions'[i].client = sessions'[j].client
            => i = j
    <3> SUFFICES ASSUME NEW i \in Ids, NEW j \in Ids, Has(i)', Has(j)',
                        sessions'[i].client = sessions'[j].client
                 PROVE  i = j
      OBVIOUS
    <3>1. \A k \in Ids : Has(k)' /\ k # id => Has(k) /\ sessions'[k] = sessions[k]
                                            /\ sessions'[k].client # c
      BY <1>4, <1>6 DEF Has, Registered
    <3>2. sessions'[id].client = c
      BY <1>4
    <3>3. QED
      BY <3>1, <3>2 DEF SingleOwner
  <2>3. QED
    BY <2>1, <2>2, <1>13 DEF SingleOwner
<1>16. ReadonlyWhileRegistered'
  BY <1>3, <1>5, <1>10, <1>13, InHand DEF ReadonlyWhileRegistered, Holding
<1>17. QED
  BY <1>7, <1>8, <1>11, <1>14, <1>15, <1>16

LEMMA InvLookUp ==
    ASSUME IInv, TypeOK', NEW r \in Requests, LookUpClient(r)
    PROVE  IInv'
<1> USE DEF IInv, LookUpClient, TypeOK
<1>1. CASE Respond(r)
  BY <1>1, InvRespond
<1>2. CASE Has(sid[r]) /\ Proceed(r, "info", sessions[sid[r]].client)
  <2> DEFINE c == sessions[sid[r]].client
  <2> USE <1>2
  <2>1. sid[r] \in Ids /\ c \in Clients
    BY LookUp DEF RequestTypeOK
  <2>2. mode[c] # "none"
    BY <2>1, LookUp DEF EntryMatchesClient, Mode
  <2>3. \A id \in Ids : Has(id) /\ sessions[id].client = c => id = sid[r]
    BY <2>1 DEF SingleOwner
  <2>4. /\ \A q \in Requests : q # r => pc'[q] = pc[q] /\ held'[q] = held[q]
        /\ pc'[r] = "info" /\ held'[r] = c /\ op' = op /\ sid' = sid
    BY ProceedStep
  <2>5. EntryMatchesClient' /\ ModeNeedsDial' /\ DialledIsNew' /\ RemovedIsOpen'
    BY <2>4 DEF EntryMatchesClient, ModeNeedsDial, DialledIsNew, RemovedIsOpen, Has
  <2>6. UsedIsItsSession'
    BY <2>2, <2>3, <2>4 DEF UsedIsItsSession, Has
  <2>7. SingleOwner' /\ ReadonlyWhileRegistered'
    BY <2>4 DEF SingleOwner, ReadonlyWhileRegistered, Owns, Has, Registered
  <2>8. QED
    BY <2>5, <2>6, <2>7
<1>3. QED
  BY <1>1, <1>2

\* A write passes the read-only check of the entry it asked for.  If its
\* client is registered at all it is that entry's, which is not read-only.
LEMMA InvCheck ==
    ASSUME IInv, TypeOK', NEW r \in Requests, CheckReadonly(r)
    PROVE  IInv'
<1> USE DEF IInv, CheckReadonly, TypeOK
<1>1. CASE Respond(r)
  BY <1>1, InvRespond
<1>2. CASE ~RefusedReadonly(r) /\ Proceed(r, "run", held[r])
  <2> USE <1>2
  <2>1. /\ \A q \in Requests : q # r => pc'[q] = pc[q]
        /\ pc'[r] = "run" /\ held' = held /\ op' = op /\ sid' = sid
    BY ProceedStep DEF Proceed, RequestTypeOK
  <2>2. EntryMatchesClient' /\ ModeNeedsDial' /\ DialledIsNew' /\ RemovedIsOpen'
    BY <2>1 DEF EntryMatchesClient, ModeNeedsDial, DialledIsNew, RemovedIsOpen, Has
  <2>3. UsedIsItsSession' /\ SingleOwner'
    BY <2>1 DEF UsedIsItsSession, SingleOwner, Owns, Has, Registered
  <2>4. op[r] = "write" /\ mode[held[r]] = "ro" => ~Registered(held[r])
    <3> SUFFICES ASSUME op[r] = "write", mode[held[r]] = "ro",
                        NEW id \in Ids, Has(id), sessions[id].client = held[r]
                 PROVE  FALSE
      BY DEF Registered
    <3>1. id = sid[r]
      BY DEF UsedIsItsSession
    <3>2. ~sessions[id].readonly
      BY <3>1 DEF RefusedReadonly
    <3>3. QED
      BY <3>2 DEF EntryMatchesClient, Mode
  <2>5. ReadonlyWhileRegistered'
    BY <2>1, <2>4 DEF ReadonlyWhileRegistered, Has, Registered
  <2>6. QED
    BY <2>2, <2>3, <2>5
<1>3. QED
  BY <1>1, <1>2

LEMMA InvRemove ==
    ASSUME IInv, TypeOK', NEW r \in Requests, RemoveEntry(r)
    PROVE  IInv'
<1> USE DEF IInv, RemoveEntry, TypeOK
<1>1. sid[r] \in Ids
  BY DEF RequestTypeOK
<1>2. sessions'[sid[r]] = NoEntry
      /\ \A i \in Ids : i # sid[r] => sessions'[i] = sessions[i]
  BY <1>1 DEF Delete, RegistryTypeOK
<1>3. CASE ~Has(sid[r]) /\ Respond(r)
  <2>1. sessions' = sessions
    BY <1>1, <1>3 DEF Has, Delete, RegistryTypeOK
  <2>2. QED
    BY <1>3, <2>1, InvRespond
<1>4. CASE Has(sid[r]) /\ Proceed(r, "close", sessions[sid[r]].client)
  <2> DEFINE c == sessions[sid[r]].client
  <2> USE <1>4
  <2>1. c \in Clients /\ conn[c] = "open" /\ mode[c] # "none" /\ Registered(c)
    BY <1>1, LookUp DEF EntryMatchesClient, Mode, Registered
  <2>2. /\ \A q \in Requests : q # r => pc'[q] = pc[q] /\ held'[q] = held[q]
        /\ pc'[r] = "close" /\ held'[r] = c /\ op' = op /\ sid' = sid
    BY ProceedStep
  <2>3. \A i \in Ids : Has(i)' => /\ Has(i) /\ i # sid[r]
                                  /\ sessions'[i] = sessions[i]
                                  /\ sessions[i].client # c
    BY <1>1, <1>2 DEF Has, SingleOwner
  <2>4. \A d \in Clients : Registered(d)' => Registered(d) /\ d # c
    BY <2>3 DEF Registered
  <2>5. EntryMatchesClient' /\ ModeNeedsDial'
    BY <2>3 DEF EntryMatchesClient, ModeNeedsDial
  <2>6. DialledIsNew' /\ RemovedIsOpen'
    BY <2>1, <2>2 DEF DialledIsNew, RemovedIsOpen
  <2>7. UsedIsItsSession'
    BY <2>2, <2>3 DEF UsedIsItsSession
  <2>8. SingleOwner'
    <3>1. \A q \in Requests, d \in Clients :
              Owns(q, d)' => (q = r /\ d = c) \/ (q # r /\ Owns(q, d) /\ d # c)
      BY <2>1, <2>2 DEF Owns, SingleOwner
    <3>2. \A i, j \in Ids : Has(i)' /\ Has(j)' /\ sessions'[i].client = sessions'[j].client
              => i = j
      BY <2>3 DEF SingleOwner
    <3>3. QED
      BY <3>1, <3>2, <2>4 DEF SingleOwner
  <2>9. ReadonlyWhileRegistered'
    BY <2>2, <2>4, InHand DEF ReadonlyWhileRegistered, Holding
  <2>10. QED
    BY <2>5, <2>6, <2>7, <2>8, <2>9
<1>5. QED
  BY <1>3, <1>4

LEMMA InvClose ==
    ASSUME IInv, TypeOK', NEW r \in Requests, CloseClient(r)
    PROVE  IInv'
<1> DEFINE c == held[r]
<1> USE DEF IInv, CloseClient, TypeOK
<1>1. c \in Clients /\ Owns(r, c) /\ mode[c] # "none"
  BY InHand DEF Holding, Owns, RemovedIsOpen
<1>2. /\ \A q \in Requests : q # r => /\ pc'[q] = pc[q] /\ held'[q] = held[q]
                                     /\ op'[q] = op[q] /\ sid'[q] = sid[q]
      /\ pc'[r] = "idle"
  BY DEF Respond, RequestTypeOK
<1>3. conn'[c] = "closed" /\ \A d \in Clients : d # c => conn'[d] = conn[d]
  BY <1>1
<1>4. ~Registered(c)
  BY <1>1 DEF SingleOwner
<1>5. EntryMatchesClient'
  BY <1>3, <1>4, LookUp DEF EntryMatchesClient, Has, Registered
<1>6. ModeNeedsDial'
  BY <1>3 DEF ModeNeedsDial
<1>7. \A q \in Requests : q # r /\ pc[q] \in {"put", "close"} => held[q] # c
  BY <1>1 DEF SingleOwner, Owns
<1>8. DialledIsNew' /\ RemovedIsOpen'
  BY <1>2, <1>3, <1>7, InHand DEF DialledIsNew, RemovedIsOpen, Holding
<1>9. UsedIsItsSession' /\ ReadonlyWhileRegistered'
  BY <1>2 DEF UsedIsItsSession, ReadonlyWhileRegistered, Has, Registered
<1>10. SingleOwner'
  BY <1>2 DEF SingleOwner, Owns, Has, Registered
<1>11. QED
  BY <1>5, <1>6, <1>8, <1>9, <1>10

LEMMA InvNext == IInv /\ [Next]_vars => IInv'
<1> SUFFICES ASSUME IInv, [Next]_vars PROVE IInv'
  OBVIOUS
<1>1. TypeOK'
  BY TypeNext DEF IInv
<1>2. ASSUME NEW r \in Requests, Arrives(r) PROVE IInv'
  <2>1. ASSUME NEW b \in BOOLEAN, ConnectArrives(r, b) PROVE IInv'
    BY <1>1, <2>1, InvArrive DEF ConnectArrives
  <2>2. ASSUME NEW m \in {"read", "write"}, NEW id \in Ids, ScopedArrives(r, m, id)
        PROVE  IInv'
    BY <1>1, <2>2, InvArrive DEF ScopedArrives, IInv, TypeOK, RequestTypeOK
  <2>3. ASSUME NEW id \in Ids, DisconnectArrives(r, id) PROVE IInv'
    BY <1>1, <2>3, InvArrive DEF DisconnectArrives, IInv, TypeOK, RequestTypeOK
  <2>4. QED
    BY <1>2, <2>1, <2>2, <2>3 DEF Arrives
<1>3. ASSUME NEW r \in Requests, Serve(r) PROVE IInv'
  <2>1. CASE DialFails(r)
    BY <1>1, <2>1, InvRespond DEF DialFails
  <2>2. CASE RunHandler(r)
    BY <1>1, <2>2, InvRespond DEF RunHandler
  <2>3. QED
    BY <1>1, <1>3, <2>1, <2>2, InvDial, InvRegister, InvLookUp, InvCheck,
       InvRemove, InvClose DEF Serve
<1>4. CASE UNCHANGED vars
  BY <1>1, <1>4
     DEF vars, requestVars, IInv, EntryMatchesClient, ModeNeedsDial, DialledIsNew,
         RemovedIsOpen, UsedIsItsSession, SingleOwner, ReadonlyWhileRegistered,
         Owns, Has, Registered
<1>5. QED
  BY <1>2, <1>3, <1>4 DEF Next

THEOREM Invariance == Spec => []IInv
BY InvInit, InvNext, PTL DEF Spec

\* A lookup in the registry never returns a client that was closed.
THEOREM RegisteredOpen == Spec => []RegisteredClientIsOpen
<1>1. IInv => RegisteredClientIsOpen
  BY DEF IInv, EntryMatchesClient, RegisteredClientIsOpen
<1>2. QED
  BY <1>1, Invariance, PTL

\* Each client is the responsibility of one session or one request, so no
\* client is closed twice or while a session leads to it.
THEOREM OneOwner == Spec => []SingleOwner
<1>1. IInv => SingleOwner
  BY DEF IInv
<1>2. QED
  BY <1>1, Invariance, PTL

\* However lookups, connects and disconnects interleave, a write that got
\* past withSession never runs on a read-only client that is still listed.
THEOREM ListedReadonlyNotWritten == Spec => []ReadonlyWhileRegistered
<1>1. IInv => ReadonlyWhileRegistered
  BY DEF IInv
<1>2. QED
  BY <1>1, Invariance, PTL
-----------------------------------------------------------------------------
(* What the two server modes add *)

\* Every session ID in use was handed out before, so a fresh one is free.
IssuedIds == \A id \in Ids : Has(id) => id \in issued

\* Under --readonly no request is ever a write.
OnlyReads == ServerReadonly => written = {} /\ \A r \in Requests : op[r] = "read"

ModeInv == IInv /\ IssuedIds /\ OnlyReads

LEMMA ModeInvariance == Spec => []ModeInv
<1>1. Init => IssuedIds /\ OnlyReads
  BY DEF Init, IssuedIds, OnlyReads, Has, NewRegistry
<1>2. ASSUME IInv, IssuedIds, [Next]_vars PROVE IssuedIds'
  <2>1. CASE UNCHANGED <<sessions, issued>>
    BY <1>2, <2>1 DEF IssuedIds, Has
  <2>2. ASSUME NEW r \in Requests, NEW id \in Ids, RegisterConnection(r, id)
        PROVE  IssuedIds'
    BY <1>2, <2>2 DEF RegisterConnection, Put, IssuedIds, Has, IInv, TypeOK, RegistryTypeOK
  <2>3. ASSUME NEW r \in Requests, RemoveEntry(r) PROVE IssuedIds'
    BY <1>2, <2>3
       DEF RemoveEntry, Delete, IssuedIds, Has, IInv, TypeOK, RegistryTypeOK, RequestTypeOK
  <2>4. QED
    BY <1>2, <2>1, <2>2, <2>3
       DEF Next, Arrives, Serve, vars, requestVars, ConnectArrives, ScopedArrives,
           DisconnectArrives, DialSucceeds, DialFails, LookUpClient, CheckReadonly,
           RunHandler, CloseClient
<1>3. ASSUME IInv, OnlyReads, [Next]_vars PROVE OnlyReads'
  <2> SUFFICES ASSUME ServerReadonly
               PROVE  written' = {} /\ \A r \in Requests : op'[r] = "read"
    BY DEF OnlyReads
  <2>1. op \in [Requests -> {"read", "write"}] /\ written = {}
        /\ \A r \in Requests : op[r] = "read"
    BY <1>3 DEF IInv, TypeOK, RequestTypeOK, OnlyReads
  <2>2. CASE UNCHANGED <<op, written>>
    BY <2>1, <2>2
  <2>3. ASSUME NEW r \in Requests, Respond(r), UNCHANGED written
        PROVE  written' = {} /\ \A q \in Requests : op'[q] = "read"
    BY <2>1, <2>3 DEF Respond
  <2>4. ASSUME NEW r \in Requests, NEW m \in {"read", "write"}, NEW id \in Ids,
               ScopedArrives(r, m, id)
        PROVE  written' = {} /\ \A q \in Requests : op'[q] = "read"
    BY <2>1, <2>4 DEF ScopedArrives
  <2>5. ASSUME NEW r \in Requests, RunHandler(r)
        PROVE  UNCHANGED written /\ Respond(r)
    BY <2>1, <2>5 DEF RunHandler
  <2>6. QED
    BY <1>3, <2>2, <2>3, <2>4, <2>5
       DEF Next, Arrives, Serve, vars, requestVars, ConnectArrives,
           DisconnectArrives, DialSucceeds, DialFails, RegisterConnection,
           LookUpClient, CheckReadonly, RemoveEntry, CloseClient, Proceed
<1>4. ModeInv /\ [Next]_vars => ModeInv'
  BY <1>2, <1>3, InvNext DEF ModeInv
<1>5. QED
  BY <1>1, <1>4, InvInit, PTL DEF Spec, ModeInv

\* A --readonly server never writes through a client it registered read-only
\* (and under --readonly all are): the race that withSession leaves open needs
\* a write to be under way, and rejectWrites lets none start.
THEOREM ReadonlyServerSafe == ServerReadonly => (Spec => []ReadonlyNeverWritten)
<1> SUFFICES ASSUME ServerReadonly PROVE Spec => []ReadonlyNeverWritten
  OBVIOUS
<1>1. ModeInv => ReadonlyNeverWritten
  BY DEF ModeInv, OnlyReads, ReadonlyNeverWritten
<1>2. QED
  BY <1>1, ModeInvariance, PTL

LEMMA OwnedNext ==
    ASSUME SessionsMode, ModeInv, ModeInv', EveryOpenClientOwned, [Next]_vars
    PROVE  EveryOpenClientOwned'
<1> USE DEF ModeInv, IInv, TypeOK
<1> SUFFICES ASSUME NEW c \in Clients, conn'[c] = "open"
             PROVE  Registered(c)' \/ \E q \in Requests : Owns(q, c)'
  BY DEF EveryOpenClientOwned
\* A step at which every owner keeps what it owns.
<1>1. ASSUME conn'[c] = "open" => conn[c] = "open",
             Registered(c) => Registered(c)' \/ \E q \in Requests : Owns(q, c)',
             \A q \in Requests : Owns(q, c) =>
                 Registered(c)' \/ \E p \in Requests : Owns(p, c)'
      PROVE  Registered(c)' \/ \E q \in Requests : Owns(q, c)'
  BY <1>1 DEF EveryOpenClientOwned
<1>2. ASSUME NEW r \in Requests, UNCHANGED <<sessions, conn>>,
             pc[r] \notin {"put", "close"},
             \A q \in Requests : q # r => pc'[q] = pc[q] /\ held'[q] = held[q]
      PROVE  Registered(c)' \/ \E q \in Requests : Owns(q, c)'
  BY <1>1, <1>2 DEF Registered, Has, Owns
<1>3. ASSUME NEW r \in Requests, Arrives(r)
      PROVE  Registered(c)' \/ \E q \in Requests : Owns(q, c)'
  BY <1>2, <1>3
     DEF Arrives, ConnectArrives, ScopedArrives, DisconnectArrives, RequestTypeOK
<1>4. ASSUME NEW r \in Requests, DialFails(r) \/ LookUpClient(r) \/ CheckReadonly(r)
                                  \/ RunHandler(r)
      PROVE  Registered(c)' \/ \E q \in Requests : Owns(q, c)'
  BY <1>2, <1>4
     DEF DialFails, LookUpClient, CheckReadonly, RunHandler, Proceed, Respond,
         RequestTypeOK
<1>5. ASSUME NEW r \in Requests, NEW d \in Clients, DialSucceeds(r, d)
      PROVE  Registered(c)' \/ \E q \in Requests : Owns(q, c)'
  <2>1. /\ \A q \in Requests : q # r => pc'[q] = pc[q] /\ held'[q] = held[q]
        /\ pc'[r] = "put" /\ held'[r] = d /\ pc[r] = "dial"
    BY <1>5, ProceedStep DEF DialSucceeds
  <2>2. CASE c = d
    BY <2>1, <2>2 DEF Owns
  <2>3. CASE c # d
    BY <1>1, <1>5, <2>1, <2>3 DEF DialSucceeds, Registered, Has, Owns
  <2>4. QED
    BY <2>2, <2>3
\* The fresh ID had no entry, so no client loses its own.
<1>6. ASSUME NEW r \in Requests, NEW id \in Ids, RegisterConnection(r, id)
      PROVE  Registered(c)' \/ \E q \in Requests : Owns(q, c)'
  <2>1. ~Has(id)
    BY <1>6 DEF RegisterConnection, NewSessionIds, IssuedIds
  <2>2. /\ sessions'[id] = [client |-> held[r], readonly |-> ForcedReadonly(r)]
        /\ \A i \in Ids : i # id => sessions'[i] = sessions[i]
    BY <1>6 DEF RegisterConnection, Put, RegistryTypeOK
  <2>3. held[r] \in Clients /\ ForcedReadonly(r) \in BOOLEAN
    BY <1>6, InHand DEF RegisterConnection, ForcedReadonly, Holding, RequestTypeOK
  <2>4. c = held[r] => Registered(c)'
    BY <2>2, <2>3, RegistryAssumption DEF Registered, Has, Entry
  <2>5. Registered(c) => Registered(c)'
    BY <2>1, <2>2 DEF Registered, Has
  <2>6. \A q \in Requests : q # r => pc'[q] = pc[q] /\ held'[q] = held[q]
    BY <1>6 DEF RegisterConnection, Respond, RequestTypeOK
  <2>7. QED
    BY <1>1, <1>6, <2>4, <2>5, <2>6 DEF RegisterConnection, Owns
<1>7. ASSUME NEW r \in Requests, RemoveEntry(r)
      PROVE  Registered(c)' \/ \E q \in Requests : Owns(q, c)'
  <2>1. sid[r] \in Ids /\ \A i \in Ids : i # sid[r] => sessions'[i] = sessions[i]
    BY <1>7 DEF RemoveEntry, Delete, RegistryTypeOK, RequestTypeOK
  <2>2. \A q \in Requests : q # r => pc'[q] = pc[q] /\ held'[q] = held[q]
    BY <1>7 DEF RemoveEntry, Proceed, Respond, RequestTypeOK
  <2>3. Registered(c) => Registered(c)' \/ Owns(r, c)'
    <3>1. ASSUME Has(sid[r]), sessions[sid[r]].client = c
          PROVE  Owns(r, c)'
      BY <1>7, <3>1 DEF RemoveEntry, Proceed, Owns, RequestTypeOK
    <3>2. QED
      BY <2>1, <3>1 DEF Registered, Has
  <2>4. QED
    BY <1>1, <1>7, <2>2, <2>3 DEF RemoveEntry, Owns
<1>8. ASSUME NEW r \in Requests, CloseClient(r)
      PROVE  Registered(c)' \/ \E q \in Requests : Owns(q, c)'
  <2>1. \A q \in Requests : q # r => pc'[q] = pc[q] /\ held'[q] = held[q]
    BY <1>8 DEF CloseClient, Respond, RequestTypeOK
  <2>2. c # held[r]
    BY <1>8, InHand DEF CloseClient, Holding
  <2>3. QED
    BY <1>1, <1>8, <2>1, <2>2 DEF CloseClient, Registered, Has, Owns
<1>9. CASE UNCHANGED vars
  BY <1>1, <1>9 DEF vars, requestVars, Registered, Has, Owns
<1>10. QED
  BY <1>3, <1>4, <1>5, <1>6, <1>7, <1>8, <1>9 DEF Next, Serve

\* In --sessions mode no connected client is ever lost: a session leads to
\* it, or a request is about to register or close it.
THEOREM NoLeakInSessionsMode == SessionsMode => (Spec => []EveryOpenClientOwned)
<1> SUFFICES ASSUME SessionsMode PROVE Spec => []EveryOpenClientOwned
  OBVIOUS
<1>1. Init => EveryOpenClientOwned
  BY DEF Init, EveryOpenClientOwned
<1>2. ModeInv /\ ModeInv' /\ EveryOpenClientOwned /\ [Next]_vars
          => EveryOpenClientOwned'
  BY OwnedNext
<1>3. QED
  BY <1>1, <1>2, ModeInvariance, PTL DEF Spec
-----------------------------------------------------------------------------
(***************************************************************************)
(* Sessions implements ConnectionContract: initial states map to initial   *)
(* states and every step of a request is one step of one connection of the *)
(* contract, or none.                                                      *)
(***************************************************************************)
\* The value of each phase, now and after a step.
LEMMA PhaseIs ==
    ASSUME TypeOK, NEW c \in Clients
    PROVE  /\ conn[c] = "unused" => Phase(c) = "unused"
           /\ conn[c] = "closed" => Phase(c) = "closed"
           /\ conn[c] = "open" /\ mode[c] = "none" => Phase(c) = "dialled"
           /\ conn[c] = "open" /\ mode[c] # "none" /\ Registered(c)
                  => Phase(c) = "listed"
           /\ conn[c] = "open" /\ mode[c] # "none" /\ ~Registered(c)
                  => Phase(c) = "detached"
BY DEF Phase, TypeOK

LEMMA PhaseWillBe ==
    ASSUME TypeOK', NEW c \in Clients
    PROVE  /\ conn'[c] = "unused" => Phase(c)' = "unused"
           /\ conn'[c] = "closed" => Phase(c)' = "closed"
           /\ conn'[c] = "open" /\ mode'[c] = "none" => Phase(c)' = "dialled"
           /\ conn'[c] = "open" /\ mode'[c] # "none" /\ Registered(c)'
                  => Phase(c)' = "listed"
           /\ conn'[c] = "open" /\ mode'[c] # "none" /\ ~Registered(c)'
                  => Phase(c)' = "detached"
BY DEF Phase, TypeOK

\* A client that a step leaves alone keeps its phase.
LEMMA PhaseFrame ==
    ASSUME TypeOK, TypeOK', NEW c \in Clients,
           conn'[c] = conn[c], mode'[c] = mode[c], Registered(c)' = Registered(c)
    PROVE  Phase(c)' = Phase(c)
BY PhaseIs, PhaseWillBe DEF TypeOK

\* A step that touches neither the registry nor a client nor what was
\* written is no step of the contract.
LEMMA Stutters ==
    ASSUME UNCHANGED <<sessions, conn, mode, written>>
    PROVE  UNCHANGED Contract!vars
<1>1. \A c \in Clients : Phase(c)' = Phase(c)
  BY DEF Phase, Registered, Has
<1>2. QED
  BY <1>1 DEF Contract!vars

LEMMA InitRefines == Init => Contract!Init
<1> SUFFICES ASSUME Init PROVE Contract!Init
  OBVIOUS
<1>1. TypeOK
  BY TypeInit
<1>2. CASE conn = [c \in Clients |-> "unused"] /\ mode = [c \in Clients |-> "none"]
  <2>1. \A c \in Clients : Phase(c) = "unused"
    BY <1>1, <1>2, PhaseIs
  <2>2. QED
    BY <1>2, <2>1 DEF Init, Contract!Init
<1>3. ASSUME NEW first \in Clients,
             sessions = [id \in Ids |-> IF id = DefaultId
                 THEN [client |-> first, readonly |-> ServerReadonly] ELSE NoEntry],
             conn = [c \in Clients |-> IF c = first THEN "open" ELSE "unused"],
             mode = [c \in Clients |->
                        IF c = first THEN Mode(ServerReadonly) ELSE "none"]
      PROVE  Contract!Init
  <2>1. Registered(first)
    BY <1>3, RegistryAssumption, SessionsAssumption DEF Registered, Has, Entry
  <2>2. Phase(first) = "listed" /\ \A c \in Clients : c # first => Phase(c) = "unused"
    BY <1>1, <1>3, <2>1, PhaseIs DEF Mode
  <2>3. Mode(ServerReadonly) \in Contract!Grantable
    BY SessionsAssumption DEF Mode, Contract!Grantable
  <2>4. [c \in Clients |-> Phase(c)]
            = [c \in Clients |-> IF c = first THEN "listed" ELSE "unused"]
    BY <2>2
  <2>5. QED
    BY <1>3, <2>3, <2>4 DEF Init, Contract!Init
<1>4. QED
  BY <1>2, <1>3 DEF Init

LEMMA DialRefines ==
    ASSUME ModeInv, ModeInv', NEW r \in Requests, NEW c \in Clients, DialSucceeds(r, c)
    PROVE  Contract!Dial(c)
<1> USE DEF ModeInv, IInv, DialSucceeds
<1>1. conn'[c] = "open" /\ mode[c] = "none" /\ UNCHANGED <<sessions, mode, written>>
  BY DEF ModeNeedsDial, TypeOK
<1>2. Phase(c) = "unused" /\ Phase(c)' = "dialled"
  BY <1>1, PhaseIs, PhaseWillBe
<1>3. \A d \in Clients : d # c => Phase(d)' = Phase(d)
  <2> SUFFICES ASSUME NEW d \in Clients, d # c PROVE Phase(d)' = Phase(d)
    OBVIOUS
  <2>1. conn'[d] = conn[d] /\ Registered(d)' = Registered(d)
    BY DEF TypeOK, Registered, Has
  <2>2. QED
    BY <1>1, <2>1, PhaseFrame
<1>4. QED
  BY <1>1, <1>2, <1>3 DEF Contract!Dial

\* The ID had no entry (always so with --sessions), or it leads to the
\* connection that this one replaces.
LEMMA RegisterRefines ==
    ASSUME ModeInv, ModeInv', NEW r \in Requests, NEW id \in Ids,
           RegisterConnection(r, id)
    PROVE  \/ \E m \in Contract!Grantable : Contract!List(held[r], m)
           \/ \E old \in Clients, m \in Contract!Grantable :
                 Contract!Replace(held[r], old, m)
<1> DEFINE ro == ForcedReadonly(r)
<1> USE DEF ModeInv, IInv
<1>0. PICK c \in Clients : c = held[r]
  BY InHand DEF RegisterConnection, Holding, TypeOK, RequestTypeOK
<1>1. ro \in BOOLEAN /\ Owns(r, c)
  BY <1>0 DEF RegisterConnection, Holding, ForcedReadonly, Owns, TypeOK, RequestTypeOK
<1>2. conn[c] = "open" /\ mode[c] = "none" /\ ~Registered(c)
  BY <1>0, <1>1 DEF RegisterConnection, DialledIsNew, SingleOwner
<1>3. /\ sessions'[id] = [client |-> c, readonly |-> ro]
      /\ \A i \in Ids : i # id => sessions'[i] = sessions[i]
  BY <1>0 DEF RegisterConnection, Put, TypeOK, RegistryTypeOK
<1>4. Has(id)' /\ \A i \in Ids : i # id => (Has(i)' <=> Has(i))
  BY <1>1, <1>3, RegistryAssumption DEF Has, Entry
<1>5. mode' = [mode EXCEPT ![c] = Mode(ro)] /\ UNCHANGED <<conn, written>>
  BY <1>0 DEF RegisterConnection
<1>6. Mode(ro) # "none" /\ mode'[c] = Mode(ro)
      /\ \A d \in Clients : d # c => mode'[d] = mode[d]
  BY <1>1, <1>5 DEF Mode, TypeOK
<1>7. Mode(ro) \in Contract!Grantable
  BY <1>1 DEF Mode, ForcedReadonly, Contract!Grantable, TypeOK, RequestTypeOK
<1>8. Phase(c) = "dialled"
  BY <1>1, <1>2, PhaseIs
<1>9. Phase(c)' = "listed"
  <2>1. \E i \in Ids : Has(i)' /\ sessions'[i].client = c
    BY <1>3, <1>4
  <2>2. conn'[c] = "open" /\ mode'[c] # "none"
    BY <1>2, <1>5, <1>6
  <2>3. conn'[c] = "open" /\ mode'[c] # "none"
            /\ (\E i \in Ids : Has(i)' /\ sessions'[i].client = c)
            => Phase(c)' = "listed"
    BY DEF Phase, Registered
  <2>4. QED
    BY <2>1, <2>2, <2>3
<1>10. CASE ~Has(id)
  <2>1. ASSUME NEW d \in Clients, d # c PROVE Phase(d)' = Phase(d)
    <3>1. Registered(d)' = Registered(d)
      BY <1>3, <1>4, <1>10, <2>1 DEF Registered
    <3>2. QED
      BY <1>5, <1>6, <2>1, <3>1, PhaseFrame
  <2>2. Contract!List(c, Mode(ro))
    BY <1>1, <1>5, <1>8, <1>9, <2>1 DEF Contract!List
  <2>3. QED
    BY <1>0, <1>7, <2>2
<1>11. CASE Has(id)
  <2>0. PICK old \in Clients : old = sessions[id].client
    BY <1>11, LookUp
  <2>1. old # c /\ conn[old] = "open" /\ mode[old] # "none"
        /\ Registered(old)
    BY <1>2, <1>11, <2>0, LookUp DEF EntryMatchesClient, Mode, Registered
  <2>2. ~SessionsMode
    BY <1>11 DEF RegisterConnection, NewSessionIds, IssuedIds
  <2>3. ~Registered(old)'
    BY <1>3, <1>4, <1>11, <2>0, <2>1 DEF Registered, SingleOwner
  <2>4. Phase(old) = "listed" /\ Phase(old)' = "detached"
    BY <1>5, <1>6, <2>1, <2>3, PhaseIs, PhaseWillBe
  <2>5. ASSUME NEW d \in Clients, d # c, d # old PROVE Phase(d)' = Phase(d)
    <3>1. Registered(d)' = Registered(d)
      BY <1>3, <1>4, <2>0, <2>5 DEF Registered
    <3>2. QED
      BY <1>5, <1>6, <2>5, <3>1, PhaseFrame
  <2>6. Contract!Replace(c, old, Mode(ro))
    BY <1>1, <1>5, <1>8, <1>9, <2>1, <2>2, <2>4, <2>5 DEF Contract!Replace
  <2>7. QED
    BY <1>0, <1>7, <2>6
<1>12. QED
  BY <1>10, <1>11

LEMMA RemoveRefines ==
    ASSUME ModeInv, ModeInv', NEW r \in Requests, RemoveEntry(r)
    PROVE  UNCHANGED Contract!vars \/ \E c \in Clients : Contract!Detach(c)
<1> USE DEF ModeInv, IInv
<1>1. sid[r] \in Ids /\ UNCHANGED <<conn, mode, written>>
  BY DEF RemoveEntry, TypeOK, RequestTypeOK
<1>2. sessions'[sid[r]] = NoEntry
      /\ \A i \in Ids : i # sid[r] => sessions'[i] = sessions[i]
  BY <1>1 DEF RemoveEntry, Delete, TypeOK, RegistryTypeOK
<1>3. CASE ~Has(sid[r])
  <2>1. sessions' = sessions
    BY <1>1, <1>3 DEF RemoveEntry, Has, Delete, TypeOK, RegistryTypeOK
  <2>2. QED
    BY <1>1, <2>1, Stutters
<1>4. CASE Has(sid[r])
  <2>1. PICK c \in Clients : c = sessions[sid[r]].client
    BY <1>1, <1>4, LookUp
  <2>2. conn[c] = "open" /\ mode[c] # "none" /\ Registered(c)
    BY <1>1, <1>4, <2>1, LookUp DEF EntryMatchesClient, Mode, Registered
  <2>3. ~Registered(c)'
    BY <1>1, <1>2, <1>4, <2>1 DEF Registered, Has, SingleOwner
  <2>4. Phase(c) = "listed" /\ Phase(c)' = "detached"
    BY <1>1, <2>2, <2>3, PhaseIs, PhaseWillBe
  <2>5. ASSUME NEW d \in Clients, d # c PROVE Phase(d)' = Phase(d)
    <3>1. Registered(d)' = Registered(d)
      BY <1>2, <2>1, <2>5 DEF Registered, Has
    <3>2. QED
      BY <1>1, <3>1, PhaseFrame
  <2>6. Contract!Detach(c)
    BY <1>1, <2>4, <2>5 DEF Contract!Detach
  <2>7. QED
    BY <2>6
<1>5. QED
  BY <1>3, <1>4

LEMMA CloseRefines ==
    ASSUME ModeInv, ModeInv', NEW r \in Requests, CloseClient(r)
    PROVE  \E c \in Clients : Contract!Close(c)
<1> USE DEF ModeInv, IInv, CloseClient
<1>1. PICK c \in Clients : c = held[r]
  BY InHand DEF Holding, TypeOK, RequestTypeOK
<1>2. conn[c] = "open" /\ mode[c] # "none" /\ ~Registered(c)
  BY <1>1 DEF RemovedIsOpen, SingleOwner, Owns
<1>3. conn'[c] = "closed" /\ \A d \in Clients : d # c => conn'[d] = conn[d]
  BY <1>1 DEF TypeOK
<1>4. \A d \in Clients : Registered(d)' = Registered(d)
  BY DEF Registered, Has
<1>5. Phase(c) = "detached" /\ Phase(c)' = "closed"
  BY <1>2, <1>3, PhaseIs, PhaseWillBe
<1>6. \A d \in Clients : d # c => Phase(d)' = Phase(d)
  BY <1>3, <1>4, PhaseFrame
<1>7. Contract!Close(c)
  BY <1>5, <1>6 DEF Contract!Close
<1>8. QED
  BY <1>7

LEMMA RunRefines ==
    ASSUME ModeInv, ModeInv', NEW r \in Requests, RunHandler(r)
    PROVE  UNCHANGED Contract!vars \/ \E c \in Clients : Contract!Write(c)
<1> USE DEF ModeInv, IInv, RunHandler
<1>1. CASE written' = written
  BY <1>1, Stutters
<1>2. CASE op[r] = "write" /\ Reachable(held[r]) /\ written' = written \cup {held[r]}
  <2>1. PICK c \in Clients : c = held[r]
    BY InHand DEF Holding, TypeOK, RequestTypeOK
  <2>2. ~ServerReadonly
    BY <1>2 DEF OnlyReads
  <2>3. mode[c] # "none" /\ (mode[c] = "rw" \/ ~Registered(c))
    BY <1>2, <2>1 DEF UsedIsItsSession, ReadonlyWhileRegistered, TypeOK
  <2>4. \/ Phase(c) = "listed" /\ mode[c] = "rw"
        \/ Phase(c) = "detached"
        \/ Phase(c) = "closed" /\ LazyPools
    <3>1. conn[c] # "unused" /\ (conn[c] = "open" \/ LazyPools)
      BY <1>2, <2>1, <2>3 DEF Reachable, ModeNeedsDial, TypeOK
    <3>2. conn[c] = "open" \/ conn[c] = "closed"
      BY <3>1 DEF TypeOK
    <3>3. QED
      BY <2>3, <3>1, <3>2, PhaseIs
  <2>5. \A d \in Clients : Phase(d)' = Phase(d)
    BY DEF Phase, Registered, Has
  <2>6. Contract!Write(c)
    BY <1>2, <2>1, <2>2, <2>4, <2>5 DEF Contract!Write
  <2>7. QED
    BY <2>6
<1>3. QED
  BY <1>1, <1>2

LEMMA NextRefines ==
    ModeInv /\ ModeInv' /\ [Next]_vars => [Contract!Next]_(Contract!vars)
<1> SUFFICES ASSUME ModeInv, ModeInv', [Next]_vars
             PROVE  Contract!Next \/ UNCHANGED Contract!vars
  OBVIOUS
<1>1. CASE UNCHANGED <<sessions, conn, mode, written>>
  BY <1>1, Stutters
<1>2. ASSUME NEW r \in Requests, NEW c \in Clients, DialSucceeds(r, c)
      PROVE  Contract!Next
  BY <1>2, DialRefines DEF Contract!Next
<1>3. ASSUME NEW r \in Requests, NEW id \in Ids, RegisterConnection(r, id)
      PROVE  Contract!Next
  <2>1. held[r] \in Clients
    BY <1>3, InHand DEF ModeInv, IInv, RegisterConnection, Holding
  <2>2. QED
    BY <1>3, <2>1, RegisterRefines DEF Contract!Next
<1>4. ASSUME NEW r \in Requests, RunHandler(r)
      PROVE  Contract!Next \/ UNCHANGED Contract!vars
  BY <1>4, RunRefines DEF Contract!Next
<1>5. ASSUME NEW r \in Requests, RemoveEntry(r)
      PROVE  Contract!Next \/ UNCHANGED Contract!vars
  BY <1>5, RemoveRefines DEF Contract!Next
<1>6. ASSUME NEW r \in Requests, CloseClient(r) PROVE Contract!Next
  BY <1>6, CloseRefines DEF Contract!Next
<1>7. QED
  BY <1>1, <1>2, <1>3, <1>4, <1>5, <1>6
     DEF Next, Arrives, Serve, vars, requestVars, ConnectArrives, ScopedArrives,
         DisconnectArrives, DialFails, LookUpClient, CheckReadonly

\* Seen from any one connection, the server behaves as ConnectionContract
\* says: listed once under a fixed mode, closed once and only after it was
\* detached, written read-only never while listed, and replaced by another
\* connection only without --sessions.
THEOREM ImplementsContract == Spec => ContractSpec
<1>1. Init => Contract!Init
  BY InitRefines
<1>2. ModeInv /\ ModeInv' /\ [Next]_vars => [Contract!Next]_(Contract!vars)
  BY NextRefines
<1>3. QED
  BY <1>1, <1>2, ModeInvariance, PTL DEF Spec, ContractSpec, Contract!Spec
-----------------------------------------------------------------------------
(***************************************************************************)
(* Two servers                                                             *)
(***************************************************************************)

\* A behaviour of the two servers is one of Sessions, started as one of them.
THEOREM ServersAreSessions ==
    ServersSpec => (server = "single" => Spec) /\ (server = "shared" => Shared!Spec)
<1> DEFINE Single == server = "single"
<1> DEFINE IsShared == server = "shared"
<1>1. ServersInit => (Single => Init) /\ (IsShared => Shared!Init)
  BY DEF ServersInit
<1>2. [ServersNext]_serversVars =>
        /\ Single' <=> Single
        /\ IsShared' <=> IsShared
        /\ Single => [Next]_vars
        /\ IsShared => [Shared!Next]_(Shared!vars)
  BY DEF ServersNext, serversVars, vars, requestVars, Shared!vars, Shared!requestVars
<1> HIDE DEF Single, IsShared
<1>3. ServersSpec => (Single => Spec) /\ (IsShared => Shared!Spec)
  BY <1>1, <1>2, PTL DEF ServersSpec, Spec, Shared!Spec
<1> QED BY <1>3 DEF Single, IsShared

\* What the --readonly server lets through are reads.
OnlyReadsShared == op = [r \in Requests |-> "read"] /\ written = {}

LEMMA SharedStep ==
    ASSUME OnlyReadsShared, [Shared!Next]_(Shared!vars)
    PROVE  OnlyReadsShared'
<1> USE DEF OnlyReadsShared
<1>1. \A r \in Requests : op[r] = "read" /\ [op EXCEPT ![r] = "read"] = op
  OBVIOUS
<1>2. ASSUME NEW r \in Requests, NEW method \in {"read", "write"}, NEW id \in Ids,
             Shared!ScopedArrives(r, method, id)
      PROVE  OnlyReadsShared'
  BY <1>1, <1>2 DEF Shared!ScopedArrives
<1>3. ASSUME NEW r \in Requests, \/ \E readonly \in BOOLEAN : Shared!ConnectArrives(r, readonly)
                                 \/ \E id \in Ids : Shared!DisconnectArrives(r, id)
      PROVE  OnlyReadsShared'
  BY <1>3 DEF Shared!ConnectArrives, Shared!DisconnectArrives
<1>4. ASSUME NEW r \in Requests, Shared!RunHandler(r) PROVE OnlyReadsShared'
  BY <1>1, <1>4 DEF Shared!RunHandler, Shared!Respond
<1>5. ASSUME NEW r \in Requests, \/ \E c \in Clients : Shared!DialSucceeds(r, c)
                                 \/ Shared!DialFails(r)
                                 \/ \E id \in Ids : Shared!RegisterConnection(r, id)
                                 \/ Shared!LookUpClient(r) \/ Shared!CheckReadonly(r)
                                 \/ Shared!RemoveEntry(r) \/ Shared!CloseClient(r)
      PROVE  OnlyReadsShared'
  BY <1>1, <1>5 DEF Shared!DialSucceeds, Shared!DialFails, Shared!RegisterConnection,
                    Shared!LookUpClient, Shared!CheckReadonly, Shared!RemoveEntry,
                    Shared!CloseClient, Shared!Respond, Shared!Proceed
<1>6. CASE UNCHANGED Shared!vars
  BY <1>6 DEF Shared!vars, Shared!requestVars
<1> QED BY <1>2, <1>3, <1>4, <1>5, <1>6 DEF Shared!Next, Shared!Arrives, Shared!Serve

\* A --readonly server writes through no interleaving of its handlers: what
\* rejectWrites stops never reaches the race in withSession (server.go:171-191).
THEOREM ReadonlyServerWritesNothing == ServersSpec => []ReadonlyServerNeverWrites
<1> DEFINE Inv == server = "shared" => OnlyReadsShared
<1>1. ServersInit => Inv
  BY DEF ServersInit, Shared!Init, OnlyReadsShared
<1>2. Inv /\ [ServersNext]_serversVars => Inv'
  <2>1. Inv /\ [ServersNext]_serversVars =>
          /\ server' = server
          /\ server = "shared" => [Shared!Next]_(Shared!vars)
    BY DEF ServersNext, serversVars, vars, requestVars, Shared!vars, Shared!requestVars
  <2> QED BY <2>1, SharedStep
<1>3. Inv => ReadonlyServerNeverWrites
  BY DEF OnlyReadsShared, ReadonlyServerNeverWrites, ReadonlyNeverWritten
<1> HIDE DEF Inv
<1> QED BY <1>1, <1>2, <1>3, PTL DEF ServersSpec
=============================================================================
