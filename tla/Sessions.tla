------------------------------ MODULE Sessions ------------------------------
(***************************************************************************)
(* pkg/api around pkg/session: the requests that open, use and close       *)
(* database connections.  Fiber runs every request on a goroutine of its   *)
(* own; a request is a member of Requests that goes through the program    *)
(* points of one handler and is then idle again, so every interleaving of  *)
(* concurrent handlers is a behaviour.                                     *)
(*                                                                         *)
(*   POST /api/connect     idle -> dial -> put -> idle                     *)
(*   POST /api/disconnect  idle -> delete -> close -> idle                 *)
(*   a session-scoped call idle -> get -> info -> run -> idle              *)
(*                                                                         *)
(* A scoped call is reduced to its method class: "read" is GET or HEAD,    *)
(* "write" any other.  A call refused before it reads the registry (bad    *)
(* body, unknown bookmark, invalid signed ID, 403 of rejectWrites) leaves  *)
(* no trace and is not a step.                                             *)
(***************************************************************************)
EXTENDS SessionRegistry

CONSTANTS Requests,       \* goroutines that serve requests
          NoClient,       \* a request that holds no driver
          SessionsMode,   \* --sessions
          ServerReadonly, \* --readonly
          LazyPools       \* the driver dials a database on first use (Redis)

ASSUME SessionsAssumption ==
    /\ SessionsMode \in BOOLEAN
    /\ ServerReadonly \in BOOLEAN
    /\ LazyPools \in BOOLEAN
    /\ NoClient \notin Clients

VARIABLES conn,     \* each client: not dialled yet, connected, or closed
          mode,     \* the access a client was registered with
          issued,   \* the session IDs handed out so far
          pc,       \* the program point of each request
          op,       \* method class of the scoped call a request serves
          sid,      \* the session ID it resolved from its header
          held,     \* the driver.Driver it holds in a local variable
          wantsRO,  \* connectRequest.Readonly
          written   \* the clients a write operation was run on

requestVars == <<pc, op, sid, held, wantsRO>>
vars == <<sessions, conn, mode, issued, requestVars, written>>

Points == {"idle", "dial", "put", "get", "info", "run", "delete", "close"}
Holding == {"put", "info", "run", "close"}

Mode(readonly) == IF readonly THEN "ro" ELSE "rw"

\* A request holds a client exactly from the step that obtains one to its
\* response.
RequestTypeOK ==
    /\ pc \in [Requests -> Points]
    /\ op \in [Requests -> {"read", "write"}]
    /\ sid \in [Requests -> Ids]
    /\ held \in [Requests -> Clients \cup {NoClient}]
    /\ wantsRO \in [Requests -> BOOLEAN]
    /\ \A r \in Requests : pc[r] \in Holding <=> held[r] # NoClient

\* Every variable keeps its type, and a request holds a client in exactly the
\* steps between the one that obtained it and its response (middleware.go:50).
TypeOK ==
    /\ RegistryTypeOK
    /\ conn \in [Clients -> {"unused", "open", "closed"}]
    /\ mode \in [Clients -> {"none", "ro", "rw"}]
    /\ issued \in SUBSET Ids
    /\ written \in SUBSET Clients
    /\ RequestTypeOK

\* Without --sessions, main dials the configured database and registers it
\* before the server listens.
Init ==
    /\ \/ /\ SessionsMode
          /\ NewRegistry
          /\ conn = [c \in Clients |-> "unused"]
          /\ mode = [c \in Clients |-> "none"]
       \/ \E first \in Clients :
             /\ ~SessionsMode
             /\ sessions = [id \in Ids |-> IF id = DefaultId
                    THEN [client |-> first, readonly |-> ServerReadonly]
                    ELSE NoEntry]
             /\ conn = [c \in Clients |-> IF c = first THEN "open" ELSE "unused"]
             /\ mode = [c \in Clients |->
                    IF c = first THEN Mode(ServerReadonly) ELSE "none"]
    /\ issued = {DefaultId}
    /\ pc = [r \in Requests |-> "idle"]
    /\ op = [r \in Requests |-> "read"]
    /\ sid = [r \in Requests |-> DefaultId]
    /\ held = [r \in Requests |-> NoClient]
    /\ wantsRO = [r \in Requests |-> FALSE]
    /\ written = {}

\* The handler of r goes on to point with client c in hand.
Proceed(r, point, c) ==
    /\ pc' = [pc EXCEPT ![r] = point]
    /\ held' = [held EXCEPT ![r] = c]
    /\ UNCHANGED <<op, sid, wantsRO>>

\* The handler of r returns: its locals are gone.
Respond(r) ==
    /\ pc' = [pc EXCEPT ![r] = "idle"]
    /\ op' = [op EXCEPT ![r] = "read"]
    /\ sid' = [sid EXCEPT ![r] = DefaultId]
    /\ held' = [held EXCEPT ![r] = NoClient]
    /\ wantsRO' = [wantsRO EXCEPT ![r] = FALSE]
-----------------------------------------------------------------------------
(* POST /api/connect *)

\* The body is parsed and names a target; rejectWrites exempts this route.
ConnectArrives(r, readonly) ==
    /\ pc[r] = "idle"
    /\ pc' = [pc EXCEPT ![r] = "dial"]
    /\ wantsRO' = [wantsRO EXCEPT ![r] = readonly]
    /\ UNCHANGED <<sessions, conn, mode, issued, op, sid, held, written>>

DialSucceeds(r, c) ==
    /\ pc[r] = "dial"
    /\ conn[c] = "unused"
    /\ conn' = [conn EXCEPT ![c] = "open"]
    /\ Proceed(r, "put", c)
    /\ UNCHANGED <<sessions, mode, issued, written>>

\* Mutant of DialFails: the error of d.connect is ignored.
DialFailsUnchecked(r) ==
    /\ pc[r] = "dial"
    /\ \E c \in Clients : conn[c] = "unused" /\ Proceed(r, "put", c)
    /\ UNCHANGED <<sessions, conn, mode, issued, written>>

\* Refused, unreachable, or the 10 second context ran out: 502.
DialFails(r) ==
    /\ pc[r] = "dial"
    /\ Respond(r)
    /\ UNCHANGED <<sessions, conn, mode, issued, written>>

\* Mutant of NewSessionIds: the default ID whatever the mode.
AlwaysDefaultId == {DefaultId}

\* The ID a connection is registered under: a fresh UUID, or the default.
NewSessionIds == IF SessionsMode THEN Ids \ issued ELSE {DefaultId}

ForcedReadonly(r) == wantsRO[r] \/ ServerReadonly

RegisterConnection(r, id) ==
    /\ pc[r] = "put"
    /\ id \in NewSessionIds
    /\ Put(id, held[r], ForcedReadonly(r))
    /\ mode' = [mode EXCEPT ![held[r]] = Mode(ForcedReadonly(r))]
    /\ issued' = issued \cup {id}
    /\ Respond(r)
    /\ UNCHANGED <<conn, written>>
-----------------------------------------------------------------------------
(* Session-scoped calls: rejectWrites, withSession, then the handler *)

\* Mutant of ScopedArrives: rejectWrites is not installed.
ScopedArrivesUngated(r, method, id) ==
    /\ pc[r] = "idle"
    /\ pc' = [pc EXCEPT ![r] = "get"]
    /\ op' = [op EXCEPT ![r] = method]
    /\ sid' = [sid EXCEPT ![r] = id]
    /\ UNCHANGED <<sessions, conn, mode, issued, held, wantsRO, written>>

\* rejectWrites, installed on a --readonly server only, stops other methods.
ScopedArrives(r, method, id) ==
    /\ pc[r] = "idle"
    /\ ServerReadonly => method = "read"
    /\ pc' = [pc EXCEPT ![r] = "get"]
    /\ op' = [op EXCEPT ![r] = method]
    /\ sid' = [sid EXCEPT ![r] = id]
    /\ UNCHANGED <<sessions, conn, mode, issued, held, wantsRO, written>>

\* Mutant of LookUpClient: the error of registry.Get is dropped.
LookUpClientUnchecked(r) ==
    /\ pc[r] = "get"
    /\ Proceed(r, "info", IF Has(sid[r]) THEN sessions[sid[r]].client ELSE NoClient)
    /\ UNCHANGED <<sessions, conn, mode, issued, written>>

\* registry.Get under the lock; 400 when the ID has no connection.
LookUpClient(r) ==
    /\ pc[r] = "get"
    /\ \/ Has(sid[r]) /\ Proceed(r, "info", sessions[sid[r]].client)
       \/ ~Has(sid[r]) /\ Respond(r)
    /\ UNCHANGED <<sessions, conn, mode, issued, written>>

\* Mutant of RefusedReadonly: refuses only when the request asked for a read.
RefusedReadonlyInverted(r) ==
    Has(sid[r]) /\ sessions[sid[r]].readonly /\ op[r] = "read"

\* What registry.Info says now of the ID that Get read earlier.
RefusedReadonly(r) ==
    Has(sid[r]) /\ sessions[sid[r]].readonly /\ op[r] = "write"

\* registry.Info takes the lock again; a missing entry is not an error here.
CheckReadonly(r) ==
    /\ pc[r] = "info"
    /\ \/ RefusedReadonly(r) /\ Respond(r)
       \/ ~RefusedReadonly(r) /\ Proceed(r, "run", held[r])
    /\ UNCHANGED <<sessions, conn, mode, issued, written>>

\* A closed mongo.Client answers every call with an error.  A closed Redis
\* client still dials a database it was never asked for before.
Reachable(c) == conn[c] = "open" \/ LazyPools

\* The handler's driver calls on the client it was given.  They may fail.
RunHandler(r) ==
    /\ pc[r] = "run"
    /\ \/ /\ op[r] = "write"
          /\ Reachable(held[r])
          /\ written' = written \cup {held[r]}
       \/ UNCHANGED written
    /\ Respond(r)
    /\ UNCHANGED <<sessions, conn, mode, issued>>
-----------------------------------------------------------------------------
(* POST /api/disconnect *)

DisconnectArrives(r, id) ==
    /\ pc[r] = "idle"
    /\ pc' = [pc EXCEPT ![r] = "delete"]
    /\ sid' = [sid EXCEPT ![r] = id]
    /\ UNCHANGED <<sessions, conn, mode, issued, op, held, wantsRO, written>>

\* Mutant of RemoveEntry: the entry is read under the lock but not deleted.
RemoveEntryKeepsIt(r) ==
    /\ pc[r] = "delete"
    /\ \/ Has(sid[r]) /\ Proceed(r, "close", sessions[sid[r]].client)
       \/ ~Has(sid[r]) /\ Respond(r)
    /\ UNCHANGED <<sessions, conn, mode, issued, written>>

\* Mutant of RemoveEntry: the entry is deleted and its client forgotten.
RemoveEntryOnly(r) ==
    /\ pc[r] = "delete"
    /\ Delete(sid[r])
    /\ Respond(r)
    /\ UNCHANGED <<conn, mode, issued, written>>

\* Remove deletes the entry under the lock and keeps its client in e; an ID
\* with no entry is a success.
RemoveEntry(r) ==
    /\ pc[r] = "delete"
    /\ \/ Has(sid[r]) /\ Proceed(r, "close", sessions[sid[r]].client)
       \/ ~Has(sid[r]) /\ Respond(r)
    /\ Delete(sid[r])
    /\ UNCHANGED <<conn, mode, issued, written>>

\* Remove closes the client after it released the lock.
CloseClient(r) ==
    /\ pc[r] = "close"
    /\ conn' = [conn EXCEPT ![held[r]] = "closed"]
    /\ Respond(r)
    /\ UNCHANGED <<sessions, mode, issued, written>>
-----------------------------------------------------------------------------
Serve(r) ==
    \/ \E c \in Clients : DialSucceeds(r, c)
    \/ DialFails(r)
    \/ \E id \in Ids : RegisterConnection(r, id)
    \/ LookUpClient(r)
    \/ CheckReadonly(r)
    \/ RunHandler(r)
    \/ RemoveEntry(r)
    \/ CloseClient(r)

Arrives(r) ==
    \/ \E readonly \in BOOLEAN : ConnectArrives(r, readonly)
    \/ \E method \in {"read", "write"}, id \in Ids : ScopedArrives(r, method, id)
    \/ \E id \in Ids : DisconnectArrives(r, id)

Next == \E r \in Requests : Arrives(r) \/ Serve(r)

Spec == Init /\ [][Next]_vars
-----------------------------------------------------------------------------
(* Properties *)

\* A request that must see the client through: it dialled it and has not
\* registered it yet, or took it out of the registry and has not closed it.
Owns(r, c) == pc[r] \in {"put", "close"} /\ held[r] = c

\* Remove deletes before it closes and Put only takes a dialled client, so
\* a lookup never returns a closed one (session.go, Get and Remove).
RegisteredClientIsOpen ==
    \A id \in Ids : Has(id) => conn[sessions[id].client] = "open"

\* However connects and disconnects interleave, one party at a time is
\* responsible for a client: one session ID or one request.  So no client is
\* closed twice or under a session that still leads to it (Registry.Remove).
SingleOwner ==
    /\ \A r1, r2 \in Requests, c \in Clients :
          Owns(r1, c) /\ Owns(r2, c) => r1 = r2
    /\ \A r \in Requests, c \in Clients : Owns(r, c) => ~Registered(c)
    /\ \A i, j \in Ids :
          Has(i) /\ Has(j) /\ sessions[i].client = sessions[j].client => i = j

\* No connected client is out of everyone's reach: some session still leads
\* to it or some request is about to register or close it ("Callers must
\* call Close when done", pkg/client/client.go:27, pkg/redis/client.go:45).
EveryOpenClientOwned ==
    \A c \in Clients : conn[c] = "open" =>
        Registered(c) \/ \E r \in Requests : Owns(r, c)

\* Get and Info are two critical sections.  Whatever happens in between, a
\* write that withSession let through to a read-only client finds that client
\* out of the registry: a listed read-only session is never written.
ReadonlyWhileRegistered ==
    \A r \in Requests :
        pc[r] = "run" /\ op[r] = "write" /\ mode[held[r]] = "ro"
            => ~Registered(held[r])

\* "this check alone is enough" (pkg/api/middleware.go:60): no write runs on
\* a client that was registered read-only.
ReadonlyNeverWritten == \A c \in written : mode[c] # "ro"

\* Seen from one connection, the server implements ConnectionContract.
Phase(c) ==
    CASE conn[c] = "unused" -> "unused"
      [] conn[c] = "closed" -> "closed"
      [] conn[c] = "open" /\ mode[c] = "none" -> "dialled"
      [] conn[c] = "open" /\ mode[c] # "none" /\ Registered(c) -> "listed"
      [] conn[c] = "open" /\ mode[c] # "none" /\ ~Registered(c) -> "detached"

Contract == INSTANCE ConnectionContract
    WITH phase <- [c \in Clients |-> Phase(c)], MayReplace <- ~SessionsMode,
         MayReopen <- LazyPools

ContractSpec == Contract!Spec
=============================================================================
