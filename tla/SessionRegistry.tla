-------------------------- MODULE SessionRegistry --------------------------
(***************************************************************************)
(* pkg/session: the registry of active connections.  Registry.sessions is  *)
(* a map from session ID to an entry {client, info}; every method holds    *)
(* Registry.mu for the whole of its access to the map, so each access is   *)
(* one atomic step and is one operator here.  Of Info only Readonly is     *)
(* kept: nothing else in it is ever read back to decide anything.          *)
(***************************************************************************)
CONSTANTS Ids,       \* session IDs: DefaultId and the UUIDs a run can mint
          DefaultId, \* session.DefaultID, the one ID of single-connection mode
          Clients,   \* driver.Driver values a run can dial
          NoEntry    \* a map slot that holds nothing

Entry == [client : Clients, readonly : BOOLEAN]

ASSUME RegistryAssumption == DefaultId \in Ids /\ NoEntry \notin Entry

VARIABLE sessions    \* Registry.sessions

RegistryTypeOK == sessions \in [Ids -> Entry \cup {NoEntry}]

Has(id) == sessions[id] # NoEntry

\* Some ID leads to client c.
Registered(c) == \E id \in Ids : Has(id) /\ sessions[id].client = c

NewRegistry == sessions = [id \in Ids |-> NoEntry]

\* A plain map assignment: an entry already under id is dropped, not closed.
Put(id, c, readonly) ==
    sessions' = [sessions EXCEPT ![id] = [client |-> c, readonly |-> readonly]]

\* The half of Remove done under the lock.  Closing the client comes later.
Delete(id) == sessions' = [sessions EXCEPT ![id] = NoEntry]
=============================================================================
