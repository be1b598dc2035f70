----------------------------- MODULE MCServers -----------------------------
(***************************************************************************)
(* Two servers in one instance for TLC: one that keeps a single connection *)
(* and may be written through, as the constants say, and one started with  *)
(* --sessions --readonly.  A behaviour is of one of them.                  *)
(***************************************************************************)
EXTENDS Sessions

VARIABLE server

Shared == INSTANCE Sessions
    WITH SessionsMode <- TRUE, ServerReadonly <- TRUE, LazyPools <- FALSE

serversVars == <<server, vars>>

ServersInit ==
    \/ server = "single" /\ Init
    \/ server = "shared" /\ Shared!Init

ServersNext ==
    /\ UNCHANGED server
    /\ \/ server = "single" /\ Next
       \/ server = "shared" /\ Shared!Next

\* A started handler keeps running: goroutines are scheduled, the mutex is
\* never held across a call, and the dial gives up after 10 seconds.
ServersSpec ==
    /\ ServersInit /\ [][ServersNext]_serversVars
    /\ \A r \in Requests :
          /\ WF_vars(server = "single" /\ Serve(r))
          /\ WF_vars(server = "shared" /\ Shared!Serve(r))
-----------------------------------------------------------------------------
(* Properties *)

\* A --readonly server writes through no interleaving of its handlers: what
\* rejectWrites stops never reaches the race in withSession (server.go:171-191).
ReadonlyServerNeverWrites == server = "shared" => ReadonlyNeverWritten

\* With --sessions, a client that left the registry is closed in the end, by
\* the request that took it out (Registry.Remove).
SharedDetachedIsClosed ==
    \A c \in Clients :
        server = "shared" /\ mode[c] # "none" /\ ~Registered(c) ~> conn[c] = "closed"
=============================================================================
