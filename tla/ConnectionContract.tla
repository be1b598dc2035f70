------------------------- MODULE ConnectionContract -------------------------
(***************************************************************************)
(* What the server promises about one database connection, with no         *)
(* registry, locks or requests in sight: a connection is dialled, listed   *)
(* once under an access mode that never changes, detached once, and closed *)
(* only after that.  While it is listed read-only nothing is written       *)
(* through it, and on a --readonly server nothing is written at all.       *)
(* Sessions.tla implements this module.                                    *)
(***************************************************************************)
CONSTANTS Clients,        \* the connections
          ServerReadonly, \* --readonly
          MayReplace,     \* TRUE in single-connection mode: listing a new
                          \* connection may detach the one it replaces
          MayReopen       \* TRUE for a driver that dials lazily: a request
                          \* older than the close may still write after it

Phases == {"unused", "dialled", "listed", "detached", "closed"}
Modes  == {"none", "ro", "rw"}

VARIABLES phase,   \* where each connection is in its life
          mode,    \* the access it was listed with
          written  \* the connections something was written through

vars == <<phase, mode, written>>

Grantable == IF ServerReadonly THEN {"ro"} ELSE {"ro", "rw"}

Init ==
    /\ written = {}
    /\ \/ /\ phase = [c \in Clients |-> "unused"]
          /\ mode = [c \in Clients |-> "none"]
       \/ \E first \in Clients : \E m \in Grantable :
             /\ phase = [c \in Clients |-> IF c = first THEN "listed" ELSE "unused"]
             /\ mode = [c \in Clients |-> IF c = first THEN m ELSE "none"]

Dial(c) ==
    /\ phase[c] = "unused"
    /\ phase' = [phase EXCEPT ![c] = "dialled"]
    /\ UNCHANGED <<mode, written>>

List(c, m) ==
    /\ phase[c] = "dialled"
    /\ phase' = [phase EXCEPT ![c] = "listed"]
    /\ mode' = [mode EXCEPT ![c] = m]
    /\ UNCHANGED written

Replace(c, old, m) ==
    /\ MayReplace
    /\ phase[c] = "dialled"
    /\ phase[old] = "listed"
    /\ phase' = [phase EXCEPT ![c] = "listed", ![old] = "detached"]
    /\ mode' = [mode EXCEPT ![c] = m]
    /\ UNCHANGED written

Detach(c) ==
    /\ phase[c] = "listed"
    /\ phase' = [phase EXCEPT ![c] = "detached"]
    /\ UNCHANGED <<mode, written>>

Close(c) ==
    /\ phase[c] = "detached"
    /\ phase' = [phase EXCEPT ![c] = "closed"]
    /\ UNCHANGED <<mode, written>>

Write(c) ==
    /\ ~ServerReadonly
    /\ \/ phase[c] = "listed" /\ mode[c] = "rw"
       \/ phase[c] = "detached"
       \/ phase[c] = "closed" /\ MayReopen
    /\ written' = written \cup {c}
    /\ UNCHANGED <<phase, mode>>

Next ==
    \E c \in Clients :
        \/ Dial(c)
        \/ \E m \in Grantable : List(c, m)
        \/ \E old \in Clients, m \in Grantable : Replace(c, old, m)
        \/ Detach(c)
        \/ Close(c)
        \/ Write(c)

Spec == Init /\ [][Next]_vars
=============================================================================
