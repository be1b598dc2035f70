--------------------------- MODULE TicketContract ---------------------------
(***************************************************************************)
(* What pkg/api promises about export tickets, as if each ticket vanished  *)
(* at the very moment it can no longer be used: a ticket is good for one   *)
(* download until its deadline has passed, and a new one is refused only   *)
(* while MaxTickets of them are still good.                                *)
(***************************************************************************)
EXTENDS Integers, FiniteSets

CONSTANTS Tokens,      \* the UUIDs a run can mint
          TTL,         \* exportTicketTTL, in ticks
          MaxTickets,  \* maxExportTickets
          MaxTime      \* bound: the clock stops there

Never == -1

VARIABLES now,       \* the clock
          deadline,  \* the last tick each token can be used at, or Never
          minted,    \* the tokens handed out so far
          answer     \* what the last request was told

vars == <<now, deadline, minted, answer>>

Good == {k \in Tokens : deadline[k] # Never}

Init ==
    /\ now = 0
    /\ deadline = [k \in Tokens |-> Never]
    /\ minted = {}
    /\ answer = "none"

Tick ==
    /\ now < MaxTime
    /\ now' = now + 1
    /\ deadline' = [k \in Tokens |-> IF deadline[k] < now + 1 THEN Never
                                                              ELSE deadline[k]]
    /\ UNCHANGED <<minted, answer>>

\* A ticket lives TTL ticks from when its request was handled, at latest now.
Grant(k) ==
    /\ k \notin minted
    /\ Cardinality(Good) < MaxTickets
    /\ \E d \in 0 .. now + TTL :
          deadline' = [deadline EXCEPT ![k] = IF d < now THEN Never ELSE d]
    /\ minted' = minted \cup {k}
    /\ answer' = "ticket"
    /\ UNCHANGED now

Refuse ==
    /\ ~(Cardinality(Good) < MaxTickets)
    /\ answer' = "full"
    /\ UNCHANGED <<now, deadline, minted>>

Redeem(k) ==
    /\ k \in Good
    /\ deadline' = [deadline EXCEPT ![k] = Never]
    /\ answer' = "download"
    /\ UNCHANGED <<now, minted>>

Reject(k) ==
    /\ k \notin Good
    /\ answer' = "rejected"
    /\ UNCHANGED <<now, deadline, minted>>

Next ==
    \/ Tick
    \/ Refuse
    \/ \E k \in Tokens : Grant(k) \/ Redeem(k) \/ Reject(k)

Spec == Init /\ [][Next]_vars
=============================================================================
