--------------------------- MODULE ExportTickets ---------------------------
(***************************************************************************)
(* pkg/api/export_tickets.go: the store of one-shot export tickets.  issue *)
(* and claim hold the store's mutex throughout, so each is one step.       *)
(* Nothing removes an expired ticket but the next issue, which sweeps, and *)
(* a claim of that very ticket.                                            *)
(***************************************************************************)
EXTENDS Integers, FiniteSets

CONSTANTS Tokens,      \* the UUIDs a run can mint
          Payloads,    \* what a ticket remembers of its request
          TTL,         \* exportTicketTTL, in ticks
          MaxTickets,  \* maxExportTickets
          MaxTime,     \* bound: the clock stops there
          NoTicket     \* a map slot that holds nothing

Ticket == [payload : Payloads, expires : Nat]

ASSUME TicketAssumption ==
    /\ TTL \in Nat
    /\ MaxTickets \in Nat
    /\ MaxTime \in Nat
    /\ NoTicket \notin Ticket

VARIABLES m,       \* exportTicketStore.m
          now,     \* time.Now()
          minted,  \* the tokens handed out so far: a UUID never repeats
          answer   \* what the last request was told

vars == <<m, now, minted, answer>>

Answers == {"none", "ticket", "full", "download", "rejected"}

\* The store holds tickets under tokens it minted, and nothing else
\* (export_tickets.go:57-89).
TypeOK ==
    /\ m \in [Tokens -> Ticket \cup {NoTicket}]
    /\ now \in Nat
    /\ minted \in SUBSET Tokens
    /\ answer \in Answers
    /\ \A k \in Tokens : m[k] # NoTicket => k \in minted

Stored(store) == {k \in Tokens : store[k] # NoTicket}

Init ==
    /\ m = [k \in Tokens |-> NoTicket]
    /\ now = 0
    /\ minted = {}
    /\ answer = "none"

Tick ==
    /\ now < MaxTime
    /\ now' = now + 1
    /\ UNCHANGED <<m, minted, answer>>

\* Mutant of Expired: now reaching the deadline counts as past it.
ExpiredEarly(t) == now >= t.expires

\* time.Now().After(t.expires)
Expired(t) == now > t.expires

\* Mutant of Swept: a ticket goes at its deadline, when a claim would still
\* be honoured.
SweptEarly == [k \in Tokens |->
    IF m[k] # NoTicket /\ ExpiredEarly(m[k]) THEN NoTicket ELSE m[k]]

\* What issue's sweep leaves of the store.
Swept == [k \in Tokens |->
    IF m[k] # NoTicket /\ Expired(m[k]) THEN NoTicket ELSE m[k]]

\* Mutant of Issue: the lifetime is taken off the clock instead of added.
IssueBackdated(k, payload, handled) ==
    /\ k \notin minted
    /\ Cardinality(Stored(Swept)) < MaxTickets
    /\ m' = [Swept EXCEPT ![k] = [payload |-> payload, expires |-> handled - TTL]]
    /\ minted' = minted \cup {k}
    /\ answer' = "ticket"
    /\ UNCHANGED now

\* Mutant of Issue: the cap is compared with the store before the insertion
\* as if it were after.
IssueOverCap(k, payload, handled) ==
    /\ k \notin minted
    /\ Cardinality(Stored(Swept)) <= MaxTickets
    /\ m' = [Swept EXCEPT ![k] = [payload |-> payload, expires |-> handled + TTL]]
    /\ minted' = minted \cup {k}
    /\ answer' = "ticket"
    /\ UNCHANGED now

\* The handler read the clock for expires before it waited for the mutex.
Issue(k, payload, handled) ==
    /\ k \notin minted
    /\ Cardinality(Stored(Swept)) < MaxTickets
    /\ m' = [Swept EXCEPT ![k] = [payload |-> payload, expires |-> handled + TTL]]
    /\ minted' = minted \cup {k}
    /\ answer' = "ticket"
    /\ UNCHANGED now

\* 429: the sweep has happened all the same.
IssueRefused ==
    /\ ~(Cardinality(Stored(Swept)) < MaxTickets)
    /\ m' = Swept
    /\ answer' = "full"
    /\ UNCHANGED <<now, minted>>

Claimable(k) == m[k] # NoTicket /\ ~Expired(m[k])

Claim(k) ==
    /\ Claimable(k)
    /\ m' = [m EXCEPT ![k] = NoTicket]
    /\ answer' = "download"
    /\ UNCHANGED <<now, minted>>

\* Unknown, spent or expired: 400, and an expired ticket is dropped.
ClaimRejected(k) ==
    /\ ~Claimable(k)
    /\ m' = [m EXCEPT ![k] = NoTicket]
    /\ answer' = "rejected"
    /\ UNCHANGED <<now, minted>>

Next ==
    \/ Tick
    \/ IssueRefused
    \/ \E k \in Tokens :
          \/ \E payload \in Payloads, handled \in 0 .. now : Issue(k, payload, handled)
          \/ Claim(k)
          \/ ClaimRejected(k)

Spec == Init /\ [][Next]_vars
-----------------------------------------------------------------------------
(* Properties *)

\* However many tickets are never redeemed, the store holds no more than
\* maxExportTickets, expired ones included ("caps the store",
\* export_tickets.go:16).
StoreBounded == Cardinality(Stored(m)) <= MaxTickets

\* The last tick each ticket in the store can still be used at.
Deadline == [k \in Tokens |->
    IF m[k] # NoTicket /\ ~Expired(m[k]) THEN m[k].expires ELSE -1]

Contract == INSTANCE TicketContract WITH deadline <- Deadline

\* Lazy sweeping cannot be told from tickets that vanish at their deadline:
\* a claim succeeds exactly once and exactly until the deadline, and an
\* expired ticket never causes a 429 ("A token is valid for exactly one
\* download", export_tickets.go:91-93).
ContractSpec == Contract!Spec
=============================================================================
