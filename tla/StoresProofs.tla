---------------------------- MODULE StoresProofs ----------------------------
(***************************************************************************)
(* Proofs about the stores the server keeps in memory: ExportTickets, for  *)
(* any cap, any lifetime and any number of tokens, and QueryHistory, for   *)
(* any number of contexts, sessions and entries.                           *)
(***************************************************************************)
EXTENDS MCStores, SequenceTheorems, FiniteSetTheorems, TLAPS

LEMMA SweptType ==
    ASSUME TypeOK
    PROVE  /\ Swept \in [Tokens -> Ticket \cup {NoTicket}]
           /\ \A k \in Tokens : Swept[k] # NoTicket
                  <=> m[k] # NoTicket /\ ~Expired(m[k])
           /\ \A k \in Tokens : Swept[k] # NoTicket => Swept[k] = m[k]
BY DEF TypeOK, Swept

LEMMA TypeInit == Init => TypeOK
BY DEF Init, TypeOK, Answers

LEMMA TypeNext == TypeOK /\ [Next]_vars => TypeOK'
<1> SUFFICES ASSUME TypeOK, [Next]_vars PROVE TypeOK'
  OBVIOUS
<1> USE TicketAssumption DEF TypeOK, Answers
<1>1. CASE Tick
  BY <1>1 DEF Tick
<1>2. CASE IssueRefused
  BY <1>2, SweptType DEF IssueRefused
<1>3. ASSUME NEW k \in Tokens, NEW p \in Payloads, NEW handled \in 0 .. now,
             Issue(k, p, handled)
      PROVE  TypeOK'
  <2>1. [payload |-> p, expires |-> handled + TTL] \in Ticket
    BY DEF Ticket
  <2>2. QED
    BY <1>3, <2>1, SweptType DEF Issue
<1>4. ASSUME NEW k \in Tokens, Claim(k) PROVE TypeOK'
  BY <1>4 DEF Claim
<1>5. ASSUME NEW k \in Tokens, ClaimRejected(k) PROVE TypeOK'
  BY <1>5 DEF ClaimRejected
<1>6. CASE UNCHANGED vars
  BY <1>6 DEF vars
<1>7. QED
  BY <1>1, <1>2, <1>3, <1>4, <1>5, <1>6 DEF Next

\* Every variable keeps its type, and only minted tokens are stored.
THEOREM TypeCorrect == Spec => []TypeOK
BY TypeInit, TypeNext, PTL DEF Spec
-----------------------------------------------------------------------------
(* The cap *)

\* The store is finite and within the cap; that it is finite is what lets the
\* cardinality grow by at most one.
CapInv ==
    /\ IsFiniteSet(Stored(m))
    /\ Cardinality(Stored(m)) <= MaxTickets

\* Taking tickets away keeps the store within the cap.
LEMMA FewerTickets ==
    ASSUME CapInv, NEW S, S \subseteq Stored(m)
    PROVE  IsFiniteSet(S) /\ Cardinality(S) <= MaxTickets
<1>1. IsFiniteSet(S) /\ Cardinality(S) <= Cardinality(Stored(m))
  BY FS_Subset DEF CapInv
<1>2. Cardinality(S) \in Nat /\ Cardinality(Stored(m)) \in Nat
  BY <1>1, FS_CardinalityType DEF CapInv
<1>3. QED
  BY <1>1, <1>2, TicketAssumption DEF CapInv

LEMMA CapNext == TypeOK /\ CapInv /\ [Next]_vars => CapInv'
<1> SUFFICES ASSUME TypeOK, CapInv, [Next]_vars PROVE CapInv'
  OBVIOUS
<1>1. Stored(Swept) \subseteq Stored(m)
  BY SweptType DEF Stored
<1>2. CASE Stored(m') \subseteq Stored(m)
  BY <1>2, FewerTickets DEF CapInv, Stored
<1>3. CASE Tick
  BY <1>2, <1>3 DEF Tick
<1>4. CASE IssueRefused
  BY <1>1, <1>2, <1>4 DEF IssueRefused
<1>5. ASSUME NEW k \in Tokens, NEW p \in Payloads, NEW handled \in 0 .. now,
             Issue(k, p, handled)
      PROVE  CapInv'
  <2>1. Stored(m') \subseteq Stored(Swept) \cup {k}
    BY <1>5, SweptType DEF Issue, Stored
  <2>2. IsFiniteSet(Stored(Swept)) /\ Cardinality(Stored(Swept)) \in Nat
        /\ Cardinality(Stored(Swept)) < MaxTickets
    BY <1>1, <1>5, FewerTickets, FS_CardinalityType DEF Issue
  <2>3. IsFiniteSet(Stored(Swept) \cup {k})
        /\ Cardinality(Stored(Swept) \cup {k}) <= Cardinality(Stored(Swept)) + 1
    BY <2>2, FS_AddElement
  <2>4. IsFiniteSet(Stored(m')) /\ Cardinality(Stored(m'))
            <= Cardinality(Stored(Swept) \cup {k})
    BY <2>1, <2>3, FS_Subset
  <2>5. Cardinality(Stored(m')) \in Nat /\ Cardinality(Stored(Swept) \cup {k}) \in Nat
    BY <2>3, <2>4, FS_CardinalityType
  <2>6. Cardinality(Stored(m')) <= MaxTickets
    BY <2>2, <2>3, <2>4, <2>5, TicketAssumption
  <2>7. QED
    BY <2>4, <2>6 DEF CapInv, Stored
<1>6. ASSUME NEW k \in Tokens, Claim(k) \/ ClaimRejected(k) PROVE CapInv'
  BY <1>2, <1>6 DEF Claim, ClaimRejected, Stored, TypeOK
<1>7. CASE UNCHANGED vars
  BY <1>2, <1>7 DEF vars
<1>8. QED
  BY <1>3, <1>4, <1>5, <1>6, <1>7 DEF Next

\* The store never holds more than maxExportTickets tickets.
THEOREM Bounded == Spec => []StoreBounded
<1>1. Init => CapInv
  <2> SUFFICES ASSUME Init PROVE CapInv
    OBVIOUS
  <2>1. Stored(m) = {}
    BY DEF Init, Stored
  <2>2. QED
    BY <2>1, FS_EmptySet, TicketAssumption DEF CapInv
<1>2. CapInv => StoreBounded
  BY DEF CapInv, StoreBounded
<1>3. QED
  BY <1>1, <1>2, CapNext, TypeCorrect, PTL DEF Spec
-----------------------------------------------------------------------------
(* The contract *)

LEMMA DeadlineIs ==
    ASSUME TypeOK
    PROVE  \A k \in Tokens :
              /\ Claimable(k) => Deadline[k] = m[k].expires
              /\ ~Claimable(k) => Deadline[k] = -1
              /\ m[k] # NoTicket => m[k].expires \in Nat
<1>1. \A k \in Tokens : m[k] # NoTicket => m[k].expires \in Nat
  BY DEF TypeOK, Ticket
<1>2. QED
  BY <1>1 DEF Deadline, Claimable

\* The tickets the contract calls good are those a sweep would leave.
LEMMA GoodTickets ==
    ASSUME TypeOK
    PROVE  /\ Contract!Good = Stored(Swept)
           /\ \A k \in Tokens : k \in Contract!Good <=> Claimable(k)
<1>1. \A k \in Tokens : k \in Contract!Good <=> Claimable(k)
  <2> SUFFICES ASSUME NEW k \in Tokens PROVE k \in Contract!Good <=> Claimable(k)
    OBVIOUS
  <2>1. CASE Claimable(k)
    <3>1. Deadline[k] \in Nat
      BY <2>1, DeadlineIs DEF Claimable
    <3>2. QED
      BY <2>1, <3>1 DEF Contract!Good, Contract!Never
  <2>2. CASE ~Claimable(k)
    BY <2>2, DeadlineIs DEF Contract!Good, Contract!Never
  <2>3. QED
    BY <2>1, <2>2
<1>2. \A k \in Tokens : k \in Stored(Swept) <=> Claimable(k)
  BY SweptType DEF Stored, Claimable
<1>3. QED
  BY <1>1, <1>2 DEF Contract!Good, Stored

LEMMA TickRefines ==
    ASSUME TypeOK, TypeOK', Tick
    PROVE  Contract!Tick
<1>1. now \in Nat /\ now' = now + 1 /\ m' = m
  BY DEF Tick, TypeOK
<1>2. ASSUME NEW k \in Tokens
      PROVE  Deadline'[k] = IF Deadline[k] < now + 1 THEN -1 ELSE Deadline[k]
  <2>1. CASE m[k] = NoTicket
    BY <1>1, <2>1 DEF Deadline
  <2>2. CASE m[k] # NoTicket
    <3>1. m[k].expires \in Nat
      BY <2>2, DeadlineIs
    <3>2. QED
      BY <1>1, <2>2, <3>1 DEF Deadline, Expired
  <2>3. QED
    BY <2>1, <2>2
<1>3. Deadline' = [k \in Tokens |-> IF Deadline[k] < now + 1 THEN -1 ELSE Deadline[k]]
  BY <1>2 DEF Deadline
<1>4. QED
  BY <1>1, <1>3 DEF Tick, Contract!Tick, Contract!Never

LEMMA IssueRefines ==
    ASSUME TypeOK, TypeOK', NEW k \in Tokens, NEW p \in Payloads,
           NEW handled \in 0 .. now, Issue(k, p, handled)
    PROVE  Contract!Grant(k)
<1> DEFINE d == handled + TTL
<1>1. now \in Nat /\ TTL \in Nat /\ d \in 0 .. now + TTL /\ now' = now
  BY TicketAssumption DEF TypeOK, Issue
<1>2. /\ m'[k] = [payload |-> p, expires |-> d]
      /\ m'[k] # NoTicket
      /\ \A j \in Tokens : j # k => m'[j] = Swept[j]
  <2>1. [payload |-> p, expires |-> d] \in Ticket
    BY <1>1 DEF Ticket
  <2>2. QED
    BY <2>1, SweptType, TicketAssumption DEF Issue
<1>3. Deadline'[k] = IF d < now THEN -1 ELSE d
  BY <1>1, <1>2 DEF Deadline, Expired
<1>4. \A j \in Tokens : j # k => Deadline'[j] = Deadline[j]
  BY <1>1, <1>2, SweptType DEF Deadline, Expired
<1>5. Deadline' = [Deadline EXCEPT ![k] = IF d < now THEN -1 ELSE d]
  BY <1>3, <1>4 DEF Deadline
<1>6. QED
  BY <1>1, <1>5, GoodTickets DEF Issue, Contract!Grant, Contract!Never, Contract!Cardinality, Cardinality

LEMMA ClaimRefines ==
    ASSUME TypeOK, NEW k \in Tokens
    PROVE  /\ Claim(k) => Contract!Redeem(k)
           /\ ClaimRejected(k) => Contract!Reject(k)
<1>1. ASSUME Claim(k) \/ ClaimRejected(k)
      PROVE  Deadline' = [Deadline EXCEPT ![k] = -1]
  <2>1. now' = now /\ m'[k] = NoTicket /\ \A j \in Tokens : j # k => m'[j] = m[j]
    BY <1>1 DEF Claim, ClaimRejected, TypeOK
  <2>2. \A j \in Tokens : Deadline'[j] = IF j = k THEN -1 ELSE Deadline[j]
    BY <2>1 DEF Deadline, Expired
  <2>3. QED
    BY <2>2 DEF Deadline
<1>2. ASSUME Claim(k) PROVE Contract!Redeem(k)
  BY <1>1, <1>2, GoodTickets DEF Claim, Contract!Redeem, Contract!Never
<1>3. ASSUME ClaimRejected(k) PROVE Contract!Reject(k)
  <2>1. Deadline[k] = -1
    BY <1>3, DeadlineIs DEF ClaimRejected
  <2>2. Deadline' = Deadline
    BY <1>1, <1>3, <2>1 DEF Deadline
  <2>3. QED
    BY <1>3, <2>2, GoodTickets DEF ClaimRejected, Contract!Reject
<1>4. QED
  BY <1>2, <1>3

LEMMA RefuseRefines ==
    ASSUME TypeOK, IssueRefused
    PROVE  Contract!Refuse
<1>1. \A j \in Tokens : Deadline'[j] = Deadline[j]
  BY SweptType DEF IssueRefused, Deadline, Expired
<1>2. Deadline' = Deadline
  BY <1>1 DEF Deadline
<1>3. QED
  BY <1>2, GoodTickets DEF IssueRefused, Contract!Refuse, Contract!Cardinality, Cardinality

\* The store with its lazy sweep does what TicketContract promises: good for
\* one download, until the deadline, and refused only when MaxTickets of
\* them are still good.
THEOREM ImplementsTicketContract == Spec => ContractSpec
<1>1. Init => Contract!Init
  <2> SUFFICES ASSUME Init PROVE Contract!Init
    OBVIOUS
  <2>1. Deadline = [k \in Tokens |-> -1]
    BY DEF Init, Deadline
  <2>2. QED
    BY <2>1 DEF Init, Contract!Init, Contract!Never
<1>2. TypeOK /\ TypeOK' /\ [Next]_vars => [Contract!Next]_(Contract!vars)
  <2> SUFFICES ASSUME TypeOK, TypeOK', [Next]_vars
               PROVE  Contract!Next \/ UNCHANGED Contract!vars
    OBVIOUS
  <2>1. CASE UNCHANGED vars
    BY <2>1 DEF vars, Contract!vars, Deadline, Expired
  <2>2. QED
    BY <2>1, TickRefines, RefuseRefines, IssueRefines, ClaimRefines
       DEF Next, Contract!Next
<1>3. QED
  BY <1>1, <1>2, TypeCorrect, PTL DEF Spec, ContractSpec, Contract!Spec
-----------------------------------------------------------------------------
(* The query history *)

\* The entries of a list were recorded when they say.
Recorded(list) ==
    list \in Seq(Entry) /\ \A i \in 1..Len(list) : list[i].at \in 1..Len(log)

HistoryInv ==
    /\ memory \in [Ctxs -> Request]
    /\ busy \in SUBSET Ctxs
    /\ log \in Seq(Logged)
    /\ \A s \in slots :
          s.key \in Ctxs \cup {Literal} /\ s.filed \in Ids /\ Recorded(s.list)

\* A map access finds one slot or none.
LEMMA FoundSlot ==
    ASSUME NEW id, NEW found \in Found(id)
    PROVE  \/ found = {} /\ ListOf(found) = <<>>
           \/ \E s \in slots : Spelled(s) = id /\ found = {s} /\ ListOf(found) = s.list
<1>1. found = {} \/ \E s \in slots : Spelled(s) = id /\ found = {s}
  BY DEF Found
<1>2. found = {} => ListOf(found) = <<>>
  BY DEF ListOf
<1>3. \A s : found = {s} => ListOf(found) = s.list
  BY DEF ListOf
<1> QED BY <1>1, <1>2, <1>3

\* A list with one more entry: the last of them, as many as are kept.
Kept(list, e) == Trimmed(Append(list, e))

LEMMA AppendedTrimmed ==
    ASSUME NEW list \in Seq(Entry), NEW e \in Entry
    PROVE  /\ Len(list) \in Nat /\ Kept(list, e) \in Seq(Entry)
           /\ Len(Kept(list, e)) = IF Len(list) < MaxEntries THEN Len(list) + 1 ELSE MaxEntries
           /\ \A i \in 1..Len(Kept(list, e)) :
                 \E j \in 1 .. Len(list) + 1 :
                    /\ j = Len(list) + 1 - Len(Kept(list, e)) + i
                    /\ Kept(list, e)[i] = IF j = Len(list) + 1 THEN e ELSE list[j]
<1> DEFINE more == Append(list, e)
           kept == Trimmed(more)
           n == Len(list)
<1>1. /\ more \in Seq(Entry) /\ n \in Nat /\ Len(more) = n + 1
      /\ \A i \in 1..n : more[i] = list[i]
      /\ more[n + 1] = e
  BY AppendProperties, LenProperties
<1>2. \A i \in 1 .. n + 1 : more[i] = IF i = n + 1 THEN e ELSE list[i]
  BY <1>1
<1> HIDE DEF more
<1>3. MaxEntries \in Nat /\ MaxEntries >= 1
  BY HistoryAssumption
<1> SUFFICES /\ kept \in Seq(Entry)
             /\ Len(kept) = IF n < MaxEntries THEN n + 1 ELSE MaxEntries
             /\ \A i \in 1..Len(kept) :
                   /\ n + 1 - Len(kept) + i \in 1 .. n + 1
                   /\ kept[i] = more[n + 1 - Len(kept) + i]
  BY <1>1, <1>2 DEF Kept, more
<1>4. CASE n < MaxEntries
  <2>1. kept = more
    BY <1>1, <1>3, <1>4 DEF Trimmed
  <2> HIDE DEF kept
  <2> QED BY <1>1, <1>3, <1>4, <2>1
<1>5. CASE ~(n < MaxEntries)
  <2> DEFINE first == n + 1 - MaxEntries + 1
  <2>1. kept = SubSeq(more, first, n + 1) /\ first \in 1 .. n + 1
    BY <1>1, <1>3, <1>5 DEF Trimmed
  <2>2. \A i \in first .. n + 1 : more[i] \in Entry
    BY <1>1, <1>3, <1>5, ElementOfSeq
  <2>3. /\ kept \in Seq(Entry) /\ Len(kept) = (n + 1) - first + 1
        /\ \A i \in 1 .. (n + 1) - first + 1 : kept[i] = more[first + i - 1]
    BY <1>1, <2>1, <2>2, SubSeqProperties
  <2>4. (n + 1) - first + 1 = MaxEntries
    BY <1>1, <1>3
  <2>5. Len(kept) = MaxEntries
    BY <2>3, <2>4
  <2>6. ASSUME NEW i \in 1..MaxEntries
        PROVE  /\ n + 1 - MaxEntries + i \in 1 .. n + 1
               /\ kept[i] = more[n + 1 - MaxEntries + i]
    <3>1. first + i - 1 = n + 1 - MaxEntries + i
      BY <1>1, <1>3
    <3>2. kept[i] = more[first + i - 1]
      BY <2>3, <2>4
    <3> QED BY <1>1, <1>3, <1>5, <3>1, <3>2
  <2> HIDE DEF kept
  <2> QED BY <1>3, <1>5, <2>3, <2>5, <2>6
<1> QED BY <1>4, <1>5

\* A list request under way names a connected session.
BusyNamed == \A x \in busy : IdOf(memory[x]) \in Ids

\* What Add puts in place of the slot it read.
LEMMA AddedSlot ==
    ASSUME HistoryInv, BusyNamed, NEW x \in Ctxs, Add(x)
    PROVE  /\ IdOf(memory[x]) \in Ids
           /\ \E e \in Logged : /\ log' = Append(log, e)
                                /\ e.named = memory[x].named
           /\ Len(log) \in Nat /\ Len(log') = Len(log) + 1 /\ log' \in Seq(Logged)
           /\ EntryOf(x) \in Entry /\ EntryOf(x).at = Len(log) + 1
           /\ KeyOf(x) \in Ctxs \cup {Literal}
           /\ \E read \in Found(IdOf(memory[x])), written \in Found(IdOf(memory[x])) :
                 /\ Recorded(ListOf(read))
                 /\ slots' = (slots \ written) \cup
                       {[key |-> KeyOf(x), filed |-> IdOf(memory[x]),
                         list |-> Kept(ListOf(read), EntryOf(x))]}
<1>1. memory[x] \in Request /\ IdOf(memory[x]) \in Ids
  BY DEF HistoryInv, BusyNamed, Add
<1> DEFINE e == [id |-> IdOf(memory[x]), query |-> memory[x].query,
                 named |-> memory[x].named]
<1>2. e \in Logged /\ log' = Append(log, e) /\ e.named = memory[x].named
  BY <1>1 DEF Add, Logged, Request
<1> HIDE DEF e
<1>3. Len(log) \in Nat /\ Len(log') = Len(log) + 1 /\ log' \in Seq(Logged)
  BY <1>2, AppendProperties, LenProperties DEF HistoryInv
<1>4. EntryOf(x) \in Entry /\ EntryOf(x).at = Len(log) + 1
  BY <1>3 DEF EntryOf, Entry
<1>5. Recorded(<<>>)
  BY EmptySeq DEF Recorded
<1>6. \A read \in Found(IdOf(memory[x])) : Recorded(ListOf(read))
  BY <1>5, FoundSlot DEF HistoryInv
<1>7. KeyOf(x) \in Ctxs \cup {Literal}
  BY DEF KeyOf
<1>8. \E read \in Found(IdOf(memory[x])), written \in Found(IdOf(memory[x])) :
         slots' = (slots \ written) \cup
               {[key |-> KeyOf(x), filed |-> IdOf(memory[x]),
                 list |-> Kept(ListOf(read), EntryOf(x))]}
  BY DEF Add, Kept
<1> QED BY <1>1, <1>2, <1>3, <1>4, <1>6, <1>7, <1>8

LEMMA HistoryInvInit == HistoryInit => HistoryInv /\ BusyNamed
BY EmptySeq DEF HistoryInit, HistoryInv, BusyNamed

LEMMA HistoryInvNext ==
    HistoryInv /\ BusyNamed /\ [HistoryNext]_historyVars => HistoryInv' /\ BusyNamed'
<1> SUFFICES ASSUME HistoryInv, BusyNamed, [HistoryNext]_historyVars
             PROVE  HistoryInv' /\ BusyNamed'
  OBVIOUS
<1>1. ASSUME NEW x \in Ctxs, NEW r \in Request, ListArrives(x, r) \/ OtherRequest(x, r)
      PROVE  HistoryInv' /\ BusyNamed'
  <2>1. memory' \in [Ctxs -> Request] /\ busy' \in SUBSET Ctxs /\ UNCHANGED <<slots, log>>
    BY <1>1 DEF ListArrives, OtherRequest, HistoryInv
  <2>2. ASSUME NEW y \in busy' PROVE IdOf(memory'[y]) \in Ids
    <3>1. x \in DOMAIN memory /\ memory' = [memory EXCEPT ![x] = r]
      BY <1>1 DEF ListArrives, OtherRequest, HistoryInv
    <3>2. y # x \/ IdOf(r) \in Ids
      BY <1>1 DEF ListArrives, OtherRequest
    <3>3. y # x => y \in busy
      BY <1>1 DEF ListArrives, OtherRequest
    <3>4. y = x => memory'[y] = r
      BY <3>1
    <3>5. y # x => memory'[y] = memory[y]
      BY <2>1, <3>1, <3>3 DEF HistoryInv
    <3> QED BY <3>2, <3>3, <3>4, <3>5 DEF BusyNamed
  <2> QED BY <2>1, <2>2 DEF HistoryInv, Recorded, BusyNamed, IdOf
<1>2. ASSUME NEW x \in Ctxs, ListFails(x) PROVE HistoryInv' /\ BusyNamed'
  BY <1>2 DEF ListFails, HistoryInv, Recorded, BusyNamed, IdOf
<1>3. ASSUME NEW x \in Ctxs, Add(x) PROVE HistoryInv' /\ BusyNamed'
  <2>1. PICK read \in Found(IdOf(memory[x])), written \in Found(IdOf(memory[x])) :
            /\ Recorded(ListOf(read))
            /\ slots' = (slots \ written) \cup
                  {[key |-> KeyOf(x), filed |-> IdOf(memory[x]),
                    list |-> Kept(ListOf(read), EntryOf(x))]}
    BY <1>3, AddedSlot
  <2> DEFINE list == ListOf(read)
             e == EntryOf(x)
             kept == Kept(list, e)
  <2>2. /\ IdOf(memory[x]) \in Ids /\ log' \in Seq(Logged) /\ Len(log) \in Nat
        /\ Len(log') = Len(log) + 1 /\ e \in Entry /\ e.at = Len(log) + 1
        /\ KeyOf(x) \in Ctxs \cup {Literal}
    BY <1>3, AddedSlot
  <2>3. UNCHANGED memory /\ busy' \in SUBSET Ctxs /\ busy' \subseteq busy
    BY <1>3 DEF Add, HistoryInv
  <2>4. ASSUME NEW l, Recorded(l) PROVE Recorded(l)'
    BY <2>2, <2>4 DEF Recorded
  <2>5. kept \in Seq(Entry) /\ \A i \in 1..Len(kept) : kept[i].at \in 1..Len(log')
    <3>1. list \in Seq(Entry) /\ \A i \in 1..Len(list) : list[i].at \in 1..Len(log)
      BY <2>1 DEF Recorded
    <3> HIDE DEF list, e
    <3>2. kept \in Seq(Entry) /\ \A i \in 1..Len(kept) :
              \E j \in 1 .. Len(list) + 1 : kept[i] = IF j = Len(list) + 1 THEN e ELSE list[j]
      BY <2>2, <3>1, AppendedTrimmed
    <3>3. \A j \in 1 .. Len(list) + 1 : j = Len(list) + 1 \/ j \in 1..Len(list)
      BY <3>1, LenProperties
    <3> HIDE DEF kept
    <3> QED BY <2>2, <3>1, <3>2, <3>3
  <2> HIDE DEF kept
  <2>7. ASSUME NEW s \in slots'
        PROVE  s.key \in Ctxs \cup {Literal} /\ s.filed \in Ids /\ Recorded(s.list)'
    <3>1. CASE s \in slots
      BY <2>4, <3>1 DEF HistoryInv
    <3>2. CASE s = [key |-> KeyOf(x), filed |-> IdOf(memory[x]), list |-> kept]
      BY <2>2, <2>5, <3>2 DEF Recorded
    <3> QED BY <2>1, <2>7, <3>1, <3>2 DEF kept
  <2>8. HistoryInv'
    BY <2>2, <2>3, <2>7 DEF HistoryInv
  <2>9. BusyNamed'
    BY <2>3 DEF BusyNamed, IdOf
  <2> QED BY <2>8, <2>9
<1>4. CASE UNCHANGED historyVars
  BY <1>4 DEF historyVars, HistoryInv, Recorded, BusyNamed, IdOf
<1> QED BY <1>1, <1>2, <1>3, <1>4 DEF HistoryNext

\* The log's variables keep their types, and an entry is of a query that was
\* logged (history.go:32-43).
THEOREM HistoryTypeCorrect == HistorySpec => []HistoryTypeOK
<1>1. HistoryInv => HistoryTypeOK
  <2> SUFFICES ASSUME HistoryInv PROVE HistoryTypeOK
    OBVIOUS
  <2>1. ASSUME NEW s \in slots, NEW i \in DOMAIN s.list
        PROVE  s.list[i].ctx \in Ctxs /\ s.list[i].at \in 1..Len(log)
    <3>1. s.list \in Seq(Entry) /\ \A j \in 1..Len(s.list) : s.list[j].at \in 1..Len(log)
      BY DEF HistoryInv, Recorded
    <3>2. i \in 1..Len(s.list)
      BY <3>1, LenProperties
    <3>3. s.list[i] \in Entry
      BY <3>1, <3>2, ElementOfSeq
    <3> QED BY <3>1, <3>2, <3>3 DEF Entry
  <2>2. \A i \in DOMAIN log : log[i] \in Logged
    BY LenProperties, ElementOfSeq DEF HistoryInv
  <2> QED BY <2>1, <2>2 DEF HistoryInv, HistoryTypeOK
<1> QED BY <1>1, HistoryInvInit, HistoryInvNext, PTL DEF HistorySpec

\* Every list has its entries in the order they were recorded, as many as are
\* kept.
Ordered(list) ==
    /\ Len(list) <= MaxEntries
    /\ \A i, j \in 1..Len(list) : i < j => list[i].at < list[j].at

ListsOrdered == \A s \in slots : Ordered(s.list)

LEMMA OrderedKept ==
    ASSUME NEW list \in Seq(Entry), NEW e \in Entry, Ordered(list),
           \A i \in 1..Len(list) : list[i].at < e.at
    PROVE  Ordered(Kept(list, e))
<1> DEFINE n == Len(list)
           kept == Kept(list, e)
<1>1. /\ n \in Nat
      /\ Len(kept) = IF n < MaxEntries THEN n + 1 ELSE MaxEntries
      /\ \A i \in 1..Len(kept) : \E j \in 1 .. n + 1 :
            j = n + 1 - Len(kept) + i /\ kept[i] = IF j = n + 1 THEN e ELSE list[j]
  BY AppendedTrimmed
<1>2. MaxEntries \in Nat /\ MaxEntries >= 1
  BY HistoryAssumption
<1>3. \A i, j \in 1..n : i < j => list[i].at < list[j].at
  BY DEF Ordered
<1> HIDE DEF kept, n
<1>4. ASSUME NEW i \in 1..Len(kept), NEW j \in 1..Len(kept), i < j
      PROVE  kept[i].at < kept[j].at
  <2>1. PICK a \in 1 .. n + 1 :
            a = n + 1 - Len(kept) + i /\ kept[i] = IF a = n + 1 THEN e ELSE list[a]
    BY <1>1
  <2>2. PICK b \in 1 .. n + 1 :
            b = n + 1 - Len(kept) + j /\ kept[j] = IF b = n + 1 THEN e ELSE list[b]
    BY <1>1
  <2>3. Len(kept) \in Nat
    BY <1>1, <1>2
  <2>4. a < b /\ a \in 1..n
    BY <1>1, <1>4, <2>1, <2>2, <2>3
  <2>5. kept[i] = list[a]
    BY <1>1, <2>1, <2>4
  <2>6. CASE b = n + 1
    BY <2>2, <2>4, <2>5, <2>6 DEF n
  <2>7. CASE b # n + 1
    <3>1. b \in 1..n /\ kept[j] = list[b]
      BY <1>1, <2>2, <2>7
    <3> QED BY <1>3, <2>4, <2>5, <3>1
  <2> QED BY <2>6, <2>7
<1>5. Len(kept) <= MaxEntries
  BY <1>1, <1>2
<1> QED BY <1>4, <1>5 DEF Ordered, kept

LEMMA ListsOrderedNext ==
    HistoryInv /\ BusyNamed /\ ListsOrdered /\ [HistoryNext]_historyVars => ListsOrdered'
<1> SUFFICES ASSUME HistoryInv, BusyNamed, ListsOrdered, [HistoryNext]_historyVars
             PROVE  ListsOrdered'
  OBVIOUS
<1>1. ASSUME NEW x \in Ctxs, Add(x) PROVE ListsOrdered'
  <2>1. PICK read \in Found(IdOf(memory[x])), written \in Found(IdOf(memory[x])) :
            /\ Recorded(ListOf(read))
            /\ slots' = (slots \ written) \cup
                  {[key |-> KeyOf(x), filed |-> IdOf(memory[x]),
                    list |-> Kept(ListOf(read), EntryOf(x))]}
    BY <1>1, AddedSlot
  <2>2. Len(log) \in Nat /\ EntryOf(x) \in Entry /\ EntryOf(x).at = Len(log) + 1
    BY <1>1, AddedSlot
  <2>3. Ordered(<<>>)
    BY HistoryAssumption DEF Ordered
  <2>4. Ordered(ListOf(read))
    BY <2>3, FoundSlot DEF ListsOrdered
  <2>5. /\ ListOf(read) \in Seq(Entry)
        /\ \A i \in 1..Len(ListOf(read)) : ListOf(read)[i].at < EntryOf(x).at
    BY <2>1, <2>2 DEF Recorded
  <2>6. Ordered(Kept(ListOf(read), EntryOf(x)))
    BY <2>2, <2>4, <2>5, OrderedKept
  <2> QED BY <2>1, <2>6 DEF ListsOrdered, Ordered
<1>2. CASE UNCHANGED slots
  BY <1>2 DEF ListsOrdered, Ordered
<1> QED BY <1>1, <1>2 DEF HistoryNext, ListArrives, OtherRequest, ListFails, historyVars

\* A listing is a list read backwards.
LEMMA ListingReversed ==
    ASSUME NEW list \in Seq(Entry)
    PROVE  /\ Len(RowsOf(Reverse(list))) = Len(list)
           /\ DOMAIN RowsOf(Reverse(list)) = 1..Len(list)
           /\ \A i \in 1..Len(list) :
                 RowsOf(Reverse(list))[i].at = list[(Len(list) - i) + 1].at
<1> DEFINE back == Reverse(list)
           rows == RowsOf(back)
<1>1. Len(list) \in Nat
  BY LenProperties
<1>2. DOMAIN back = 1..Len(list)
      /\ \A i \in 1..Len(list) : back[i] = list[(Len(list) - i) + 1]
  BY DEF Reverse
<1> HIDE DEF back
<1>3. DOMAIN rows = 1..Len(list) /\ \A i \in 1..Len(list) : rows[i].at = back[i].at
  BY <1>2 DEF RowsOf
<1>4. rows = [i \in 1..Len(list) |-> rows[i]]
  BY <1>2 DEF RowsOf
<1>5. Len(rows) = Len(list)
  BY <1>1, <1>3, <1>4, LenProperties
<1> QED BY <1>2, <1>3, <1>5 DEF back

\* However the map's keys change, a listing is no longer than the cap and most
\* recent first, in every mode.
THEOREM HistoryIsOrdered == HistorySpec => []MostRecentFirst
<1>1. HistoryInv /\ ListsOrdered => MostRecentFirst
  <2> SUFFICES ASSUME HistoryInv, ListsOrdered, NEW id \in Ids, NEW rows \in Listings(id)
               PROVE  /\ Len(rows) <= MaxEntries
                      /\ \A i, j \in DOMAIN rows : i < j => rows[i].at > rows[j].at
    BY DEF MostRecentFirst
  <2>1. PICK found \in Found(id) : rows = RowsOf(Reverse(ListOf(found)))
    BY DEF Listings
  <2> DEFINE list == ListOf(found)
  <2>2. Ordered(<<>>) /\ Recorded(<<>>)
    BY HistoryAssumption, EmptySeq DEF Ordered, Recorded
  <2>3. Ordered(list) /\ Recorded(list)
    BY <2>2, FoundSlot DEF ListsOrdered, HistoryInv
  <2>4. list \in Seq(Entry) /\ Len(list) \in Nat
    BY <2>3, LenProperties DEF Recorded
  <2>5. /\ Len(rows) = Len(list) /\ DOMAIN rows = 1..Len(list)
        /\ \A i \in 1..Len(list) : rows[i].at = list[(Len(list) - i) + 1].at
    BY <2>1, <2>4, ListingReversed
  <2> HIDE DEF list
  <2>6. ASSUME NEW i \in DOMAIN rows, NEW j \in DOMAIN rows, i < j
        PROVE  rows[i].at > rows[j].at
    <3> DEFINE a == (Len(list) - i) + 1
               b == (Len(list) - j) + 1
    <3>1. a \in 1..Len(list) /\ b \in 1..Len(list) /\ b < a
      BY <2>4, <2>5, <2>6
    <3>2. list[a] \in Entry /\ list[b] \in Entry /\ list[b].at < list[a].at
      BY <2>3, <2>4, <3>1, ElementOfSeq DEF Ordered
    <3>3. rows[i].at = list[a].at /\ rows[j].at = list[b].at
      BY <2>5
    <3>4. list[a].at \in Nat /\ list[b].at \in Nat
      BY <3>2 DEF Entry
    <3> QED BY <3>2, <3>3, <3>4
  <2> QED BY <2>3, <2>5, <2>6 DEF Ordered
<1>2. HistoryInit => ListsOrdered
  BY DEF HistoryInit, ListsOrdered
<1> QED
  BY <1>1, <1>2, HistoryInvInit, HistoryInvNext, ListsOrderedNext, PTL DEF HistorySpec

\* The list is of the latest queries in the order they were recorded.
Latest(list, total) ==
    /\ Len(list) = IF total < MaxEntries THEN total ELSE MaxEntries
    /\ \A i \in 1..Len(list) : list[i].at = total - Len(list) + i

\* No header named a session.
Unnamed == \A i \in DOMAIN log : ~log[i].named

\* In one session that no header names there is one list, from the first query
\* on, and its key is the constant.
OneSession ==
    Ids = {DefaultId} /\ Unnamed =>
        \/ slots = {} /\ log = <<>>
        \/ \E s : slots = {s} /\ s.key = Literal /\ Latest(s.list, Len(log))

\* What a map access finds in one session.
LEMMA FoundAlone ==
    ASSUME HistoryInv, OneSession, Ids = {DefaultId}, Unnamed, NEW found \in Found(DefaultId)
    PROVE  /\ found = slots /\ Latest(ListOf(found), Len(log))
           /\ ListOf(found) \in Seq(Entry)
<1>1. \A s \in slots : s.filed = DefaultId /\ s.list \in Seq(Entry)
  BY DEF HistoryInv, Recorded
<1>2. CASE slots = {} /\ log = <<>>
  <2>1. found = {} /\ ListOf(found) = <<>>
    BY <1>2, FoundSlot
  <2>2. Latest(<<>>, 0)
    BY HistoryAssumption DEF Latest
  <2>3. Len(log) = 0 /\ <<>> \in Seq(Entry)
    BY <1>2, EmptySeq
  <2> QED BY <1>2, <2>1, <2>2, <2>3
<1>3. ASSUME NEW s, slots = {s}, s.key = Literal, Latest(s.list, Len(log))
      PROVE  /\ found = slots /\ Latest(ListOf(found), Len(log))
             /\ ListOf(found) \in Seq(Entry)
  <2>1. Spelled(s) = DefaultId /\ s.filed = DefaultId
    BY <1>1, <1>3 DEF Spelled
  <2>2. Found(DefaultId) = {{s}}
    BY <1>3, <2>1 DEF Found
  <2>3. found = {s}
    BY <2>2
  <2>4. ListOf(found) = s.list
    BY <2>3 DEF ListOf
  <2> QED BY <1>1, <1>3, <2>3, <2>4
<1> QED BY <1>2, <1>3 DEF OneSession

\* One more query, and the list is of the latest again.
LEMMA LatestKept ==
    ASSUME NEW list \in Seq(Entry), NEW e \in Entry, NEW total \in Nat,
           Latest(list, total), e.at = total + 1
    PROVE  Latest(Kept(list, e), total + 1)
<1> DEFINE n == Len(list)
           kept == Kept(list, e)
<1>1. /\ n \in Nat /\ kept \in Seq(Entry)
      /\ Len(kept) = IF n < MaxEntries THEN n + 1 ELSE MaxEntries
      /\ \A i \in 1..Len(kept) : \E j \in 1 .. n + 1 :
            j = n + 1 - Len(kept) + i /\ kept[i] = IF j = n + 1 THEN e ELSE list[j]
  BY AppendedTrimmed
<1>2. MaxEntries \in Nat /\ MaxEntries >= 1
  BY HistoryAssumption
<1>3. /\ n = IF total < MaxEntries THEN total ELSE MaxEntries
      /\ \A i \in 1..n : list[i].at = total - n + i
  BY DEF Latest
<1> HIDE DEF kept, n
<1>4. Len(kept) = IF total + 1 < MaxEntries THEN total + 1 ELSE MaxEntries
  BY <1>1, <1>2, <1>3
<1>5. ASSUME NEW i \in 1..Len(kept)
      PROVE  kept[i].at = total + 1 - Len(kept) + i
  <2>1. PICK j \in 1 .. n + 1 :
            j = n + 1 - Len(kept) + i /\ kept[i] = IF j = n + 1 THEN e ELSE list[j]
    BY <1>1
  <2>2. Len(kept) \in Nat
    BY <1>2, <1>4
  <2>3. CASE j = n + 1
    <3>1. i = Len(kept)
      BY <1>1, <2>1, <2>2, <2>3
    <3>2. kept[i].at = total + 1
      BY <2>1, <2>3
    <3> QED BY <2>2, <3>1, <3>2
  <2>4. CASE j # n + 1
    <3>1. j \in 1..n
      BY <1>1, <2>1, <2>4
    <3>2. kept[i].at = total - n + j
      BY <1>3, <2>1, <2>4, <3>1
    <3>3. j = n + 1 - Len(kept) + i /\ i \in Int /\ n \in Nat
      BY <1>1, <2>1
    <3> QED BY <2>2, <3>2, <3>3
  <2> QED BY <2>3, <2>4
<1> QED BY <1>4, <1>5 DEF Latest, kept

\* One more logged query, and the earlier ones are still there.
LEMMA UnnamedBefore ==
    ASSUME log \in Seq(Logged), NEW e \in Logged, log' = Append(log, e), Unnamed'
    PROVE  Unnamed /\ ~e.named
<1>1. /\ Len(log) \in Nat /\ DOMAIN log = 1..Len(log)
      /\ Len(log') = Len(log) + 1 /\ DOMAIN log' = 1 .. Len(log) + 1
      /\ \A i \in 1..Len(log) : log'[i] = log[i]
      /\ log'[Len(log) + 1] = e
  BY AppendProperties, LenProperties
<1>2. \A i \in 1 .. Len(log) + 1 : ~log'[i].named
  BY <1>1 DEF Unnamed
<1>3. \A i \in 1..Len(log) : i \in 1 .. Len(log) + 1
  BY <1>1
<1>4. Len(log) + 1 \in 1 .. Len(log) + 1
  BY <1>1
<1> QED BY <1>1, <1>2, <1>3, <1>4 DEF Unnamed

LEMMA OneSessionNext ==
    HistoryInv /\ BusyNamed /\ OneSession /\ [HistoryNext]_historyVars => OneSession'
<1> SUFFICES ASSUME HistoryInv, BusyNamed, OneSession, [HistoryNext]_historyVars,
                    Ids = {DefaultId}, Unnamed'
             PROVE  \/ slots' = {} /\ log' = <<>>
                    \/ \E s : slots' = {s} /\ s.key = Literal /\ Latest(s.list, Len(log'))
  BY DEF OneSession, Latest
<1>1. ASSUME NEW x \in Ctxs, Add(x)
      PROVE  \E s : slots' = {s} /\ s.key = Literal /\ Latest(s.list, Len(log'))
  <2>1. PICK e \in Logged : log' = Append(log, e) /\ e.named = memory[x].named
    BY <1>1, AddedSlot
  <2>2. Unnamed /\ ~memory[x].named
    BY <2>1, UnnamedBefore DEF HistoryInv
  <2>3. IdOf(memory[x]) = DefaultId /\ KeyOf(x) = Literal
    BY <2>2 DEF IdOf, KeyOf
  <2>4. PICK read \in Found(DefaultId), written \in Found(DefaultId) :
            slots' = (slots \ written) \cup
                {[key |-> Literal, filed |-> DefaultId, list |-> Kept(ListOf(read), EntryOf(x))]}
    BY <1>1, <2>3, AddedSlot
  <2>5. /\ Len(log) \in Nat /\ Len(log') = Len(log) + 1
        /\ EntryOf(x) \in Entry /\ EntryOf(x).at = Len(log) + 1
    BY <1>1, AddedSlot
  <2>6. /\ written = slots /\ Latest(ListOf(read), Len(log))
        /\ ListOf(read) \in Seq(Entry)
    BY <2>2, <2>4, FoundAlone
  <2> DEFINE kept == Kept(ListOf(read), EntryOf(x))
             s == [key |-> Literal, filed |-> DefaultId, list |-> kept]
  <2>7. Latest(kept, Len(log'))
    BY <2>5, <2>6, LatestKept
  <2>8. slots' = {s}
    BY <2>4, <2>6
  <2> HIDE DEF kept
  <2>9. s.key = Literal /\ s.list = kept
    OBVIOUS
  <2> HIDE DEF s
  <2>10. Latest(s.list, Len(log'))
    BY <2>7, <2>9
  <2> QED BY <2>8, <2>9, <2>10
<1>2. CASE UNCHANGED <<slots, log>>
  BY <1>2 DEF OneSession, Unnamed
<1> QED BY <1>1, <1>2 DEF HistoryNext, ListArrives, OtherRequest, ListFails, historyVars

\* In one session that no header names, the listing is the latest queries,
\* none missing and none twice, most recent first (history.go:45).
THEOREM HistoryIsLatestFirst == HistorySpec => []LatestFirst
<1>1. HistoryInv /\ OneSession => LatestFirst
  <2> SUFFICES ASSUME HistoryInv, OneSession, Ids = {DefaultId}, Unnamed,
                      NEW rows \in Listings(DefaultId)
               PROVE  AreLatest(rows)
    BY DEF LatestFirst, Unnamed
  <2>1. PICK found \in Found(DefaultId) : rows = RowsOf(Reverse(ListOf(found)))
    BY DEF Listings
  <2> DEFINE list == ListOf(found)
  <2>2. Latest(list, Len(log)) /\ list \in Seq(Entry)
    BY FoundAlone
  <2>3. Len(list) \in Nat /\ Len(log) \in Nat
    BY <2>2, LenProperties DEF HistoryInv
  <2>4. /\ Len(rows) = Len(list) /\ DOMAIN rows = 1..Len(list)
        /\ \A i \in 1..Len(list) : rows[i].at = list[(Len(list) - i) + 1].at
    BY <2>1, <2>2, ListingReversed
  <2> HIDE DEF list
  <2>5. ASSUME NEW i \in 1..Len(list) PROVE rows[i].at = Len(log) + 1 - i
    <3>1. (Len(list) - i) + 1 \in 1..Len(list)
      BY <2>3
    <3>2. list[(Len(list) - i) + 1].at = Len(log) - Len(list) + ((Len(list) - i) + 1)
      BY <2>2, <3>1 DEF Latest
    <3> QED BY <2>3, <2>4, <3>2
  <2> QED BY <2>2, <2>4, <2>5 DEF Latest, AreLatest
<1>2. HistoryInit => OneSession
  BY DEF HistoryInit, OneSession
<1> QED
  BY <1>1, <1>2, HistoryInvInit, HistoryInvNext, OneSessionNext, PTL DEF HistorySpec
-----------------------------------------------------------------------------
(***************************************************************************)
(* The stores together                                                     *)
(***************************************************************************)

\* A behaviour of the two stores is one of each of them, so what is proved of
\* the tickets and of the history holds where both are kept.
THEOREM StoresAreOfParts == StoresSpec => Spec /\ HistorySpec
<1>1. StoresInit => Init /\ HistoryInit
  BY DEF StoresInit
<1>2. [StoresNext]_storesVars => [Next]_vars /\ [HistoryNext]_historyVars
  <2>1. StoresNext => (Next \/ UNCHANGED vars) /\ (HistoryNext \/ UNCHANGED historyVars)
    BY DEF StoresNext
  <2>2. UNCHANGED storesVars => UNCHANGED vars /\ UNCHANGED historyVars
    BY DEF storesVars
  <2> QED BY <2>1, <2>2
<1> QED BY <1>1, <1>2, PTL DEF StoresSpec, Spec, HistorySpec

\* Where both are kept, the tickets kept are of minted tokens, and the entries of
\* the history of queries that were logged.
THEOREM StoresTypeCorrect == StoresSpec => []StoresTypeOK
<1>1. TypeOK /\ HistoryTypeOK => StoresTypeOK
  BY DEF StoresTypeOK
<1> QED BY <1>1, StoresAreOfParts, TypeCorrect, HistoryTypeCorrect, PTL
=============================================================================
