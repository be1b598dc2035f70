---------------------------- MODULE QueryHistory ----------------------------
(***************************************************************************)
(* pkg/history and the handlers that use it: the log of filtered queries   *)
(* kept for each session.                                                  *)
(*                                                                         *)
(* The strings that Fiber's Params, Query and Get return are views of the  *)
(* memory of a request context, which serves a later request once this one *)
(* is answered (handlers_export.go:56-60).  handleListDocuments puts such  *)
(* strings into the log uncloned: the database, collection and filter of   *)
(* an entry, and the session ID it is filed under when a header names it.  *)
(* Here a stored string is the context it came from and reads as what that *)
(* context holds now.                                                      *)
(***************************************************************************)
EXTENDS Naturals, SequencesExt

CONSTANTS Ctxs,       \* pooled request contexts: a request occupies one
          Words,      \* what the memory of a session header may spell
          Ids,        \* the session IDs that are connected
          DefaultId,  \* session.DefaultID, when no header names one
          Literal,    \* marks the string constant, which no request overwrites
          Queries,    \* a query: its database, collection and filter
          MaxEntries, \* MaxEntriesPerSession
          MaxLog      \* bound: how many queries a run records

ASSUME HistoryAssumption ==
    /\ Ids \subseteq Words
    /\ Literal \notin Ctxs
    /\ MaxEntries \in Nat \ {0}
    /\ MaxLog \in Nat

VARIABLES memory,  \* what the last request of each context left in it
          busy,    \* the contexts with a list request under way
          slots,   \* the slots of the map Store.entries
          log      \* every query recorded so far, for the properties

historyVars == <<memory, busy, slots, log>>

\* named: it carries X-Session-Id, which spells word.  Without the header
\* those bytes are something else's.
Request == [word : Words, named : BOOLEAN, query : Queries]

\* resolveSessionID.  A signed ID is verified first and is then a part of the
\* header too.
IdOf(r) == IF r.named THEN r.word ELSE DefaultId

\* A query as it was run: what it asked, in which session, and whether a
\* header named that session.
Logged == [id : Ids, query : Queries, named : BOOLEAN]

\* at: when it was recorded.  That string is made for the entry and is safe.
Entry == [ctx : Ctxs, at : Nat]

\* key: the context whose memory the key string is, if it is not the literal.
\* filed: what the string said when the map hashed it.
Slot == [key : Ctxs \cup {Literal}, filed : Ids, list : Seq(Entry)]

\* Slots, requests and the log keep their types, and each entry is of a query
\* that was logged (history.go:32-43).
HistoryTypeOK ==
    /\ memory \in [Ctxs -> Request]
    /\ busy \in SUBSET Ctxs
    /\ \A s \in slots :
          /\ s.key \in Ctxs \cup {Literal} /\ s.filed \in Ids
          /\ \A i \in DOMAIN s.list : s.list[i].ctx \in Ctxs /\ s.list[i].at \in 1 .. Len(log)
    /\ \A i \in DOMAIN log : log[i] \in Logged

HistoryInit ==
    /\ memory \in [Ctxs -> Request]
    /\ busy = {}
    /\ slots = {}
    /\ log = <<>>

\* What a slot's key spells now.
Spelled(s) == IF s.key = Literal THEN DefaultId ELSE memory[s.key].word

\* The slots a map access by id may find.  One whose key changed since it was
\* hashed may be found, as a small map compares without hashing, or not.
Found(id) ==
    LET spelled == {s \in slots : Spelled(s) = id}
        sure    == {s \in spelled : s.filed = id}
    IN  IF sure = {} THEN {{}} \cup {{s} : s \in spelled} ELSE {{s} : s \in spelled}

ListOf(found) == IF found = {} THEN <<>> ELSE (CHOOSE s \in found : TRUE).list

\* entries[len(entries)-MaxEntriesPerSession:]
Trimmed(list) ==
    IF Len(list) > MaxEntries
    THEN SubSeq(list, Len(list) - MaxEntries + 1, Len(list)) ELSE list

\* history.Entry, as handleListDocuments fills it from context x.
EntryOf(x) == [ctx |-> x, at |-> Len(log) + 1]

\* A request with a filter to list documents with.  withSession answers one
\* whose session is not connected.
ListArrives(x, r) ==
    /\ x \notin busy
    /\ IdOf(r) \in Ids
    /\ busy' = busy \cup {x}
    /\ memory' = [memory EXCEPT ![x] = r]
    /\ UNCHANGED <<slots, log>>

\* Any other request: it leaves its own words in the memory, or some of them.
OtherRequest(x, r) ==
    /\ x \notin busy
    /\ memory' = [memory EXCEPT ![x] = r]
    /\ UNCHANGED <<busy, slots, log>>

\* Find failed: nothing is recorded.
ListFails(x) ==
    /\ x \in busy
    /\ busy' = busy \ {x}
    /\ UNCHANGED <<memory, slots, log>>

\* Mutant of KeyOf: the key is the request's string even when no header named
\* a session.
KeyAlwaysRequests(x) == x

\* The string currentSessionID returns: the header's, or the constant.
KeyOf(x) == IF memory[x].named THEN x ELSE Literal

\* Store.Add: read the slot, append, trim, and assign, which also makes the
\* new string the key of the slot assigned to.
Add(x) ==
    /\ x \in busy
    /\ Len(log) < MaxLog
    /\ LET id == IdOf(memory[x])
       IN  /\ log' = Append(log, [id |-> id, query |-> memory[x].query,
                                  named |-> memory[x].named])
           /\ \E read \in Found(id), written \in Found(id) :
                 slots' = (slots \ written) \cup
                     {[key |-> KeyOf(x), filed |-> id,
                       list |-> Trimmed(Append(ListOf(read), EntryOf(x)))]}
    /\ busy' = busy \ {x}
    /\ UNCHANGED memory

HistoryNext ==
    \E x \in Ctxs :
        \/ \E r \in Request : ListArrives(x, r) \/ OtherRequest(x, r)
        \/ ListFails(x)
        \/ Add(x)

HistorySpec == HistoryInit /\ [][HistoryNext]_historyVars

\* How the entries of a list read now.
RowsOf(list) ==
    [i \in DOMAIN list |-> [query |-> memory[list[i].ctx].query, at |-> list[i].at]]

\* Mutant of Listings: oldest first.
ListingsOldestFirst(id) == {RowsOf(ListOf(found)) : found \in Found(id)}

\* Store.List: what GET /history may answer a session now, newest first.
Listings(id) == {RowsOf(Reverse(ListOf(found))) : found \in Found(id)}
-----------------------------------------------------------------------------
(* Properties *)

\* However the keys of the map change under it, a listing shows no more than
\* MaxEntriesPerSession rows (history.go:17), most recent first (history.go:45)
\* and none of them twice.
MostRecentFirst ==
    \A id \in Ids : \A rows \in Listings(id) :
        /\ Len(rows) <= MaxEntries
        /\ \A i, j \in DOMAIN rows : i < j => rows[i].at > rows[j].at

\* The rows are the latest queries that were run, none missing.
AreLatest(rows) ==
    /\ Len(rows) = IF Len(log) < MaxEntries THEN Len(log) ELSE MaxEntries
    /\ \A i \in DOMAIN rows : rows[i].at = Len(log) + 1 - i

\* In single-connection mode, as long as the queries come without a session
\* header, the listing is the latest of them, none missing and none twice,
\* most recent first: the key is then a constant, whatever becomes of the
\* memory of the requests.  That mode "goes out with no header"
\* (web/src/api/http.ts:4-6), but for a browser that connected through the form:
\* its key is the memory of its request, and queries may be missing.
LatestFirst ==
    Ids = {DefaultId} /\ (\A i \in DOMAIN log : ~log[i].named)
        => \A rows \in Listings(DefaultId) : AreLatest(rows)

\* "lists the queries run in this session, with the database, collection and
\* filter for each", and "isn't shared between connections in --sessions mode"
\* (docs/features/history.md:3-4, :12): a row is what the session it is shown
\* to ran at that time.
ListsOwnQueries ==
    \A id \in Ids : \A rows \in Listings(id) : \A i \in DOMAIN rows :
        /\ log[rows[i].at].id = id
        /\ log[rows[i].at].query = rows[i].query
=============================================================================
