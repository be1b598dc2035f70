---------------------------- MODULE WebListProofs ----------------------------
(***************************************************************************)
(* Proofs about what the browser shows of the server: the list of          *)
(* documents, for any collections, sizes, limits and thresholds, and the   *)
(* session gate with the queries behind it, for any connections.           *)
(***************************************************************************)
EXTENDS DocumentList, WebSession, FiniteSetTheorems, TLAPS

(***************************************************************************)
(* The options of the page size                                            *)
(***************************************************************************)

\* Every limit that can be chosen is positive.
LEMMA LimitsArePositive == AllLimits \subseteq Nat \ {0}
<1>1. Range(Standard) \subseteq Nat \ {0}
  BY DocumentListAssumption DEF Range
<1>2. Range(Fine) \subseteq Nat \ {0}
  BY DocumentListAssumption DEF Range
<1> QED BY <1>1, <1>2 DEF AllLimits

\* Whatever the average size, the options offered are limits of one list or
\* the other.
LEMMA OptionsAreLimits ==
    ASSUME NEW avg, NEW i \in DOMAIN LimitOptions(avg)
    PROVE  LimitOptions(avg)[i] \in AllLimits
<1> USE DocumentListAssumption
<1>1. CASE NeedsFine(avg)
  <2>1. /\ LimitOptions(avg) = Fine \o Standard
        /\ i \in 1 .. Len(Fine) + Len(Standard)
    BY <1>1 DEF LimitOptions
  <2>2. CASE i <= Len(Fine)
    <3>1. i \in DOMAIN Fine /\ LimitOptions(avg)[i] = Fine[i]
      BY <2>1, <2>2
    <3> QED BY <3>1 DEF AllLimits, Range
  <2>3. CASE ~(i <= Len(Fine))
    <3>1. /\ i - Len(Fine) \in DOMAIN Standard
          /\ LimitOptions(avg)[i] = Standard[i - Len(Fine)]
      BY <2>1, <2>3
    <3> QED BY <3>1 DEF AllLimits, Range
  <2> QED BY <2>2, <2>3
<1>2. CASE ~NeedsFine(avg)
  BY <1>2 DEF LimitOptions, AllLimits, Range
<1> QED BY <1>1, <1>2

\* A whole number of pages, and one more or less, are whole numbers of pages.
LEMMA PagesOfPages ==
    ASSUME NEW k \in Int, NEW n \in Int, n > 0
    PROVE  (k * n) % n = 0
BY SMTT(30)

LEMMA NumberOfPages ==
    ASSUME NEW skip \in Nat, NEW n \in Nat \ {0}, skip % n = 0
    PROVE  \E k \in Nat : skip = k * n
<1>1. skip = n * (skip \div n) + (skip % n)
  BY SMTT(30)
<1> QED BY <1>1, SMTT(30)

LEMMA NextPageIsWhole ==
    ASSUME NEW skip \in Nat, NEW n \in Nat \ {0}, skip % n = 0
    PROVE  (skip + n) % n = 0
<1>1. PICK k \in Nat : skip = k * n
  BY NumberOfPages
<1>2. skip + n = (k + 1) * n
  BY <1>1
<1>3. ((k + 1) * n) % n = 0
  BY PagesOfPages
<1> QED BY <1>2, <1>3

LEMMA PreviousPageIsWhole ==
    ASSUME NEW skip \in Nat, NEW n \in Nat \ {0}, skip % n = 0
    PROVE  (skip - n) % n = 0
<1>1. PICK k \in Nat : skip = k * n
  BY NumberOfPages
<1>2. skip - n = (k - 1) * n
  BY <1>1
<1>3. ((k - 1) * n) % n = 0
  BY PagesOfPages
<1> QED BY <1>2, <1>3

LEMMA FirstIsWhole == ASSUME NEW n \in Nat \ {0} PROVE 0 % n = 0
<1>1. (0 * n) % n = 0
  BY PagesOfPages
<1> QED BY <1>1

LEMMA SuggestionIsLimit == \A avg : Suggestion(avg) \subseteq AllLimits
BY OptionsAreLimits DEF Suggestion, SafeOptions

LEMMA ChoiceIsLimit == \A avg : Range(LimitOptions(avg)) \subseteq AllLimits
BY OptionsAreLimits DEF Range

LEMMA FirstPageIsView ==
    ASSUME NEW coll \in ListColls, NEW filter \in Filters
    PROVE  FirstPage(coll, filter) \in Views
<1>1. Len(Standard) \in DOMAIN Standard
  BY DocumentListAssumption
<1>2. Standard[Len(Standard)] \in AllLimits
  BY <1>1 DEF AllLimits, Range
<1> QED BY <1>2, DocumentListAssumption DEF FirstPage, Views
-----------------------------------------------------------------------------
(***************************************************************************)
(* The inductive invariant                                                 *)
(***************************************************************************)

ListRanges ==
    /\ view \in Views
    /\ aggregation \in BOOLEAN
    /\ stats \in [ListColls -> Averages \cup {Unknown}]
    /\ confirmed = agreed
    /\ confirmed = {} \/ \E key \in ListColls \X AllLimits : confirmed = {key}

Queries == [total : {{}} \cup {{n} : n \in Totals}, busy : BOOLEAN, error : BOOLEAN]

\* What the query of the list may be: one that runs has no error of its own.
DocsRanges ==
    /\ docs \in Queries
    /\ prev \in BOOLEAN
    /\ docs.busy /\ docs.total = {} => ~docs.error

\* A query that is enabled has been asked.
EnabledIsAsked == DocumentsEnabled => docs.busy \/ docs.total # {} \/ docs.error

ListInv == ListRanges /\ DocsRanges /\ EnabledIsAsked

LEMMA ListInitially == ListInit => ListInv
<1> SUFFICES ASSUME ListInit PROVE ListInv
  OBVIOUS
<1>1. ListRanges
  BY FirstPageIsView DEF ListInit, ListRanges
<1>2. DocsRanges
  BY DEF ListInit, DocsRanges, Queries
<1>3. view.coll \in ListColls
  BY <1>1 DEF ListRanges, Views
<1>4. ~DocumentsEnabled
  BY <1>3 DEF ListInit, DocumentsEnabled, StatsSettled
<1> QED BY <1>1, <1>2, <1>4 DEF ListInv, EnabledIsAsked

\* Asking again keeps what was loaded.
LEMMA AskingKeeps ==
    ASSUME NEW q \in Queries
    PROVE  /\ Asked(q) \in Queries
           /\ Asked(q).busy /\ Asked(q).total = q.total
           /\ Asked(q).total = {} => ~Asked(q).error
BY DEF Asked, Queries

\* How each change of the query leaves it, and that it only starts to run when
\* it is enabled.
LEMMA ContinuedKeeps ==
    ASSUME DocsRanges, EnabledIsAsked, Continued
    PROVE  /\ DocsRanges' /\ EnabledIsAsked'
           /\ docs'.busy /\ ~docs.busy => DocumentsEnabled'
<1>1. prev' = prev
  BY DEF Continued
<1>2. CASE ~DocumentsEnabled /\ DocumentsEnabled'
  <2>1. CASE docs' = Asked(docs)
    BY <2>1, <1>1, <1>2, AskingKeeps DEF DocsRanges, EnabledIsAsked
  <2>2. CASE docs' = docs /\ (docs.busy \/ docs.total # {})
    BY <2>2, <1>1, <1>2 DEF DocsRanges, EnabledIsAsked
  <2> QED BY <1>2, <2>1, <2>2 DEF Continued
<1>3. CASE ~(~DocumentsEnabled /\ DocumentsEnabled')
  <2>1. docs' = docs
    BY <1>3 DEF Continued
  <2> QED BY <2>1, <1>1, <1>3 DEF DocsRanges, EnabledIsAsked
<1> QED BY <1>2, <1>3

LEMMA ReplacedKeeps ==
    ASSUME DocsRanges, Replaced
    PROVE  /\ DocsRanges' /\ EnabledIsAsked'
           /\ docs'.busy => DocumentsEnabled'
<1> DEFINE E == DocumentsEnabled'
<1>0. E \in BOOLEAN
  BY DEF DocumentsEnabled
<1>1. prev' \in BOOLEAN
  BY DEF Replaced
<1>2. CASE docs' = [total |-> {}, busy |-> E, error |-> FALSE]
  BY <1>0, <1>1, <1>2 DEF DocsRanges, EnabledIsAsked, Queries
<1>3. ASSUME NEW n \in Totals, NEW bit \in {FALSE, E},
             docs' = [total |-> {n}, busy |-> bit, error |-> FALSE]
      PROVE  /\ DocsRanges' /\ EnabledIsAsked'
             /\ docs'.busy => E
  <2>1. bit \in BOOLEAN /\ (bit => E)
    <3>1. bit = FALSE \/ bit = E
      OBVIOUS
    <3>2. CASE bit = FALSE
      BY <3>2
    <3>3. CASE bit = E
      BY <3>3, <1>0, Zenon
    <3> QED BY <3>1, <3>2, <3>3
  <2>2. docs' \in Queries
    BY <1>3, <2>1 DEF Queries
  <2>3. docs'.total # {} /\ docs'.busy = bit /\ docs'.error = FALSE
    BY <1>3
  <2> QED BY <1>1, <2>1, <2>2, <2>3 DEF DocsRanges, EnabledIsAsked
<1> QED BY <1>2, <1>3 DEF Replaced

LEMMA ShowKeeps ==
    ASSUME DocsRanges, EnabledIsAsked, NEW v, Show(v)
    PROVE  /\ DocsRanges' /\ EnabledIsAsked'
           /\ docs'.busy /\ ~docs.busy => DocumentsEnabled'
BY ContinuedKeeps, ReplacedKeeps DEF Show
-----------------------------------------------------------------------------
\* The guard looks at nothing else.
LEMMA SameGuard ==
    ASSUME UNCHANGED <<view, aggregation, stats, confirmed>>
    PROVE  DocumentsEnabled' <=> DocumentsEnabled
BY DEF DocumentsEnabled, StatsSettled, Dangerous, Average, SizeGuardKey

\* A step keeps the invariant, and starts the query only if it is enabled.
StartsEnabled == docs'.busy /\ ~docs.busy => DocumentsEnabled'

LEMMA PagingKeeps ==
    ASSUME ListInv, NEW skip \in 0 .. MaxSkip, NEW limit \in AllLimits, Paginate(skip, limit)
    PROVE  ListInv' /\ StartsEnabled
<1>1. [view EXCEPT !.skip = skip, !.limit = limit] \in Views
  BY DEF ListInv, ListRanges, Views
<1>2. ListRanges'
  BY <1>1 DEF ListInv, ListRanges, Paginate, Show
<1>3. DocsRanges' /\ EnabledIsAsked' /\ StartsEnabled
  BY ShowKeeps DEF ListInv, Paginate, StartsEnabled
<1> QED BY <1>2, <1>3 DEF ListInv

LEMMA ListStep == ListInv /\ [ListNext]_listVars => ListInv' /\ StartsEnabled
<1> SUFFICES ASSUME ListInv, [ListNext]_listVars PROVE ListInv' /\ StartsEnabled
  OBVIOUS
<1> USE DEF ListInv
<1>1. ASSUME NEW avg \in Averages, StatsArrive(avg) PROVE ListInv' /\ StartsEnabled
  <2>1. ListRanges'
    BY <1>1 DEF StatsArrive, ListRanges
  <2> QED BY <2>1, <1>1, ContinuedKeeps DEF StatsArrive, StartsEnabled
<1>2. ASSUME NEW n \in Totals, DocumentsArrive(n) PROVE ListInv' /\ StartsEnabled
  <2>1. ListRanges'
    BY <1>2 DEF DocumentsArrive, ListRanges
  <2> QED BY <2>1, <1>2
       DEF DocumentsArrive, StartsEnabled, DocsRanges, EnabledIsAsked, Queries
<1>3. CASE DocumentsFail
  <2>1. ListRanges'
    BY <1>3 DEF DocumentsFail, ListRanges
  <2>2. /\ docs' \in Queries /\ docs'.busy = FALSE /\ docs'.error = TRUE
        /\ prev' = prev
    BY <1>3 DEF DocumentsFail, DocsRanges, Queries
  <2> QED BY <2>1, <2>2 DEF StartsEnabled, DocsRanges, EnabledIsAsked
<1>4. CASE Refetch
  <2>1. ListRanges'
    BY <1>4 DEF Refetch, ListRanges
  <2>2. DocumentsEnabled'
    BY <1>4, SameGuard DEF Refetch
  <2> QED BY <2>1, <2>2, <1>4, AskingKeeps DEF Refetch, StartsEnabled, DocsRanges, EnabledIsAsked
<1>5. ASSUME NEW coll \in ListColls, NEW filter \in Filters, List(coll, filter)
      PROVE  ListInv' /\ StartsEnabled
  <2>1. ListRanges'
    BY <1>5, FirstPageIsView DEF List, Show, ListRanges
  <2> QED BY <2>1, <1>5, ShowKeeps DEF List, StartsEnabled
<1>6. CASE ReturnToList
  <2>1. ListRanges'
    BY <1>6 DEF ReturnToList, ListRanges
  <2>2. DocumentsEnabled' <=> DocumentsEnabled
    BY <1>6, SameGuard DEF ReturnToList
  <2>3. CASE docs' = docs
    BY <1>6, <2>1, <2>2, <2>3 DEF ReturnToList, StartsEnabled, DocsRanges, EnabledIsAsked
  <2>4. CASE DocumentsEnabled /\ docs' = Asked(docs)
    BY <1>6, <2>1, <2>2, <2>4, AskingKeeps
       DEF ReturnToList, StartsEnabled, DocsRanges, EnabledIsAsked
  <2> QED BY <1>6, <2>3, <2>4 DEF ReturnToList
<1>7. ASSUME NEW filter \in Filters, RunQuery(filter) PROVE ListInv' /\ StartsEnabled
  <2>0. view \in Views /\ 0 \in 0 .. MaxSkip
    BY DocumentListAssumption DEF ListRanges
  <2>1. [view EXCEPT !.filter = filter, !.skip = 0] \in Views
    BY <2>0, Zenon DEF Views
  <2>2. ListRanges'
    BY <1>7, <2>1 DEF RunQuery, Show, ListRanges
  <2> QED BY <2>2, <1>7, ShowKeeps DEF RunQuery, StartsEnabled
<1>8. CASE AggregationArrives
  <2>1. ListRanges'
    BY <1>8 DEF AggregationArrives, ListRanges
  <2> QED BY <2>1, <1>8, ContinuedKeeps DEF AggregationArrives, StartsEnabled
<1>9. CASE ConfirmSize
  <2>1. <<view.coll, view.limit>> \in ListColls \X AllLimits
    BY DEF ListRanges, Views
  <2>2. ListRanges'
    BY <1>9, <2>1 DEF ConfirmSize, ListRanges, SizeGuardKey
  <2> QED BY <2>2, <1>9, ContinuedKeeps DEF ConfirmSize, StartsEnabled
<1>10. CASE ReducePage
  <2>1. PICK limit \in Suggestion(Average) : Paginate(0, limit)
    BY <1>10 DEF ReducePage
  <2>2. limit \in AllLimits /\ 0 \in 0 .. MaxSkip
    BY <2>1, SuggestionIsLimit, DocumentListAssumption
  <2> QED BY <2>1, <2>2, PagingKeeps
<1>11. CASE PreviousPage
  <2>1. view.limit \in AllLimits /\ view.limit \in Nat /\ view.skip \in 0 .. MaxSkip
    BY LimitsArePositive DEF ListRanges, Views
  <2>2. (IF view.skip > view.limit THEN view.skip - view.limit ELSE 0) \in 0 .. MaxSkip
    BY <2>1, DocumentListAssumption
  <2> QED BY <1>11, <2>1, <2>2, PagingKeeps DEF PreviousPage
<1>12. CASE NextPage
  <2>1. view.limit \in AllLimits /\ view.limit \in Nat /\ view.skip \in 0 .. MaxSkip
    BY LimitsArePositive DEF ListRanges, Views
  <2>2. view.skip + view.limit \in 0 .. MaxSkip
    BY <1>12, <2>1, DocumentListAssumption DEF NextPage
  <2> QED BY <1>12, <2>1, <2>2, PagingKeeps DEF NextPage
<1>13. ASSUME NEW limit \in AllLimits, ChangeLimit(limit) PROVE ListInv' /\ StartsEnabled
  BY <1>13, PagingKeeps, DocumentListAssumption DEF ChangeLimit
<1>14. ASSUME NEW coll \in ListColls, FollowRenamed(coll) PROVE ListInv' /\ StartsEnabled
  <2>1. [view EXCEPT !.coll = coll] \in Views
    BY DEF ListRanges, Views
  <2>2. ListRanges'
    BY <1>14, <2>1 DEF FollowRenamed, Show, ListRanges
  <2> QED BY <2>2, <1>14, ShowKeeps DEF FollowRenamed, StartsEnabled
<1>15. CASE UNCHANGED listVars
  <2>1. DocumentsEnabled' <=> DocumentsEnabled
    BY <1>15, SameGuard DEF listVars
  <2> QED BY <1>15, <2>1
       DEF listVars, ListRanges, DocsRanges, EnabledIsAsked, StartsEnabled
<1> HIDE DEF ListInv
<1> QED BY <1>1, <1>2, <1>3, <1>4, <1>5, <1>6, <1>7, <1>8, <1>9, <1>10, <1>11, <1>12,
           <1>13, <1>14, <1>15 DEF ListNext
-----------------------------------------------------------------------------
(***************************************************************************)
(* The theorems                                                            *)
(***************************************************************************)

\* Every variable of the list keeps its type, and what is listed is a page of
\* a size that can be chosen (App.tsx:96-140, 233-265).
THEOREM ListTypeCorrect == ListSpec => []ListTypeOK
<1>1. ListInv => ListTypeOK
  BY DEF ListInv, ListRanges, DocsRanges, Queries, ListTypeOK
<1> QED BY ListInitially, ListStep, <1>1, PTL DEF ListSpec

\* Rows of another query are only shown while this one's are being loaded, and
\* then marked (Results.tsx:167-171).
THEOREM OtherRowsAreMarked == ListSpec => []OldRowsAreMarked
<1>1. ListInv => OldRowsAreMarked
  <2> SUFFICES ASSUME ListInv, Screen = "rows", RowsShown = "old" PROVE Refetching
    BY DEF OldRowsAreMarked
  <2>1. DocumentsEnabled /\ ~docs.error
    BY DEF Screen, DocumentsEnabled
  <2>2. docs.total = {}
    BY DEF RowsShown
  <2> QED BY <2>1, <2>2 DEF ListInv, EnabledIsAsked, Refetching
<1> QED BY ListInitially, ListStep, <1>1, PTL DEF ListSpec

\* A query that is enabled while no aggregation is shown is of a page that is
\* small enough or agreed to.
LEMMA EnabledIsAgreed ==
    ASSUME ListInv', DocumentsEnabled', ~aggregation'
    PROVE  /\ stats'[view'.coll] # Unknown
           /\ \/ Fits(stats'[view'.coll], view'.limit)
              \/ <<view'.coll, view'.limit>> \in agreed'
<1>1. /\ view'.coll \in ListColls /\ view'.limit \in Nat
      /\ stats'[view'.coll] \in Averages \cup {Unknown}
      /\ confirmed' = agreed'
  BY LimitsArePositive DEF ListInv, ListRanges, Views
<1>2. stats'[view'.coll] # Unknown
  BY DEF DocumentsEnabled, StatsSettled
<1>3. stats'[view'.coll] \in Nat
  BY <1>1, <1>2, DocumentListAssumption
<1>4. CASE stats'[view'.coll] = 0
  BY <1>1, <1>2, <1>4, DocumentListAssumption DEF Fits
<1>5. CASE stats'[view'.coll] > 0
  BY <1>1, <1>2, <1>5 DEF DocumentsEnabled, Dangerous, Average, StatsSettled, SizeGuardKey
<1> QED BY <1>2, <1>3, <1>4, <1>5

\* No large page is loaded to be shown unless the user agreed to that page size
\* of that collection, whenever its statistics come (App.tsx:118-135).
THEOREM LargeLoadsAreAgreed == ListSpec => LargeLoadIsAgreed
<1>1. ListInv /\ [ListNext]_listVars
        => [~docs.busy /\ docs'.busy /\ ~aggregation'
              => /\ stats'[view'.coll] # Unknown
                 /\ \/ Fits(stats'[view'.coll], view'.limit)
                    \/ <<view'.coll, view'.limit>> \in agreed']_listVars
  BY ListStep, EnabledIsAgreed DEF StartsEnabled
<1> QED BY ListInitially, ListStep, <1>1, PTL DEF ListSpec, LargeLoadIsAgreed
-----------------------------------------------------------------------------
\* Each step leads from one whole page to another.
LEMMA WholeStep == ListInv /\ WholePages /\ [ListNext]_listVars => WholePages'
<1> SUFFICES ASSUME ListInv, WholePages, [ListNext]_listVars PROVE WholePages'
  OBVIOUS
<1>0. /\ view.skip \in Nat /\ view.limit \in Nat \ {0} /\ view.skip % view.limit = 0
      /\ view \in Views
  <2>1. view \in Views
    BY DEF ListInv, ListRanges
  <2>2. view.skip \in 0 .. MaxSkip /\ view.limit \in AllLimits
    BY <2>1 DEF Views
  <2>3. view.limit \in Nat \ {0}
    BY <2>2, LimitsArePositive
  <2>4. view.skip \in Nat
    BY <2>2, DocumentListAssumption
  <2> QED BY <2>1, <2>3, <2>4 DEF WholePages
<1>1. CASE view' = view
  BY <1>1 DEF WholePages
<1>2. ASSUME NEW coll \in ListColls, NEW filter \in Filters, List(coll, filter) PROVE WholePages'
  <2>1. view' = FirstPage(coll, filter) /\ view' \in Views
    BY <1>2, FirstPageIsView DEF List, Show
  <2>2. view'.skip = 0 /\ view'.limit \in Nat \ {0}
    BY <2>1, LimitsArePositive DEF FirstPage, Views
  <2> QED BY <2>2, FirstIsWhole DEF WholePages
<1>3. ASSUME NEW filter \in Filters, RunQuery(filter) PROVE WholePages'
  <2>1. view'.skip = 0 /\ view'.limit = view.limit
    BY <1>0, <1>3 DEF RunQuery, Show, Views
  <2> QED BY <2>1, <1>0, FirstIsWhole DEF WholePages
<1>4. ASSUME NEW skip, NEW limit \in Nat \ {0}, Paginate(skip, limit), skip % limit = 0
      PROVE  WholePages'
  BY <1>0, <1>4 DEF Paginate, Show, WholePages, Views
<1>5. CASE ReducePage
  <2>1. PICK limit \in Suggestion(Average) : Paginate(0, limit)
    BY <1>5 DEF ReducePage
  <2>2. limit \in Nat \ {0}
    BY <2>1, SuggestionIsLimit, LimitsArePositive
  <2> QED BY <2>1, <2>2, FirstIsWhole, <1>4
<1>6. CASE PreviousPage
  <2>1. CASE view.skip > view.limit
    BY <1>6, <2>1, <1>0, <1>4, PreviousPageIsWhole DEF PreviousPage
  <2>2. CASE ~(view.skip > view.limit)
    BY <1>6, <2>2, <1>0, <1>4, FirstIsWhole DEF PreviousPage
  <2> QED BY <2>1, <2>2
<1>7. CASE NextPage
  <2>1. Paginate(view.skip + view.limit, view.limit)
    BY <1>7 DEF NextPage
  <2> QED BY <2>1, <1>0, <1>4, NextPageIsWhole
<1>8. ASSUME NEW limit \in AllLimits, ChangeLimit(limit) PROVE WholePages'
  BY <1>8, <1>4, FirstIsWhole, LimitsArePositive DEF ChangeLimit
<1>9. ASSUME NEW coll \in ListColls, FollowRenamed(coll) PROVE WholePages'
  <2>1. view'.skip = view.skip /\ view'.limit = view.limit
    BY <1>0, <1>9 DEF FollowRenamed, Show, Views
  <2> QED BY <2>1 DEF WholePages
<1>10. CASE \/ \E avg \in Averages : StatsArrive(avg)
            \/ \E n \in Totals : DocumentsArrive(n)
            \/ DocumentsFail \/ Refetch \/ ReturnToList \/ AggregationArrives \/ ConfirmSize
            \/ UNCHANGED listVars
  BY <1>1, <1>10 DEF StatsArrive, DocumentsArrive, DocumentsFail, Refetch, ReturnToList,
                    AggregationArrives, ConfirmSize, listVars
<1> QED BY <1>2, <1>3, <1>5, <1>6, <1>7, <1>8, <1>9, <1>10 DEF ListNext

\* The list starts at a whole page, whatever mix of paging, page sizes, queries
\* and the guard's suggestion led there (Pagination.tsx:24, App.tsx:233-265).
THEOREM PagesAreWhole == ListSpec => []WholePages
<1>1. ListInit => WholePages
  <2> SUFFICES ASSUME ListInit PROVE WholePages
    OBVIOUS
  <2>1. PICK coll \in ListColls, filter \in Filters : view = FirstPage(coll, filter)
    BY DEF ListInit
  <2>2. view.skip = 0 /\ view.limit \in Nat \ {0}
    BY <2>1, FirstPageIsView, LimitsArePositive DEF FirstPage, Views
  <2> QED BY <2>2, FirstIsWhole DEF WholePages
<1> QED BY ListInitially, ListStep, WholeStep, <1>1, PTL DEF ListSpec
-----------------------------------------------------------------------------
(***************************************************************************)
(* The session gate: the types                                             *)
(***************************************************************************)

Stores == [id : Conns \cup {DefaultId}, signed : BOOLEAN, set : BOOLEAN]

\* An entry of the cache whose answers are in set.
Entries(set) == [data : SUBSET set,
                 asked : SUBSET [by : Stores, answer : SUBSET set], stale : BOOLEAN]

\* An entry whose request has been served.
Answered(q, request, e) == [q EXCEPT !.asked = {[request EXCEPT !.answer = {e}]}]

Lists == SUBSET (Conns \cup {DefaultId})

LEMMA SentIsRequest ==
    ASSUME NEW by \in Stores, NEW set
    PROVE  /\ Sent(by) \in [by : Stores, answer : SUBSET set]
           /\ Sent(by).by = by /\ Sent(by).answer = {}
BY DEF Sent

\* What the cache does to an entry.
LEMMA EntrySteps ==
    ASSUME NEW set, NEW q \in Entries(set), NEW by \in Stores
    PROVE  /\ Fresh(Sent(by)) \in Entries(set) /\ Fresh(Sent(by)).data = {}
           /\ Fresh(Sent(by)).asked = {Sent(by)}
           /\ Refetched(q, Sent(by)) \in Entries(set) /\ Refetched(q, Sent(by)).data = q.data
           /\ Refetched(q, Sent(by)).asked \in {q.asked, {Sent(by)}}
           /\ Invalidated(q, Sent(by)) \in Entries(set) /\ Invalidated(q, Sent(by)).data = q.data
           /\ Invalidated(q, Sent(by)).asked \in {q.asked, {Sent(by)}}
           /\ q.data # {} => Invalidated(q, Sent(by)).asked = {Sent(by)}
           /\ Failed(q) \in Entries(set) /\ Failed(q).data = q.data /\ Failed(q).asked = {}
           /\ Marked(q) \in Entries(set) /\ Marked(q).data = q.data /\ Marked(q).asked = q.asked
           /\ Dropped \in Entries(set) /\ Dropped.data = {} /\ Dropped.asked = {}
<1>1. Sent(by) \in [by : Stores, answer : SUBSET set]
  BY SentIsRequest
<1>2. /\ Fresh(Sent(by)) \in Entries(set) /\ Fresh(Sent(by)).data = {}
      /\ Fresh(Sent(by)).asked = {Sent(by)}
  BY <1>1 DEF Fresh, Entries
<1>3. /\ [q EXCEPT !.asked = {Sent(by)}] \in Entries(set)
      /\ [q EXCEPT !.asked = {Sent(by)}].data = q.data
      /\ [q EXCEPT !.asked = {Sent(by)}].asked = {Sent(by)}
  BY <1>1 DEF Entries
<1>4. /\ [q EXCEPT !.asked = {Sent(by)}, !.stale = TRUE] \in Entries(set)
      /\ [q EXCEPT !.asked = {Sent(by)}, !.stale = TRUE].data = q.data
      /\ [q EXCEPT !.asked = {Sent(by)}, !.stale = TRUE].asked = {Sent(by)}
  BY <1>1 DEF Entries
<1>5. Failed(q) \in Entries(set) /\ Failed(q).data = q.data /\ Failed(q).asked = {}
  BY DEF Failed, Entries
<1>8. /\ Marked(q) \in Entries(set) /\ Marked(q).data = q.data /\ Marked(q).asked = q.asked
      /\ Dropped \in Entries(set) /\ Dropped.data = {} /\ Dropped.asked = {}
  BY DEF Marked, Dropped, Entries
<1>6. /\ Refetched(q, Sent(by)) \in Entries(set) /\ Refetched(q, Sent(by)).data = q.data
      /\ Refetched(q, Sent(by)).asked \in {q.asked, {Sent(by)}}
  BY <1>3 DEF Refetched
<1>7. /\ Invalidated(q, Sent(by)) \in Entries(set) /\ Invalidated(q, Sent(by)).data = q.data
      /\ Invalidated(q, Sent(by)).asked \in {q.asked, {Sent(by)}}
      /\ q.data # {} => Invalidated(q, Sent(by)).asked = {Sent(by)}
  BY <1>4 DEF Invalidated, Loaded
<1> QED BY <1>2, <1>5, <1>6, <1>7, <1>8

LEMMA AnswerSteps ==
    ASSUME NEW set, NEW q \in Entries(set), NEW request \in q.asked, NEW e \in set
    PROVE  /\ Succeeded(q, e) \in Entries(set)
           /\ Succeeded(q, e).data = {e} /\ Succeeded(q, e).asked = {}
           /\ Answered(q, request, e) \in Entries(set)
           /\ Answered(q, request, e).data = q.data
           /\ \A r \in Answered(q, request, e).asked :
                 r.by = request.by /\ r.answer = {e}
<1>1. request \in [by : Stores, answer : SUBSET set]
  BY DEF Entries
<1>2. /\ [request EXCEPT !.answer = {e}] \in [by : Stores, answer : SUBSET set]
      /\ [request EXCEPT !.answer = {e}].by = request.by
      /\ [request EXCEPT !.answer = {e}].answer = {e}
  BY <1>1
<1>3. /\ Succeeded(q, e) \in Entries(set)
      /\ Succeeded(q, e).data = {e} /\ Succeeded(q, e).asked = {}
  BY DEF Succeeded, Entries
<1> DEFINE r0 == [request EXCEPT !.answer = {e}]
<1> HIDE DEF r0
<1>4. /\ [q EXCEPT !.asked = {r0}] \in Entries(set)
      /\ [q EXCEPT !.asked = {r0}].data = q.data
      /\ [q EXCEPT !.asked = {r0}].asked = {r0}
  BY <1>2 DEF Entries, r0
<1> QED BY <1>2, <1>3, <1>4 DEF r0, Answered

SessionTypes ==
    /\ server \in Servers /\ stored \in Stores
    /\ live \subseteq Conns
    /\ attempt \in [Conns -> {"unused", "sent", "registered", "used"}]
    /\ list \in Entries(Lists)
    /\ rows \in Entries(Conns)

LEMMA NoStoredType == NoStored \in Stores /\ NoStored.set = FALSE /\ NoStored.signed = FALSE
BY DEF NoStored, Stores

LEMMA StoredType ==
    ASSUME NEW id \in Conns \cup {DefaultId}, NEW signed \in BOOLEAN
    PROVE  /\ Stored(id, signed) \in Stores
           /\ Stored(id, signed).id = id /\ Stored(id, signed).signed = signed
BY DEF Stored, Stores

LEMMA IdOfType ==
    ASSUME SessionTypes, NEW c \in Conns
    PROVE  /\ IdOf(c) \in Conns \cup {DefaultId} /\ (server.multi => IdOf(c) = c)
           /\ server.signed \in BOOLEAN
BY WebSessionAssumption DEF SessionTypes, IdOf

LEMMA TypesInitially == SessionInit => SessionTypes
<1> SUFFICES ASSUME SessionInit PROVE SessionTypes
  OBVIOUS
<1>1. Sent(NoStored) \in [by : Stores, answer : SUBSET Lists]
      /\ Sent(NoStored) \in [by : Stores, answer : SUBSET Conns]
  BY SentIsRequest, NoStoredType
<1> QED BY <1>1, NoStoredType DEF SessionInit, SessionTypes, Fresh, Entries

\* What the switch does to the rows, and a component that shows them or stops.
RowsInvalidated ==
    /\ Overtake
    /\ \/ shown /\ rows' = Invalidated(rows, Sent(stored'))
       \/ ~shown /\ rows' = Marked(rows)

RowsRefetched == rows' \in {rows, Refetched(rows, Sent(stored)), Dropped}

\* What a step may do to the query of the rows.
LEMMA RowsSteps ==
    ASSUME [SessionNext]_sessionVars
    PROVE  \/ UNCHANGED <<server, stored, forced, rows, overtaken>>
           \/ UNCHANGED <<server, rows>> /\ forced'
           \/ UNCHANGED server /\ RowsInvalidated
           \/ UNCHANGED <<server, stored>> /\ rows' = Fresh(Sent(stored))
           \/ UNCHANGED <<server, stored, forced, overtaken>> /\ RowsRefetched
           \/ /\ UNCHANGED <<server, stored, forced>>
              /\ \/ rows' = Failed(rows)
                 \/ \E request \in rows.asked :
                       \/ \E c \in Reached(request.by) :
                             rows' = Answered(rows, request, c) /\ UNCHANGED overtaken
                       \/ \E c \in request.answer : rows' = Succeeded(rows, c)
<1>1. CASE Reload
  BY <1>1 DEF Reload, PageOpens, serverVars
<1>2. CASE \/ ServerStops \/ ServerStarts \/ ServeList \/ ListFails
           \/ HideRows \/ AddConnection \/ CancelAdding \/ PollInfo \/ Disconnect
           \/ \E c \in Conns : \/ OtherConnects(c) \/ OtherDisconnects(c)
                               \/ ServeConnect(c) \/ Connect(c) \/ ConnectFails(c)
  BY <1>2 DEF ServerStops, ServerStarts, ServeList, ListFails, AddConnection, CancelAdding,
              PollInfo, Disconnect, OtherConnects, OtherDisconnects, ServeConnect, Connect,
              ConnectFails, HideRows, serverVars, gateVars, rowsVars
<1>3. ASSUME NEW c \in Conns, ConnectAnswered(c)
      PROVE  UNCHANGED server /\ RowsInvalidated
  BY <1>3 DEF ConnectAnswered, InvalidateAll, RowsInvalidated, serverVars
<1>4. ASSUME NEW id \in Conns \cup {DefaultId}, SwitchSession(id)
      PROVE  UNCHANGED server /\ RowsInvalidated
  BY <1>4 DEF SwitchSession, InvalidateAll, RowsInvalidated, serverVars
<1>5. CASE \/ ServeRows \/ RowsArrive \/ RowsFail
  BY <1>5 DEF Answered, ServeRows, RowsArrive, RowsFail, serverVars, gateVars
<1>8. CASE Refocus \/ ShowRows \/ DropRows
  BY <1>8 DEF Refocus, ShowRows, DropRows, MayRefetch, RowsRefetched, serverVars, gateVars
<1>6. CASE ListArrives \/ DisconnectAfterConnectionLost
  BY <1>6 DEF ListArrives, GateEffect, DisconnectAfterConnectionLost, serverVars
<1>7. CASE UNCHANGED sessionVars
  BY <1>7 DEF sessionVars, serverVars, gateVars, rowsVars
<1> QED BY <1>1, <1>2, <1>3, <1>4, <1>5, <1>6, <1>7, <1>8 DEF SessionNext

\* What it may do to the list of sessions, and to the registry.
LEMMA ListSteps ==
    ASSUME [SessionNext]_sessionVars
    PROVE  \/ list' = list \/ list' = Fresh(Sent(NoStored))
           \/ list' = Invalidated(list, Sent(NoStored))
           \/ list' = Refetched(list, Sent(NoStored)) \/ list' = Failed(list)
           \/ \E request \in list.asked :
                 \/ list' = Answered(list, request, {IdOf(c) : c \in live})
                 \/ \E ids \in request.answer : list' = Succeeded(list, ids)
<1>1. CASE Reload
  BY <1>1 DEF Reload, PageOpens
<1>2. CASE \/ ServerStops \/ ServerStarts \/ ServeRows
           \/ RowsArrive \/ RowsFail \/ ShowRows \/ HideRows \/ DropRows
           \/ ShowRows \/ HideRows \/ DropRows \/ AddConnection \/ CancelAdding \/ PollInfo \/ DisconnectAfterConnectionLost
           \/ \E c \in Conns : \/ OtherConnects(c) \/ OtherDisconnects(c)
                               \/ ServeConnect(c) \/ Connect(c) \/ ConnectFails(c)
  BY <1>2 DEF ServerStops, ServerStarts, ServeRows,
              RowsArrive, RowsFail, ShowRows, HideRows, DropRows, AddConnection,
              CancelAdding, PollInfo, DisconnectAfterConnectionLost, OtherConnects,
              OtherDisconnects, ServeConnect, Connect, ConnectFails
<1>3. CASE \/ Disconnect \/ \E c \in Conns : ConnectAnswered(c)
           \/ \E id \in Conns \cup {DefaultId} : SwitchSession(id)
  BY <1>3 DEF Disconnect, ConnectAnswered, SwitchSession, InvalidateAll
<1>4. CASE ServeList \/ ListArrives \/ ListFails \/ Refocus
  BY <1>4 DEF Answered, ServeList, ListArrives, ListFails, Refocus, MayRefetch
<1>5. CASE UNCHANGED sessionVars
  BY <1>5 DEF sessionVars
<1> QED BY <1>1, <1>2, <1>3, <1>4, <1>5 DEF SessionNext

LEMMA StoredSteps ==
    ASSUME SessionTypes, [SessionNext]_sessionVars
    PROVE  stored' \in Stores /\ server' = server
<1>1. CASE \/ Reload \/ ServerStops \/ ServerStarts \/ ServeList \/ ServeRows
           \/ RowsArrive \/ RowsFail \/ ShowRows \/ HideRows \/ DropRows \/ ListFails \/ Refocus
           \/ AddConnection \/ CancelAdding \/ PollInfo \/ Disconnect
           \/ \E c \in Conns : \/ OtherConnects(c) \/ OtherDisconnects(c)
                               \/ ServeConnect(c) \/ Connect(c) \/ ConnectFails(c)
  <2>1. stored' = stored /\ server' = server
    BY <1>1 DEF Reload, ServerStops, ServerStarts, ServeList, ServeRows,
                RowsArrive, RowsFail, ShowRows, HideRows, DropRows,
                ListFails, Refocus, AddConnection, CancelAdding, PollInfo, Disconnect,
                OtherConnects, OtherDisconnects, ServeConnect, Connect, ConnectFails,
                serverVars, gateVars
  <2> QED BY <2>1 DEF SessionTypes
<1>2. ASSUME NEW c \in Conns, ConnectAnswered(c) PROVE stored' \in Stores /\ server' = server
  BY <1>2, IdOfType, StoredType DEF ConnectAnswered, serverVars
<1>3. ASSUME NEW id \in Conns \cup {DefaultId}, SwitchSession(id)
      PROVE  stored' \in Stores /\ server' = server
  BY <1>3, StoredType DEF SwitchSession, serverVars
<1>4. CASE ListArrives \/ DisconnectAfterConnectionLost
  BY <1>4, NoStoredType
     DEF ListArrives, GateEffect, DisconnectAfterConnectionLost, serverVars, SessionTypes
<1>5. CASE UNCHANGED sessionVars
  BY <1>5 DEF sessionVars, serverVars, gateVars, SessionTypes
<1> QED BY <1>1, <1>2, <1>3, <1>4, <1>5 DEF SessionNext

LEMMA RegistrySteps ==
    ASSUME SessionTypes, [SessionNext]_sessionVars
    PROVE  /\ live' \subseteq Conns
           /\ attempt' \in [Conns -> {"unused", "sent", "registered", "used"}]
<1> USE DEF SessionTypes
<1>0. \A c \in Conns : Registered(c) \subseteq Conns
  BY DEF Registered
<1>1. CASE \/ Reload \/ ServeList \/ ServeRows
           \/ RowsArrive \/ RowsFail \/ ShowRows \/ HideRows \/ DropRows \/ ListFails
           \/ Refocus \/ AddConnection \/ CancelAdding \/ PollInfo
           \/ ListArrives \/ DisconnectAfterConnectionLost
           \/ \E id \in Conns \cup {DefaultId} : SwitchSession(id)
  <2>1. live' = live /\ attempt' = attempt
    BY <1>1 DEF Reload, ServeList, ServeRows,
                RowsArrive, RowsFail, ShowRows, HideRows, DropRows, ListFails, Refocus,
                AddConnection, CancelAdding, PollInfo, ListArrives,
                DisconnectAfterConnectionLost, SwitchSession, serverVars
  <2> QED BY <2>1
<1>2. CASE ServerStops \/ ServerStarts \/ Disconnect
  BY <1>2 DEF ServerStops, ServerStarts, Disconnect
<1>3. ASSUME NEW c \in Conns, \/ OtherConnects(c) \/ OtherDisconnects(c) \/ ServeConnect(c)
                              \/ Connect(c) \/ ConnectAnswered(c) \/ ConnectFails(c)
      PROVE  /\ live' \subseteq Conns
             /\ attempt' \in [Conns -> {"unused", "sent", "registered", "used"}]
  BY <1>0, <1>3 DEF OtherConnects, OtherDisconnects, ServeConnect, Connect, ConnectAnswered,
                    ConnectFails, serverVars
<1>4. CASE UNCHANGED sessionVars
  BY <1>4 DEF sessionVars, serverVars
<1> QED BY <1>1, <1>2, <1>3, <1>4 DEF SessionNext

LEMMA TypesStep == SessionTypes /\ [SessionNext]_sessionVars => SessionTypes'
<1> SUFFICES ASSUME SessionTypes, [SessionNext]_sessionVars PROVE SessionTypes'
  OBVIOUS
<1>0. /\ stored \in Stores /\ rows \in Entries(Conns) /\ list \in Entries(Lists)
      /\ live \subseteq Conns /\ NoStored \in Stores
  BY NoStoredType DEF SessionTypes
<1>1. stored' \in Stores /\ server' \in Servers
  BY StoredSteps DEF SessionTypes
<1>2. rows' \in Entries(Conns)
  <2>1. \A request \in rows.asked : request.answer \subseteq Conns /\ Reached(request.by) \subseteq Conns
    BY <1>0 DEF Entries, Reached
  <2>2. \A by \in Stores : /\ Fresh(Sent(by)) \in Entries(Conns)
                           /\ Refetched(rows, Sent(by)) \in Entries(Conns)
                           /\ Invalidated(rows, Sent(by)) \in Entries(Conns)
    BY <1>0, EntrySteps
  <2>3. Failed(rows) \in Entries(Conns)
    BY <1>0, EntrySteps
  <2>4. \A request \in rows.asked : \A c \in Conns :
           /\ Succeeded(rows, c) \in Entries(Conns)
           /\ Answered(rows, request, c) \in Entries(Conns)
    BY <1>0, AnswerSteps
  <2>5. CASE rows' = rows
    BY <1>0, <2>5
  <2>6. Marked(rows) \in Entries(Conns) /\ Dropped \in Entries(Conns)
    BY <1>0, EntrySteps
  <2>7. CASE RowsInvalidated
    BY <1>0, <1>1, <2>2, <2>6, <2>7, StoredSteps DEF RowsInvalidated
  <2>8. CASE RowsRefetched
    BY <1>0, <2>2, <2>6, <2>8 DEF RowsRefetched
  <2> QED BY <1>0, <1>1, <2>1, <2>2, <2>3, <2>4, <2>5, <2>7, <2>8, RowsSteps
<1>3. list' \in Entries(Lists)
  <2>1. \A request \in list.asked : request.answer \subseteq Lists
    BY <1>0 DEF Entries
  <2>2. {IdOf(c) : c \in live} \in Lists
    BY <1>0, IdOfType DEF Lists
  <2>3. /\ Fresh(Sent(NoStored)) \in Entries(Lists) /\ Failed(list) \in Entries(Lists)
        /\ Refetched(list, Sent(NoStored)) \in Entries(Lists)
        /\ Invalidated(list, Sent(NoStored)) \in Entries(Lists)
    BY <1>0, EntrySteps
  <2>4. \A request \in list.asked : \A ids \in Lists :
           /\ Succeeded(list, ids) \in Entries(Lists)
           /\ Answered(list, request, ids) \in Entries(Lists)
    BY <1>0, AnswerSteps
  <2> QED BY <1>0, <2>1, <2>2, <2>3, <2>4, ListSteps
<1> QED BY <1>1, <1>2, <1>3, RegistrySteps DEF SessionTypes
-----------------------------------------------------------------------------
(***************************************************************************)
(* The session gate: whose data is shown                                   *)
(***************************************************************************)

\* A request for rows carries what its own session returned, and one that no
\* switch overtook was sent for the session in use.
RowsInv ==
    /\ server.multi => \A request \in rows.asked : request.answer \subseteq {request.by.id}
    /\ ~overtaken /\ ~forced => \A request \in rows.asked : request.by = stored

LEMMA RowsInitially == SessionInit => RowsInv
<1> SUFFICES ASSUME SessionInit PROVE RowsInv
  OBVIOUS
<1>1. /\ rows.data = {} /\ rows.asked = {Sent(NoStored)} /\ Sent(NoStored).answer = {}
      /\ Sent(NoStored).by = stored
  BY DEF SessionInit, Fresh, Sent
<1> QED BY <1>1 DEF RowsInv

\* A request reaches the session it names, and no other with --sessions.
LEMMA ReachesOwn ==
    ASSUME SessionTypes, server.multi, NEW by \in Stores
    PROVE  Reached(by) \subseteq {by.id}
BY IdOfType DEF Reached, SessionTypes

\* EntrySteps and AnswerSteps, of the query of the rows.
LEMMA RowsFacts ==
    ASSUME rows \in Entries(Conns), NEW by \in Stores
    PROVE  /\ Fresh(Sent(by)).data = {} /\ Fresh(Sent(by)).asked = {Sent(by)}
           /\ Refetched(rows, Sent(by)).data = rows.data
           /\ Refetched(rows, Sent(by)).asked \in {rows.asked, {Sent(by)}}
           /\ Invalidated(rows, Sent(by)).data = rows.data
           /\ Invalidated(rows, Sent(by)).asked \in {rows.asked, {Sent(by)}}
           /\ rows.data # {} => Invalidated(rows, Sent(by)).asked = {Sent(by)}
           /\ Failed(rows).data = rows.data /\ Failed(rows).asked = {}
           /\ Marked(rows).data = rows.data /\ Marked(rows).asked = rows.asked
           /\ Dropped.data = {} /\ Dropped.asked = {}
           /\ Sent(by).by = by /\ Sent(by).answer = {}
BY EntrySteps, SentIsRequest

LEMMA RowsAnswerFacts ==
    ASSUME rows \in Entries(Conns), NEW request \in rows.asked, NEW c \in Conns
    PROVE  /\ Succeeded(rows, c).data = {c} /\ Succeeded(rows, c).asked = {}
           /\ Answered(rows, request, c).data = rows.data
           /\ \A r \in Answered(rows, request, c).asked :
                 r.by = request.by /\ r.answer = {c}
BY AnswerSteps

LEMMA RowsStep ==
    ASSUME SessionTypes, RowsInv, [SessionNext]_sessionVars
    PROVE  RowsInv'
<1>0. /\ stored \in Stores /\ stored' \in Stores /\ server' = server
      /\ rows \in Entries(Conns) /\ \A request \in rows.asked : request.by \in Stores
  BY StoredSteps DEF SessionTypes, Entries
<1>1. CASE UNCHANGED <<server, stored, forced, rows, overtaken>>
  BY <1>1 DEF RowsInv
<1>2. CASE UNCHANGED <<server, rows>> /\ forced'
  BY <1>2 DEF RowsInv
<1>3. CASE RowsInvalidated
  <2>3. CASE shown /\ rows' = Invalidated(rows, Sent(stored'))
    <3>1. /\ rows'.data = rows.data /\ rows'.asked \in {rows.asked, {Sent(stored')}}
          /\ rows.data # {} => rows'.asked = {Sent(stored')}
      BY <1>0, <2>3, RowsFacts
    <3>2. Sent(stored').by = stored' /\ Sent(stored').answer = {}
      BY <1>0, RowsFacts
    <3>3. ~overtaken' => rows.asked = {} \/ rows.data # {}
      BY <1>3, <2>3 DEF RowsInvalidated, Overtake, Fetching, Loaded
    <3> QED BY <1>0, <3>1, <3>2, <3>3 DEF RowsInv
  <2>4. CASE ~shown /\ rows' = Marked(rows)
    <3>1. rows'.asked = rows.asked
      BY <1>0, <2>4, RowsFacts
    <3>2. ~overtaken' => rows.asked = {}
      BY <1>3, <2>4 DEF RowsInvalidated, Overtake, Fetching
    <3> QED BY <1>0, <3>1, <3>2 DEF RowsInv
  <2> QED BY <1>3, <2>3, <2>4 DEF RowsInvalidated
<1>4. CASE stored' = stored /\ rows' = Fresh(Sent(stored))
  <2>1. /\ rows'.data = {} /\ rows'.asked = {Sent(stored)} /\ Sent(stored).answer = {}
        /\ Sent(stored).by = stored
    BY <1>0, <1>4, RowsFacts
  <2> QED BY <1>0, <1>4, <2>1 DEF RowsInv
<1>5. CASE UNCHANGED <<server, stored, forced, overtaken>> /\ RowsRefetched
  <2>1. /\ rows'.asked \in {rows.asked, {Sent(stored)}, {}}
        /\ Sent(stored).by = stored /\ Sent(stored).answer = {}
    BY <1>0, <1>5, RowsFacts DEF RowsRefetched
  <2> QED BY <1>0, <1>5, <2>1 DEF RowsInv
<1>6. CASE rows' = Failed(rows)
  <2>1. rows'.asked = {}
    BY <1>0, <1>6, RowsFacts
  <2> QED BY <2>1 DEF RowsInv
<1>7. ASSUME NEW request \in rows.asked, NEW c \in Reached(request.by),
             UNCHANGED <<stored, forced, overtaken>>,
             rows' = Answered(rows, request, c)
      PROVE  RowsInv'
  <2>1. c \in Conns
    BY DEF Reached, SessionTypes
  <2>2. /\ rows'.data = rows.data
        /\ \A r \in rows'.asked : r.by = request.by /\ r.answer = {c}
    BY <1>0, <1>7, <2>1, RowsAnswerFacts
  <2>3. server.multi => c = request.by.id
    BY <1>0, ReachesOwn
  <2> QED BY <1>0, <1>7, <2>2, <2>3 DEF RowsInv
<1>8. ASSUME NEW request \in rows.asked, NEW c \in request.answer, rows' = Succeeded(rows, c)
      PROVE  RowsInv'
  <2>1. c \in Conns
    BY <1>0 DEF Entries
  <2>2. rows'.asked = {}
    BY <1>0, <1>8, <2>1, RowsAnswerFacts
  <2> QED BY <2>2 DEF RowsInv
<1> QED BY <1>1, <1>2, <1>3, <1>4, <1>5, <1>6, <1>7, <1>8, RowsSteps

\* With --sessions, what the rows get is what the session in use now returned,
\* unless it was on its way to hidden or empty rows when that was set
\* (ServerPanel.tsx:35-38, ConnectionModal.tsx:76-79).
THEOREM RowsAreOwn == SessionSpec => RowsReplacedByOwn
<1>1. ASSUME SessionTypes, RowsInv, [SessionNext]_sessionVars, server.multi, View = "app",
             ~overtaken, rows'.data # rows.data, Loaded(rows)'
      PROVE  rows'.data = {stored'.id}
  <2>0. /\ stored \in Stores /\ stored' \in Stores /\ server' = server
        /\ rows \in Entries(Conns) /\ \A request \in rows.asked : request.answer \subseteq Conns
    BY <1>1, StoredSteps DEF SessionTypes, Entries
  <2>1. ~forced
    BY <1>1 DEF View
  <2>2. rows' # rows /\ ~RowsInvalidated /\ ~RowsRefetched /\ rows' # Failed(rows)
    BY <1>1, <2>0, RowsFacts DEF RowsInvalidated, RowsRefetched, Loaded
  <2>3. rows' # Fresh(Sent(stored))
    BY <1>1, <2>0, RowsFacts DEF Loaded
  <2>4. \A request \in rows.asked : \A c \in Conns :
           rows' # Answered(rows, request, c)
    BY <1>1, <2>0, RowsAnswerFacts
  <2>5. \A by : Reached(by) \subseteq Conns
    BY <1>1 DEF Reached, SessionTypes
  <2>6. PICK request \in rows.asked : \E c \in request.answer :
           rows' = Succeeded(rows, c) /\ stored' = stored
    BY <1>1, <2>2, <2>3, <2>4, <2>5, RowsSteps
  <2>7. PICK c \in request.answer : rows' = Succeeded(rows, c) /\ stored' = stored
    BY <2>6
  <2>8. rows'.data = {c}
    BY <2>0, <2>7, RowsAnswerFacts
  <2>9. c = request.by.id /\ request.by = stored
    BY <1>1, <2>1, <2>7 DEF RowsInv
  <2> QED BY <2>7, <2>8, <2>9
<1>2. SessionTypes /\ RowsInv /\ [SessionNext]_sessionVars
        => [server.multi /\ View = "app" /\ View' = "app" /\ ~overtaken
               /\ rows'.data # rows.data /\ Loaded(rows)'
              => rows'.data = {stored'.id}]_sessionVars
  BY <1>1
<1>3. SessionTypes /\ RowsInv /\ [SessionNext]_sessionVars => RowsInv'
  BY RowsStep
<1> QED BY TypesInitially, TypesStep, RowsInitially, <1>2, <1>3, PTL
        DEF SessionSpec, RowsReplacedByOwn
-----------------------------------------------------------------------------
(***************************************************************************)
(* The session gate: a session the server still has                        *)
(***************************************************************************)

\* The connections the server has accepted: one that is gone stays gone.
Opened == {c \in Conns : attempt[c] \in {"registered", "used"}}

\* Every ID in the browser was once a connection's; and the stored one, if the
\* list that will replace the one loaded misses it, is one no more.
KeptInv ==
    /\ live \subseteq Opened
    /\ \A ids \in list.data : ids \subseteq Opened
    /\ \A request \in list.asked : \A ids \in request.answer : ids \subseteq Opened
    /\ stored.set => stored.id \in Opened /\ ~stored.signed
    /\ Loaded(list) /\ stored.set =>
          \A request \in list.asked : \A ids \in request.answer :
             stored.id \notin ids => stored.id \notin live

OneForMany == server.multi /\ ~server.signed

LEMMA KeptInitially == SessionInit => KeptInv
<1> SUFFICES ASSUME SessionInit PROVE KeptInv
  OBVIOUS
<1>1. list.data = {} /\ list.asked = {Sent(NoStored)} /\ Sent(NoStored).answer = {}
  BY DEF SessionInit, Fresh, Sent
<1>2. stored.set = FALSE
  BY NoStoredType DEF SessionInit
<1>3. live \subseteq Opened
  BY DEF SessionInit, Opened
<1> QED BY <1>1, <1>2, <1>3 DEF KeptInv, Loaded

\* EntrySteps, of the list of sessions.
LEMMA ListFacts ==
    ASSUME SessionTypes
    PROVE  /\ Fresh(Sent(NoStored)).data = {} /\ Fresh(Sent(NoStored)).asked = {Sent(NoStored)}
           /\ Refetched(list, Sent(NoStored)).data = list.data
           /\ Refetched(list, Sent(NoStored)).asked \in {list.asked, {Sent(NoStored)}}
           /\ Invalidated(list, Sent(NoStored)).data = list.data
           /\ Invalidated(list, Sent(NoStored)).asked \in {list.asked, {Sent(NoStored)}}
           /\ list.data # {} => Invalidated(list, Sent(NoStored)).asked = {Sent(NoStored)}
           /\ Failed(list).data = list.data /\ Failed(list).asked = {}
           /\ Sent(NoStored).answer = {}
BY EntrySteps, SentIsRequest, NoStoredType DEF SessionTypes

\* A connection is registered once.
LEMMA OpenedSteps ==
    ASSUME SessionTypes, OneForMany, live \subseteq Opened, [SessionNext]_sessionVars
    PROVE  /\ Opened \subseteq Opened' /\ live' \subseteq Opened'
           /\ \A c \in Opened : c \notin live => c \notin live'
<1> USE DEF SessionTypes, Opened
<1>1. CASE \/ Reload \/ ServeList \/ ServeRows
           \/ RowsArrive \/ RowsFail \/ ShowRows \/ HideRows \/ DropRows \/ ListFails
           \/ Refocus \/ AddConnection \/ CancelAdding \/ PollInfo
           \/ ListArrives \/ DisconnectAfterConnectionLost
           \/ \E id \in Conns \cup {DefaultId} : SwitchSession(id)
  <2>1. live' = live /\ attempt' = attempt
    BY <1>1 DEF Reload, ServeList, ServeRows,
                RowsArrive, RowsFail, ShowRows, HideRows, DropRows, ListFails, Refocus,
                AddConnection, CancelAdding, PollInfo, ListArrives,
                DisconnectAfterConnectionLost, SwitchSession, serverVars
  <2> QED BY <2>1
<1>2. CASE ServerStops \/ Disconnect
  BY <1>2 DEF ServerStops, Disconnect
<1>3. CASE ServerStarts
  BY <1>3 DEF ServerStarts, StartsWith, OneForMany
<1>4. ASSUME NEW c \in Conns, OtherConnects(c) \/ ServeConnect(c)
      PROVE  /\ Opened \subseteq Opened' /\ live' \subseteq Opened'
             /\ \A d \in Opened : d \notin live => d \notin live'
  <2>1. /\ attempt[c] \in {"unused", "sent"} /\ live' = live \cup {c}
        /\ \A d \in Conns : attempt'[d] = attempt[d] \/ d = c
        /\ attempt'[c] \in {"registered", "used"}
    BY <1>4 DEF OtherConnects, ServeConnect, Registered, OneForMany
  <2> QED BY <2>1
<1>5. ASSUME NEW c \in Conns, \/ OtherDisconnects(c) \/ Connect(c) \/ ConnectAnswered(c)
                              \/ ConnectFails(c)
      PROVE  /\ Opened \subseteq Opened' /\ live' \subseteq Opened'
             /\ \A d \in Opened : d \notin live => d \notin live'
  <2>1. /\ live' \subseteq live
        /\ \A d \in Conns : attempt'[d] = attempt[d] \/ d = c
        /\ attempt[c] \in {"registered", "used"} => attempt'[c] \in {"registered", "used"}
    BY <1>5 DEF OtherDisconnects, Connect, ConnectAnswered, ConnectFails, serverVars
  <2> QED BY <2>1
<1>6. CASE UNCHANGED sessionVars
  BY <1>6 DEF sessionVars, serverVars
<1> QED BY <1>1, <1>2, <1>3, <1>4, <1>5, <1>6 DEF SessionNext

\* What a step may do to the list and to the stored session, together.
LEMMA ListAndStoredSteps ==
    ASSUME [SessionNext]_sessionVars
    PROVE  \/ list' = list /\ stored' \in {stored, NoStored}
           \/ list' = Invalidated(list, Sent(NoStored))
           \/ /\ stored' \in {stored, NoStored}
              /\ \/ list' = Fresh(Sent(NoStored)) \/ list' = Refetched(list, Sent(NoStored))
                 \/ list' = Failed(list)
                 \/ \E request \in list.asked : \E ids \in request.answer :
                       list' = Succeeded(list, ids)
           \/ /\ UNCHANGED <<stored, live>>
              /\ \E request \in list.asked :
                    list' = Answered(list, request, {IdOf(c) : c \in live})
<1>1. CASE Reload
  BY <1>1 DEF Reload, PageOpens
<1>2. CASE \/ ServerStops \/ ServerStarts \/ ServeRows
           \/ RowsArrive \/ RowsFail \/ ShowRows \/ HideRows \/ DropRows
           \/ ShowRows \/ HideRows \/ DropRows \/ AddConnection \/ CancelAdding \/ PollInfo \/ DisconnectAfterConnectionLost
           \/ \E c \in Conns : \/ OtherConnects(c) \/ OtherDisconnects(c)
                               \/ ServeConnect(c) \/ Connect(c) \/ ConnectFails(c)
  BY <1>2 DEF ServerStops, ServerStarts, ServeRows,
              RowsArrive, RowsFail, ShowRows, HideRows, DropRows, AddConnection,
              CancelAdding, PollInfo, DisconnectAfterConnectionLost, OtherConnects,
              OtherDisconnects, ServeConnect, Connect, ConnectFails, gateVars
<1>3. CASE \/ Disconnect \/ \E c \in Conns : ConnectAnswered(c)
           \/ \E id \in Conns \cup {DefaultId} : SwitchSession(id)
  BY <1>3 DEF Disconnect, ConnectAnswered, SwitchSession, InvalidateAll
<1>4. CASE ServeList
  BY <1>4 DEF Answered, ServeList, serverVars, gateVars
<1>5. CASE ListArrives
  BY <1>5 DEF ListArrives, GateEffect
<1>6. CASE ListFails \/ Refocus
  BY <1>6 DEF ListFails, Refocus, MayRefetch, gateVars
<1>7. CASE UNCHANGED sessionVars
  BY <1>7 DEF sessionVars, gateVars
<1> QED BY <1>1, <1>2, <1>3, <1>4, <1>5, <1>6, <1>7 DEF SessionNext

\* Where a stored session comes from.
LEMMA StoredIsOpened ==
    ASSUME SessionTypes, OneForMany, KeptInv, [SessionNext]_sessionVars
    PROVE  stored'.set => stored'.id \in Opened' /\ ~stored'.signed
<1>0. Opened \subseteq Opened'
  BY OpenedSteps DEF KeptInv
<1>1. CASE stored' \in {stored, NoStored}
  BY <1>0, <1>1, NoStoredType DEF KeptInv
<1>2. ASSUME NEW c \in Conns, ConnectAnswered(c)
      PROVE  stored'.id \in Opened' /\ ~stored'.signed
  <2>1. c \in Opened /\ stored' = Stored(c, FALSE)
    BY <1>2, IdOfType DEF ConnectAnswered, Opened, OneForMany, SessionTypes
  <2> QED BY <1>0, <2>1, StoredType
<1>3. ASSUME NEW id \in Conns \cup {DefaultId}, SwitchSession(id)
      PROVE  stored'.id \in Opened' /\ ~stored'.signed
  <2>1. id \in Opened /\ stored' = Stored(id, FALSE)
    BY <1>3 DEF SwitchSession, KeptInv
  <2> QED BY <1>0, <2>1, StoredType
<1>4. stored' \in {stored, NoStored} \/ (\E c \in Conns : ConnectAnswered(c))
      \/ \E id \in Conns \cup {DefaultId} : SwitchSession(id)
  <2>1. CASE \/ Reload \/ ServerStops \/ ServerStarts \/ ServeList \/ ServeRows
             \/ RowsArrive \/ RowsFail \/ ShowRows \/ HideRows \/ DropRows \/ ListFails \/ Refocus
             \/ AddConnection \/ CancelAdding \/ PollInfo \/ Disconnect
             \/ \E c \in Conns : \/ OtherConnects(c) \/ OtherDisconnects(c)
                                 \/ ServeConnect(c) \/ Connect(c) \/ ConnectFails(c)
    BY <2>1 DEF Reload, ServerStops, ServerStarts, ServeList, ServeRows,
                RowsArrive, RowsFail, ShowRows, HideRows, DropRows,
                ListFails, Refocus, AddConnection, CancelAdding, PollInfo, Disconnect,
                OtherConnects, OtherDisconnects, ServeConnect, Connect, ConnectFails, gateVars
  <2>2. CASE ListArrives \/ DisconnectAfterConnectionLost \/ UNCHANGED sessionVars
    BY <2>2 DEF ListArrives, GateEffect, DisconnectAfterConnectionLost, sessionVars, gateVars
  <2> QED BY <2>1, <2>2 DEF SessionNext
<1> QED BY <1>1, <1>2, <1>3, <1>4

LEMMA KeptStep ==
    ASSUME SessionTypes, OneForMany, KeptInv, [SessionNext]_sessionVars
    PROVE  KeptInv'
<1>0. /\ Opened \subseteq Opened' /\ live' \subseteq Opened'
      /\ \A c \in Opened : c \notin live => c \notin live'
  BY OpenedSteps DEF KeptInv
<1>1. stored'.set => stored'.id \in Opened' /\ ~stored'.signed
  BY StoredIsOpened
<1>2. NoStored.set = FALSE
  BY NoStoredType
<1>3. CASE list' = list /\ stored' \in {stored, NoStored}
  BY <1>0, <1>1, <1>2, <1>3 DEF KeptInv, Loaded
<1>4. CASE list' = Invalidated(list, Sent(NoStored))
  <2>1. /\ list'.data = list.data /\ list'.asked \in {list.asked, {Sent(NoStored)}}
        /\ Loaded(list) => list'.asked = {Sent(NoStored)}
        /\ Sent(NoStored).answer = {}
    BY <1>4, ListFacts DEF Loaded
  <2> QED BY <1>0, <1>1, <2>1 DEF KeptInv, Loaded
<1>5. CASE list' = Fresh(Sent(NoStored))
  <2>1. list'.data = {} /\ list'.asked = {Sent(NoStored)} /\ Sent(NoStored).answer = {}
    BY <1>5, ListFacts
  <2> QED BY <1>0, <1>1, <2>1 DEF KeptInv, Loaded
<1>6. CASE list' = Refetched(list, Sent(NoStored)) /\ stored' \in {stored, NoStored}
  <2>1. /\ list'.data = list.data /\ list'.asked \in {list.asked, {Sent(NoStored)}}
        /\ Sent(NoStored).answer = {}
    BY <1>6, ListFacts
  <2> QED BY <1>0, <1>1, <1>2, <1>6, <2>1 DEF KeptInv, Loaded
<1>7. CASE list' = Failed(list)
  <2>1. list'.data = list.data /\ list'.asked = {}
    BY <1>7, ListFacts
  <2> QED BY <1>0, <1>1, <2>1 DEF KeptInv, Loaded
<1>8. ASSUME NEW request \in list.asked, NEW ids \in request.answer, list' = Succeeded(list, ids)
      PROVE  KeptInv'
  <2>1. list'.data = {ids} /\ list'.asked = {}
    BY <1>8 DEF Succeeded
  <2>2. ids \subseteq Opened
    BY DEF KeptInv
  <2> QED BY <1>0, <1>1, <2>1, <2>2 DEF KeptInv, Loaded
<1>9. ASSUME NEW request \in list.asked, UNCHANGED <<stored, live>>,
             list' = Answered(list, request, {IdOf(c) : c \in live})
      PROVE  KeptInv'
  <2>1. {IdOf(c) : c \in live} = live
    <3>1. \A c \in live : IdOf(c) = c
      BY DEF IdOf, OneForMany
    <3> QED BY <3>1
  <2>2. list' = Answered(list, request, live) /\ live \in Lists /\ list \in Entries(Lists)
    BY <1>9, <2>1 DEF SessionTypes, Lists
  <2>3. /\ list'.data = list.data
        /\ \A r \in list'.asked : r.answer = {live}
    BY <2>2, AnswerSteps
  <2>4. \A r \in list'.asked : \A ids \in r.answer : ids = live
    BY <2>3
  <2> QED BY <1>0, <1>1, <1>9, <2>3, <2>4 DEF KeptInv
<1> QED BY <1>3, <1>4, <1>5, <1>6, <1>7, <1>8, <1>9, ListAndStoredSteps

\* On a server without a session secret, the gate's effect drops no stored
\* session that the server still has, once the list has loaded (App.tsx:80-93).
THEOREM LiveSessionsAreKept ==
    ASSUME \A s \in Servers : ~s.signed
    PROVE  SessionSpec => LiveSessionIsKept
<1> DEFINE Inv == SessionTypes /\ (server.multi => KeptInv)
<1>1. SessionInit => Inv
  BY TypesInitially, KeptInitially
<1>2. Inv /\ [SessionNext]_sessionVars => Inv'
  <2> SUFFICES ASSUME Inv, [SessionNext]_sessionVars PROVE Inv'
    OBVIOUS
  <2>1. SessionTypes' /\ server' = server /\ ~server.signed
    BY TypesStep, StoredSteps DEF SessionTypes
  <2> QED BY <2>1, KeptStep DEF OneForMany
<1>3. Inv => [server.multi /\ Loaded(list) /\ ListArrives /\ stored' # stored
                => Reached(stored) = {}]_sessionVars
  <2> SUFFICES ASSUME Inv, server.multi, Loaded(list), ListArrives, stored' # stored
               PROVE  Reached(stored) = {}
    OBVIOUS
  <2>1. PICK request \in list.asked : \E ids \in request.answer :
           stored.set /\ (stored.signed \/ stored.id \notin ids)
    BY DEF ListArrives, GateEffect
  <2>2. stored.id \notin live
    BY <2>1 DEF KeptInv
  <2>3. \A c \in live : IdOf(c) = c
    BY DEF IdOf
  <2> QED BY <2>2, <2>3 DEF Reached
<1> HIDE DEF Inv
<1> QED BY <1>1, <1>2, <1>3, PTL DEF SessionSpec, LiveSessionIsKept
-----------------------------------------------------------------------------
(***************************************************************************)
(* The session gate: one answer at a time, and whom a screen waits for     *)
(***************************************************************************)

Few(set) == \A e, f \in set : e = f

\* A query has one answer at most, and one request that has one answer at most.
FewOf(q) == Few(q.data) /\ Few(q.asked) /\ \A request \in q.asked : Few(request.answer)

\* The screens, and the connects the one now open waits for.
ScreenInv ==
    /\ up \in BOOLEAN
    /\ forced \in BOOLEAN /\ infoFailed \in BOOLEAN /\ adding \in BOOLEAN
    /\ from \in [Conns -> {"gate", "add", "gone"}]
    /\ mine \subseteq Conns
    /\ \A c \in mine : attempt[c] \in {"sent", "registered"} /\ from[c] # "gone"

LEMMA FewAreCounted == ASSUME NEW set, Few(set) PROVE Cardinality(set) < 2
<1>1. CASE set = {}
  BY <1>1, FS_EmptySet
<1>2. CASE set # {}
  <2>1. PICK e \in set : set = {e}
    BY <1>2 DEF Few
  <2>2. Cardinality({e}) = 1
    BY FS_Singleton
  <2> QED BY <2>1, <2>2
<1> QED BY <1>1, <1>2

LEMMA FewSteps ==
    ASSUME NEW set, NEW q \in Entries(set), FewOf(q), NEW by \in Stores
    PROVE  /\ FewOf(Fresh(Sent(by))) /\ FewOf(Refetched(q, Sent(by)))
           /\ FewOf(Invalidated(q, Sent(by))) /\ FewOf(Failed(q))
           /\ FewOf(Marked(q)) /\ FewOf(Dropped)
<1>1. Sent(by).answer = {}
  BY SentIsRequest
<1>2. /\ Few({}) /\ Few({Sent(by)}) /\ Few(q.data) /\ Few(q.asked)
      /\ \A request \in {Sent(by)} : Few(request.answer)
      /\ \A request \in q.asked : Few(request.answer)
  BY <1>1 DEF Few, FewOf
<1>3. /\ Fresh(Sent(by)).data = {} /\ Fresh(Sent(by)).asked = {Sent(by)}
      /\ Refetched(q, Sent(by)).data = q.data
      /\ Refetched(q, Sent(by)).asked \in {q.asked, {Sent(by)}}
      /\ Invalidated(q, Sent(by)).data = q.data
      /\ Invalidated(q, Sent(by)).asked \in {q.asked, {Sent(by)}}
      /\ Failed(q).data = q.data /\ Failed(q).asked = {}
      /\ Marked(q).data = q.data /\ Marked(q).asked = q.asked
      /\ Dropped.data = {} /\ Dropped.asked = {}
  BY EntrySteps
<1>4. FewOf(Fresh(Sent(by)))
  BY <1>2, <1>3 DEF FewOf
<1>5. FewOf(Refetched(q, Sent(by)))
  BY <1>2, <1>3 DEF FewOf
<1>6. FewOf(Invalidated(q, Sent(by)))
  BY <1>2, <1>3 DEF FewOf
<1>7. FewOf(Failed(q))
  BY <1>2, <1>3 DEF FewOf
<1>8. FewOf(Marked(q)) /\ FewOf(Dropped)
  BY <1>2, <1>3 DEF FewOf
<1> QED BY <1>4, <1>5, <1>6, <1>7, <1>8

LEMMA FewAnswers ==
    ASSUME NEW set, NEW q \in Entries(set), FewOf(q), NEW request \in q.asked, NEW e \in set
    PROVE  FewOf(Succeeded(q, e)) /\ FewOf(Answered(q, request, e))
<1>1. FewOf(Succeeded(q, e))
  <2>1. Succeeded(q, e).data = {e} /\ Succeeded(q, e).asked = {}
    BY AnswerSteps
  <2> QED BY <2>1 DEF FewOf, Few
<1>2. FewOf(Answered(q, request, e))
  <2>1. /\ Answered(q, request, e).data = q.data
        /\ \A r \in Answered(q, request, e).asked : r.answer = {e}
    BY AnswerSteps
  <2>2. Answered(q, request, e).asked = {[request EXCEPT !.answer = {e}]}
    BY DEF Answered, Entries
  <2> QED BY <2>1, <2>2 DEF FewOf, Few
<1> QED BY <1>1, <1>2

LEMMA FewInitially == SessionInit => FewOf(list) /\ FewOf(rows)
<1> SUFFICES ASSUME SessionInit PROVE FewOf(list) /\ FewOf(rows)
  OBVIOUS
<1>1. Sent(NoStored).answer = {}
  BY SentIsRequest, NoStoredType
<1>2. /\ list.data = {} /\ list.asked = {Sent(NoStored)}
      /\ rows.data = {} /\ rows.asked = {Sent(NoStored)}
  BY DEF SessionInit, Fresh
<1> QED BY <1>1, <1>2 DEF FewOf, Few

LEMMA FewStep ==
    ASSUME SessionTypes, FewOf(list), FewOf(rows), [SessionNext]_sessionVars
    PROVE  FewOf(list)' /\ FewOf(rows)'
<1>0. /\ rows \in Entries(Conns) /\ list \in Entries(Lists) /\ live \subseteq Conns
      /\ stored \in Stores /\ stored' \in Stores /\ NoStored \in Stores
  BY NoStoredType, StoredSteps DEF SessionTypes
<1>1. FewOf(rows')
  <2>1. \A request \in rows.asked : request.answer \subseteq Conns /\ Reached(request.by) \subseteq Conns
    BY <1>0 DEF Entries, Reached
  <2>2. \A by \in Stores : /\ FewOf(Fresh(Sent(by))) /\ FewOf(Refetched(rows, Sent(by)))
                           /\ FewOf(Invalidated(rows, Sent(by)))
    BY <1>0, FewSteps
  <2>3. FewOf(Failed(rows))
    BY <1>0, FewSteps
  <2>4. \A request \in rows.asked : \A c \in Conns :
           FewOf(Succeeded(rows, c)) /\ FewOf(Answered(rows, request, c))
    BY <1>0, FewAnswers
  <2>5. CASE rows' = rows
    BY <2>5
  <2>6. FewOf(Marked(rows)) /\ FewOf(Dropped)
    BY <1>0, FewSteps
  <2>7. CASE RowsInvalidated
    BY <1>0, <2>2, <2>6, <2>7 DEF RowsInvalidated
  <2>8. CASE RowsRefetched
    BY <1>0, <2>2, <2>6, <2>8 DEF RowsRefetched
  <2> QED BY <1>0, <2>1, <2>2, <2>3, <2>4, <2>5, <2>7, <2>8, RowsSteps
<1>2. FewOf(list')
  <2>1. \A request \in list.asked : request.answer \subseteq Lists
    BY <1>0 DEF Entries
  <2>2. {IdOf(c) : c \in live} \in Lists
    BY <1>0, IdOfType DEF Lists
  <2>3. /\ FewOf(Fresh(Sent(NoStored))) /\ FewOf(Failed(list))
        /\ FewOf(Refetched(list, Sent(NoStored))) /\ FewOf(Invalidated(list, Sent(NoStored)))
    BY <1>0, FewSteps
  <2>4. \A request \in list.asked : \A ids \in Lists :
           FewOf(Succeeded(list, ids)) /\ FewOf(Answered(list, request, ids))
    BY <1>0, FewAnswers
  <2>5. CASE list' = list
    BY <2>5
  <2> QED BY <1>0, <2>1, <2>2, <2>3, <2>4, <2>5, ListSteps
<1> QED BY <1>1, <1>2 DEF FewOf, Few

LEMMA ScreenInitially == SessionInit => ScreenInv
BY DEF SessionInit, ScreenInv

\* Moving to another screen forgets what this one waited for.
LEMMA RerenderKeeps ==
    ASSUME ScreenInv, Rerender, UNCHANGED <<up, attempt, from>>,
           forced' \in BOOLEAN, infoFailed' \in BOOLEAN
    PROVE  ScreenInv'
BY DEF ScreenInv, Rerender

LEMMA ScreenStep ==
    ASSUME SessionTypes, ScreenInv, [SessionNext]_sessionVars
    PROVE  ScreenInv'
<1>0. attempt \in [Conns -> {"unused", "sent", "registered", "used"}]
  BY DEF SessionTypes
<1>1. CASE Reload
  BY <1>0, <1>1 DEF Reload, PageOpens, ScreenInv, serverVars
<1>2. CASE ServerStops
  BY <1>2 DEF ServerStops, ScreenInv, gateVars
<1>3. CASE ServerStarts
  <2>1. \A c \in live' : attempt[c] = "unused"
    BY <1>3 DEF ServerStarts, StartsWith
  <2>2. \A c \in mine : attempt'[c] = attempt[c]
    BY <1>3, <2>1 DEF ServerStarts, ScreenInv
  <2> QED BY <1>3, <2>2 DEF ServerStarts, ScreenInv, gateVars
<1>4. ASSUME NEW c \in Conns, OtherConnects(c) \/ ServeConnect(c) PROVE ScreenInv'
  BY <1>0, <1>4 DEF OtherConnects, ServeConnect, ScreenInv, gateVars
<1>5. CASE \/ ServeList \/ ServeRows \/ ListFails
           \/ RowsArrive \/ RowsFail \/ ShowRows \/ HideRows \/ DropRows \/ Refocus
           \/ Disconnect \/ \E c \in Conns : OtherDisconnects(c)
  BY <1>5 DEF ServeList, ServeRows, ListFails,
              RowsArrive, RowsFail, ShowRows, HideRows, DropRows, Refocus, Disconnect,
              OtherDisconnects, ScreenInv, serverVars, gateVars
<1>6. ASSUME NEW c \in Conns, Connect(c) PROVE ScreenInv'
  BY <1>0, <1>6 DEF Connect, ScreenInv, serverVars, gateVars
<1>7. ASSUME NEW c \in Conns, ConnectAnswered(c) PROVE ScreenInv'
  <2>1. /\ up' = up /\ infoFailed' = infoFailed
        /\ forced' = (forced /\ from[c] = "add")
        /\ adding' = (adding /\ from[c] = "gate" /\ View' = View)
        /\ attempt' = [attempt EXCEPT ![c] = "used"] /\ from' = [from EXCEPT ![c] = "gone"]
        /\ mine' \subseteq mine \ {c}
    BY <1>7 DEF ConnectAnswered, serverVars
  <2>2. forced' \in BOOLEAN /\ adding' \in BOOLEAN
    BY <2>1
  <2> QED BY <1>0, <2>1, <2>2 DEF ScreenInv
<1>8. ASSUME NEW c \in Conns, ConnectFails(c) PROVE ScreenInv'
  BY <1>0, <1>8 DEF ConnectFails, ScreenInv, serverVars, gateVars
<1>9. CASE PollInfo
  <2>1. forced' \in BOOLEAN /\ infoFailed' \in BOOLEAN
    BY <1>9 DEF PollInfo, ScreenInv
  <2> QED BY <1>9, <2>1, RerenderKeeps DEF PollInfo, serverVars
<1>10. CASE ListArrives
  <2>1. forced' \in BOOLEAN /\ infoFailed' \in BOOLEAN
    BY <1>10 DEF ListArrives, GateEffect, ScreenInv
  <2> QED BY <1>10, <2>1, RerenderKeeps DEF ListArrives, serverVars
<1>11. CASE DisconnectAfterConnectionLost
  <2>1. forced' \in BOOLEAN /\ infoFailed' \in BOOLEAN
    BY <1>11 DEF DisconnectAfterConnectionLost, ScreenInv
  <2> QED BY <1>11, <2>1, RerenderKeeps DEF DisconnectAfterConnectionLost, serverVars
<1>12. CASE AddConnection \/ CancelAdding
  BY <1>12 DEF AddConnection, CancelAdding, ScreenInv, serverVars, gateVars
<1>13. ASSUME NEW id \in Conns \cup {DefaultId}, SwitchSession(id) PROVE ScreenInv'
  BY <1>13 DEF SwitchSession, ScreenInv, serverVars
<1>14. CASE UNCHANGED sessionVars
  BY <1>14 DEF sessionVars, serverVars, gateVars, ScreenInv
<1> QED BY <1>1, <1>2, <1>3, <1>4, <1>5, <1>6, <1>7, <1>8, <1>9, <1>10, <1>11, <1>12, <1>13,
           <1>14 DEF SessionNext

\* Whether the rows are shown, and overtaken, is known.
RowsAreKnown == {shown, overtaken} \subseteq BOOLEAN

LEMMA KnownStep == RowsAreKnown /\ [SessionNext]_sessionVars => RowsAreKnown'
<1> SUFFICES ASSUME RowsAreKnown, [SessionNext]_sessionVars PROVE RowsAreKnown'
  OBVIOUS
<1>1. CASE \/ Reload \/ ServeRows \/ RowsArrive \/ RowsFail \/ Refocus
           \/ ShowRows \/ HideRows \/ DropRows
  BY <1>1 DEF Reload, PageOpens, ServeRows, RowsArrive, RowsFail, Refocus, ShowRows, HideRows,
              DropRows, RowsAreKnown
<1>2. CASE \/ ServerStops \/ ServerStarts \/ ServeList \/ ListFails
           \/ AddConnection \/ CancelAdding \/ PollInfo \/ Disconnect
           \/ \E c \in Conns : \/ OtherConnects(c) \/ OtherDisconnects(c)
                               \/ ServeConnect(c) \/ Connect(c) \/ ConnectFails(c)
  BY <1>2 DEF ServerStops, ServerStarts, ServeList, ListFails, AddConnection, CancelAdding,
              PollInfo, Disconnect, OtherConnects, OtherDisconnects, ServeConnect, Connect,
              ConnectFails, rowsVars, RowsAreKnown
<1>3. ASSUME shown' = shown, Overtake PROVE RowsAreKnown'
  BY <1>3 DEF Overtake, RowsAreKnown
<1>4. CASE \/ DisconnectAfterConnectionLost
           \/ \E c \in Conns : ConnectAnswered(c)
           \/ \E id \in Conns \cup {DefaultId} : SwitchSession(id)
  BY <1>3, <1>4 DEF ConnectAnswered, SwitchSession, DisconnectAfterConnectionLost
<1>5. CASE ListArrives
  BY <1>3, <1>5 DEF ListArrives, GateEffect, RowsAreKnown
<1>6. CASE UNCHANGED sessionVars
  BY <1>6 DEF sessionVars, rowsVars, RowsAreKnown
<1> QED BY <1>1, <1>2, <1>4, <1>5, <1>6 DEF SessionNext

LEMMA EntryIsWhole ==
    ASSUME NEW set, NEW q \in Entries(set), FewOf(q)
    PROVE  IsEntry(q, set)
<1>1. /\ q.data \subseteq set /\ q.stale \in BOOLEAN
      /\ \A request \in q.asked :
            request.by \in Stores /\ request.answer \subseteq set
  BY DEF Entries
<1>2. \A by \in Stores : by.id \in Conns \cup {DefaultId}
  BY DEF Stores
<1>3. Cardinality(q.data) < 2 /\ Cardinality(q.asked) < 2
  BY FewAreCounted DEF FewOf
<1>4. \A request \in q.asked : Cardinality(request.answer) < 2
  BY FewAreCounted DEF FewOf
<1> QED BY <1>1, <1>2, <1>3, <1>4 DEF IsEntry

\* Each variable of the gate keeps its type: a query has at most one request
\* under way and one answer, and a screen waits only for connects it sent and
\* that are still to be answered (App.tsx:80-93, ConnectionModal.tsx:76-79).
THEOREM SessionTypeCorrect == SessionSpec => []SessionTypeOK
<1> DEFINE Inv == SessionTypes /\ ScreenInv /\ FewOf(list) /\ FewOf(rows) /\ RowsAreKnown
<1>0. SessionInit => RowsAreKnown
  BY DEF SessionInit, RowsAreKnown
<1>1. SessionInit => Inv
  BY <1>0, TypesInitially, ScreenInitially, FewInitially
<1>2. Inv /\ [SessionNext]_sessionVars => Inv'
  BY TypesStep, ScreenStep, FewStep, KnownStep
<1>3. Inv => SessionTypeOK
  <2> SUFFICES ASSUME Inv PROVE SessionTypeOK
    OBVIOUS
  <2>1. IsEntry(list, SUBSET (Conns \cup {DefaultId})) /\ IsEntry(rows, Conns)
    BY EntryIsWhole DEF SessionTypes, Lists
  <2>2. stored.id \in Conns \cup {DefaultId} /\ {stored.signed, stored.set} \subseteq BOOLEAN
    BY DEF SessionTypes, Stores
  <2>3. {forced, infoFailed, adding, shown, overtaken} \subseteq BOOLEAN
    BY DEF ScreenInv, RowsAreKnown
  <2> QED BY <2>1, <2>2, <2>3 DEF SessionTypes, ScreenInv, SessionTypeOK
<1> HIDE DEF Inv
<1> QED BY <1>1, <1>2, <1>3, PTL DEF SessionSpec
=============================================================================
