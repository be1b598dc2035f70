---------------------------- MODULE DocumentList ----------------------------
(***************************************************************************)
(* The list of documents of the selected collection: the size guard that   *)
(* may hold it back (web/src/App.tsx, api/sizeGuard.ts), the query that    *)
(* keeps the last rows on screen while it loads (hooks/useDocuments.ts),   *)
(* what of it is shown (Results.tsx) and the paging (Pagination.tsx).      *)
(***************************************************************************)
EXTENDS SequencesExt, Integers

CONSTANTS ListColls, \* the collections, of whatever database
          Filters,   \* the filters a query can have
          Averages,  \* the average document sizes a collection can have
          Totals,    \* the numbers of documents a query can find
          Standard,  \* STANDARD_LIMIT_OPTIONS
          Fine,      \* FINE_LIMIT_OPTIONS
          Threshold, \* SIZE_GUARD_THRESHOLD_BYTES
          MaxSkip,   \* bound: how far a run pages
          Unknown    \* the statistics are not there yet

ASSUME DocumentListAssumption ==
    /\ Averages \subseteq Nat /\ 0 \in Averages
    /\ Totals \subseteq Nat
    /\ Standard \in Seq(Nat \ {0}) /\ Standard # <<>>
    /\ Fine \in Seq(Nat \ {0})
    /\ {Threshold, MaxSkip} \subseteq Nat
    /\ Unknown \notin Nat

VARIABLES view,        \* selection and query: what is to be listed
          aggregation, \* aggregateResult is shown instead
          stats,       \* the average size in each collection's statistics
          confirmed,   \* confirmedSizeGuardKey, if any
          docs,        \* the documents query of view: its total, if loaded,
                       \* whether it is being fetched and whether that failed
          prev,        \* its placeholderData has rows of another query
          agreed       \* the load the user last agreed to, for the properties

listVars == <<view, aggregation, stats, confirmed, docs, prev, agreed>>

\* needsFineLimitOptions
NeedsFine(avg) == avg > 0 /\ avg * Head(Standard) > Threshold

LimitOptions(avg) == IF NeedsFine(avg) THEN Fine \o Standard ELSE Standard

Fits(avg, limit) == avg * limit <= Threshold

\* The places of the options that fit.
SafeOptions(avg) ==
    {i \in DOMAIN LimitOptions(avg) : avg > 0 /\ Fits(avg, LimitOptions(avg)[i])}

\* safeLimitSuggestion: the last of the options that fits.
Suggestion(avg) ==
    {LimitOptions(avg)[i] : i \in {j \in SafeOptions(avg) : \A k \in SafeOptions(avg) : k <= j}}

AllLimits == Range(Standard) \cup Range(Fine)
Views == [coll : ListColls, filter : Filters, skip : 0 .. MaxSkip, limit : AllLimits]

\* A selection starts over with DEFAULT_QUERY, a replay with its filter.
FirstPage(coll, filter) ==
    [coll |-> coll, filter |-> filter, skip |-> 0, limit |-> Standard[Len(Standard)]]

StatsSettled == stats[view.coll] # Unknown

\* avgObjSize: 0 until the statistics are there, and when they failed.
Average == IF StatsSettled THEN stats[view.coll] ELSE 0

Dangerous == ~aggregation /\ Average > 0 /\ ~Fits(Average, view.limit)

SizeGuardKey(v) == <<v.coll, v.limit>>

\* Mutant of DocumentsEnabled: not waiting for the statistics.
DocumentsEnabledUnsettled == ~Dangerous \/ confirmed = {SizeGuardKey(view)}

DocumentsEnabled == StatsSettled /\ (~Dangerous \/ confirmed = {SizeGuardKey(view)})

\* Whose rows Results has: this query's, another's or none.
RowsShown == IF docs.total # {} THEN "own" ELSE IF prev THEN "old" ELSE "none"

\* What Results shows, in the order of its returns; the guard's two do not
\* apply to an aggregation.
Screen ==
    CASE aggregation -> "aggregation"
      [] ~aggregation /\ ~StatsSettled -> "loading"
      [] ~aggregation /\ StatsSettled /\ ~DocumentsEnabled -> "guard"
      [] OTHER -> IF docs.error THEN "error"
                  ELSE IF RowsShown = "none" THEN "loading" ELSE "rows"

\* Mutant of Refetching: only a refetch of the same query is marked.
RefetchingSame == docs.busy /\ docs.total # {}

\* isFetching and not isLoading
Refetching == docs.busy /\ RowsShown # "none"

\* Each variable keeps its type; an error leaves nothing under way to undo it
\* but a refetch.
ListTypeOK ==
    /\ view \in Views /\ aggregation \in BOOLEAN
    /\ stats \in [ListColls -> Averages \cup {Unknown}]
    /\ confirmed = {} \/ \E key \in ListColls \X AllLimits : confirmed = {key}
    /\ docs.total = {} \/ \E n \in Totals : docs.total = {n}
    /\ {docs.busy, docs.error, prev} \subseteq BOOLEAN
    /\ docs.busy /\ docs.total = {} => ~docs.error
    /\ agreed \in SUBSET (ListColls \X AllLimits)

ListInit ==
    /\ \E coll \in ListColls, filter \in Filters : view = FirstPage(coll, filter)
    /\ aggregation = FALSE
    /\ stats = [coll \in ListColls |-> Unknown]
    /\ confirmed = {}
    /\ docs = [total |-> {}, busy |-> FALSE, error |-> FALSE]
    /\ prev = FALSE /\ agreed = {}
-----------------------------------------------------------------------------
(* The documents query (react-query, as useDocuments sets it up) *)

\* A fetch starts; with nothing loaded it clears the error.
Asked(q) == [q EXCEPT !.busy = TRUE, !.error = @ /\ q.total # {}]

\* The same query, which is asked when it becomes enabled, unless what is
\* cached is fresh.
Continued ==
    /\ IF ~DocumentsEnabled /\ DocumentsEnabled'
       THEN docs' \in {Asked(docs)} \cup {q \in {docs} : q.busy \/ q.total # {}}
       ELSE UNCHANGED docs
    /\ UNCHANGED prev

\* Another query: the cache may hold an answer of an earlier visit, fresh or
\* not, and the rows shown so far become the placeholder.
Replaced ==
    /\ prev' = (RowsShown # "none")
    /\ docs' \in {[total |-> {}, busy |-> DocumentsEnabled', error |-> FALSE]}
          \cup {[total |-> {n}, busy |-> b, error |-> FALSE] :
                   n \in Totals, b \in {FALSE, DocumentsEnabled'}}

Show(v) ==
    /\ view' = v
    /\ \/ v = view /\ Continued
       \/ v # view /\ Replaced

\* The statistics arrive, also after a refetch; a first load that fails counts
\* as a size of 0.
StatsArrive(avg) ==
    /\ stats' = [stats EXCEPT ![view.coll] = avg]
    /\ UNCHANGED <<view, aggregation, confirmed, agreed>>
    /\ Continued

DocumentsArrive(n) ==
    /\ docs.busy
    /\ docs' = [total |-> {n}, busy |-> FALSE, error |-> FALSE]
    /\ UNCHANGED <<view, aggregation, stats, confirmed, prev, agreed>>

DocumentsFail ==
    /\ docs.busy
    /\ docs' = [docs EXCEPT !.busy = FALSE, !.error = TRUE]
    /\ UNCHANGED <<view, aggregation, stats, confirmed, prev, agreed>>

\* The focus comes back, or a saved document invalidates the query.
Refetch ==
    /\ DocumentsEnabled /\ ~docs.busy
    /\ docs' = Asked(docs)
    /\ UNCHANGED <<view, aggregation, stats, confirmed, prev, agreed>>
-----------------------------------------------------------------------------
(* The user *)

\* selectCollection, replayHistory and Back.
List(coll, filter) ==
    /\ aggregation' = FALSE
    /\ UNCHANGED <<stats, confirmed, agreed>>
    /\ Show(FirstPage(coll, filter))

\* collectionRenamed, for the selected one: the place in the list, the query and
\* an aggregation's result are kept.
FollowRenamed(coll) ==
    /\ coll # view.coll
    /\ UNCHANGED <<aggregation, stats, confirmed, agreed>>
    /\ Show([view EXCEPT !.coll = coll])

\* Another tab and back: Results is mounted anew, with no placeholder.
ReturnToList ==
    /\ prev' = FALSE
    /\ docs' \in {docs} \cup {Asked(q) : q \in {d \in {docs} : DocumentsEnabled}}
    /\ UNCHANGED <<view, aggregation, stats, confirmed, agreed>>

\* runQuery, after onAggregateResult(null).
RunQuery(filter) ==
    /\ aggregation' = FALSE
    /\ UNCHANGED <<stats, confirmed, agreed>>
    /\ Show([view EXCEPT !.filter = filter, !.skip = 0])

AggregationArrives ==
    /\ aggregation' = TRUE
    /\ UNCHANGED <<view, stats, confirmed, agreed>>
    /\ Continued

\* Load anyway
ConfirmSize ==
    /\ Screen = "guard"
    /\ confirmed' = {SizeGuardKey(view)}
    /\ agreed' = {<<view.coll, view.limit>>}
    /\ UNCHANGED <<view, aggregation, stats>>
    /\ Continued

Paginate(skip, limit) ==
    /\ UNCHANGED <<aggregation, stats, confirmed, agreed>>
    /\ Show([view EXCEPT !.skip = skip, !.limit = limit])

ReducePage ==
    /\ Screen = "guard"
    /\ \E limit \in Suggestion(Average) : limit < view.limit /\ Paginate(0, limit)

\* The total Pagination knows may be that of the rows of another query.  An
\* empty filter's is an estimate, which hides the next page only past its end.
KnownTotals == IF docs.total # {} THEN docs.total ELSE IF prev THEN Totals ELSE {0}

\* Mutant of PreviousPage: the button is not disabled and nothing is clamped.
PreviousPageUnclamped ==
    /\ ~aggregation
    /\ Paginate(view.skip - view.limit, view.limit)

PreviousPage ==
    /\ ~aggregation /\ view.skip # 0
    /\ Paginate(IF view.skip > view.limit THEN view.skip - view.limit ELSE 0, view.limit)

NextPage ==
    /\ ~aggregation
    /\ view.skip + view.limit <= MaxSkip
    /\ \E n \in KnownTotals, estimate \in BOOLEAN :
          IF estimate THEN n = 0 \/ view.skip < n ELSE view.skip + view.limit < n
    /\ Paginate(view.skip + view.limit, view.limit)

\* Mutant of ChangeLimit: the page keeps its first row.
ChangeLimitInPlace(limit) ==
    /\ ~aggregation /\ limit \in Range(LimitOptions(Average)) \ {view.limit}
    /\ Paginate(view.skip, limit)

ChangeLimit(limit) ==
    /\ ~aggregation /\ limit \in Range(LimitOptions(Average)) \ {view.limit}
    /\ Paginate(0, limit)

ListNext ==
    \/ \E avg \in Averages : StatsArrive(avg)
    \/ \E n \in Totals : DocumentsArrive(n)
    \/ DocumentsFail \/ Refetch
    \/ \E coll \in ListColls, filter \in Filters : List(coll, filter)
    \/ \E coll \in ListColls : FollowRenamed(coll)
    \/ ReturnToList
    \/ \E filter \in Filters : RunQuery(filter)
    \/ AggregationArrives \/ ConfirmSize \/ ReducePage \/ PreviousPage \/ NextPage
    \/ \E limit \in AllLimits : ChangeLimit(limit)

ListSpec == ListInit /\ [][ListNext]_listVars
-----------------------------------------------------------------------------
(* Properties *)

\* The list always starts at a whole page, whatever mix of paging, page sizes,
\* queries and the guard's suggestion led there: "page n" is then a fact
\* (Pagination.tsx:24, App.tsx:233-265).
WholePages == view.skip % view.limit = 0

\* Rows of another query or collection are never shown as if they were this
\* one's: while the placeholder is up, Results says it is loading
\* (Results.tsx:167-171, hooks/useDocuments.ts).
OldRowsAreMarked ==
    Screen = "rows" /\ RowsShown = "old" => Refetching

\* Outside an aggregation no page that is estimated too large is asked for
\* unless the user agreed to that page size of that collection, whenever its
\* statistics come or change (App.tsx:118-135).
LargeLoadIsAgreed == [][
    ~docs.busy /\ docs'.busy /\ ~aggregation'
        => /\ stats'[view'.coll] # Unknown
           /\ \/ Fits(stats'[view'.coll], view'.limit)
              \/ <<view'.coll, view'.limit>> \in agreed']_listVars

=============================================================================
