----------------------------- MODULE QueryCache -----------------------------
(***************************************************************************)
(* What the browser's components rely on of @tanstack/react-query, which   *)
(* keeps each answer of the API under a key: one entry of that cache, as   *)
(* web/src/main.tsx and the hooks use it.                                  *)
(*                                                                         *)
(* data   the answer it holds, if any: a set of at most one                *)
(* asked  the request under way, if any: a set of at most one              *)
(* stale  it was invalidated since its last answer                         *)
(***************************************************************************)

\* An entry whose component has just asked for the first time.
Fresh(request) == [data |-> {}, asked |-> {request}, stale |-> TRUE]

Loaded(q) == q.data # {}

Fetching(q) == q.asked # {}

\* A request under way is joined.
Refetched(q, request) ==
    IF Fetching(q) THEN q ELSE [q EXCEPT !.asked = {request}]

\* A component mounts, or the window gets the focus back: what was loaded
\* within the stale time, and not invalidated since, is not asked for.
MayRefetch(q, request) ==
    {Refetched(q, request)} \cup {e \in {q} : Loaded(q) /\ ~q.stale}

\* invalidateQueries on an entry that no component shows: what is under way
\* goes on, and its answer will count as new.
Marked(q) == [q EXCEPT !.stale = TRUE]

\* invalidateQueries on an entry that is shown.  The request under way is
\* given up only if there is data to show meanwhile; a first load is joined,
\* and its answer taken, although it was asked before the invalidation.
Invalidated(q, request) ==
    IF Fetching(q) /\ ~Loaded(q) THEN q
    ELSE [q EXCEPT !.asked = {request}, !.stale = TRUE]

Succeeded(q, answer) == [data |-> {answer}, asked |-> {}, stale |-> FALSE]

\* Dropped from the cache, after gcTime without a component that shows it.
Dropped == [data |-> {}, asked |-> {}, stale |-> TRUE]

\* A failed refetch keeps what there was.
Failed(q) == [q EXCEPT !.asked = {}]
=============================================================================
