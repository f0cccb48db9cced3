----------------------------- MODULE QueryCache -----------------------------
(***************************************************************************)
(* One cached query of @tanstack/react-query as the pages use it through   *)
(* useQuery and invalidateQueries: no retry and no refetch on focus        *)
(* (main.tsx), data fresh for 30 s, nothing polled.  The library is not    *)
(* part of the repository.                                                 *)
(*                                                                         *)
(* A fetch takes two steps, since what it brings is read by the server     *)
(* before the cache stores it: asked, then answered.                       *)
(***************************************************************************)
CONSTANT NoData

Fetches == {"idle", "asked", "answered"}

Entry(D) == [data   : D \cup {NoData},   \* what is shown
             stale  : BOOLEAN,           \* older than staleTime, or invalidated
             fetch  : Fetches,
             answer : D \cup {NoData},   \* the answer on its way
             failed : BOOLEAN]           \* the last fetch failed: data is kept

Unfetched ==
  [data |-> NoData, stale |-> TRUE, fetch |-> "idle", answer |-> NoData, failed |-> FALSE]

(* A fetch in flight is cancelled: its answer will be ignored.             *)
Ask(e) == [e EXCEPT !.fetch = "asked", !.answer = NoData]

Answered(e, d) == [e EXCEPT !.fetch = "answered", !.answer = d]

(* What is stored counts as fresh, even if the query was invalidated while *)
(* it was on its way.                                                      *)
Stored(e) == [Unfetched EXCEPT !.data = e.answer, !.stale = FALSE]

Lost(e) == [e EXCEPT !.fetch = "idle", !.answer = NoData, !.failed = TRUE]

(* A component that uses the query appears.                                *)
Mount_CachedIsEnough(e) == IF e.data = NoData /\ e.fetch = "idle" THEN Ask(e) ELSE e
Mount(e) == IF e.stale /\ e.fetch = "idle" THEN Ask(e) ELSE e

(* invalidateQueries: a query in use is fetched again at once, any other   *)
(* when it is next used.                                                   *)
Invalidate(e, mounted) ==
  IF mounted THEN Ask([e EXCEPT !.stale = TRUE]) ELSE [e EXCEPT !.stale = TRUE]
=============================================================================
