------------------------------ MODULE Queries ------------------------------
(***************************************************************************)
(* One query of a page in the cache of React Query: what was fetched, and  *)
(* whether it is fresh or being fetched.  The defaults are those of the    *)
(* QueryClient of the frontend: stale after a minute, one retry.           *)
(***************************************************************************)
EXTENDS Naturals

\* fetch: "no", "sent" or, once the server has read the row, "read".
Query(Status) ==
  [loaded : BOOLEAN, status : Status, version : Nat, stale : BOOLEAN,
   fetch : {"no", "sent", "read"}, readStatus : Status, readVersion : Nat, failed : BOOLEAN]

Unfetched(status) ==
  [loaded |-> FALSE, status |-> status, version |-> 0, stale |-> TRUE,
   fetch |-> "no", readStatus |-> status, readVersion |-> 0, failed |-> FALSE]

Sent(query) == [query EXCEPT !.fetch = "sent"]

\* A page is mounted: its query is fetched unless it is fresh or under way.
Mounted(query) ==
  IF query.fetch = "no" /\ (query.stale \/ ~query.loaded) THEN Sent(query) ELSE query

\* The server reads what it will answer.
ReadBy(query, status, version) ==
  [query EXCEPT !.fetch = "read", !.readStatus = status, !.readVersion = version]

Received(query) ==
  [Unfetched(query.readStatus) EXCEPT
     !.loaded = TRUE, !.stale = FALSE, !.version = query.readVersion]

\* The request fails, and so does the one retry: what was loaded stays.
Failed(query) == [query EXCEPT !.fetch = "no", !.failed = TRUE]

\* An error stays until there is an answer, unless nothing was loaded before.
Refetched(query) == [Sent(query) EXCEPT !.failed = query.failed /\ query.loaded]

\* Mutant: a fetch that is under way is left to answer.
InvalidateUnlessFetching(query, mounted) ==
  IF mounted /\ query.fetch = "no" THEN [Refetched(query) EXCEPT !.stale = TRUE]
  ELSE [query EXCEPT !.stale = TRUE]

\* invalidateQueries.  A page that shows data fetches it again, giving up a fetch
\* under way; one that has none waits for what is under way; and a query that
\* no page shows is only marked, until an answer under way makes it fresh.
Invalidate(query, mounted) ==
  IF mounted /\ (query.loaded \/ query.fetch = "no") THEN [Refetched(query) EXCEPT !.stale = TRUE]
  ELSE [query EXCEPT !.stale = TRUE]

\* Nothing of it is under way, and it did not fail.
Settled(query) == query.loaded /\ query.fetch = "no" /\ ~query.failed
=============================================================================
