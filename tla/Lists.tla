------------------------------- MODULE Lists -------------------------------
(***************************************************************************)
(* The repository lists of one GitHub installation: ListRepositories of    *)
(*   server/internal/integrations/scm/github/usecase/github_ucase.go       *)
(* with its single flight, the Redis cache of repository lists in front of *)
(* GitHub, and the invalidations that webhooks and disconnections ask for. *)
(*                                                                         *)
(* A page stands for a cache key (cursor, query and page size).  What      *)
(* GitHub would list is a version number that grows with every change of   *)
(* the installation's repositories.                                        *)
(***************************************************************************)
EXTENDS Integers

CONSTANTS
    Pages,
    Handlers,       \* requests of one server process, invalidations included
    MaxVersion,     \* bound of the model: changes of the list
    None            \* "not there", "not yet", "failed"

ASSUME ListsAssumption ==
    /\ MaxVersion \in Nat
    /\ None \notin Nat \cup Pages \cup Handlers

VARIABLES
    version,        \* the list GitHub would give now
    cache,          \* Redis: the list kept for each page, or None
    flight,         \* repoListCalls: the call under way for each page
    request,        \* requests in progress
    floor           \* history: see NothingOlderReturns

listsVars == <<version, cache, flight, request, floor>>

Versions == 0..MaxVersion

Flights == [at: {"none", "fetching", "done"}, result: Versions \cup {None}]

\* "base" is the version an invalidation vouches for once it is through.
Requests == [at: {"free", "lookup", "join", "fetch", "wait", "forget", "set",
                  "evict"},
             page: Pages \cup {None},
             result: Versions \cup {None},
             todo: SUBSET Pages,
             base: Versions]

ListsTypeOK ==
    /\ version \in Versions
    /\ cache \in [Pages -> Versions \cup {None}]
    /\ flight \in [Pages -> Flights]
    /\ request \in [Handlers -> Requests]
    /\ floor \in Versions
    /\ \A h \in Handlers :
          /\ request[h].at \notin {"free", "evict"} => request[h].page # None
          /\ request[h].at = "set" => request[h].result # None

NoFlight == [at |-> "none", result |-> None]
Free == [at |-> "free", page |-> None, result |-> None, todo |-> {},
         base |-> 0]

ListsInit ==
    /\ version = 0
    /\ cache = [k \in Pages |-> None]
    /\ flight = [k \in Pages |-> NoFlight]
    /\ request = [h \in Handlers |-> Free]
    /\ floor = 0

End(h) == request' = [request EXCEPT ![h] = Free]

-----------------------------------------------------------------------------
(* ListRepositories.                                                       *)

\* The row was read first: a request that finds it not active or not
\* connected is refused, whatever is cached, and leaves no trace.
Request(h, k) ==
    /\ request[h] = Free
    /\ request' = [request EXCEPT ![h].at = "lookup", ![h].page = k]
    /\ UNCHANGED <<version, cache, flight, floor>>

\* A hit answers; a miss, and a Redis that fails, go on to GitHub.
LookUp(h) ==
    /\ request[h].at = "lookup"
    /\ \/ cache[request[h].page] # None /\ End(h)
       \/ request' = [request EXCEPT ![h].at = "join"]
    /\ UNCHANGED <<version, cache, flight, floor>>

\* Mistaken variant of Taken: a failed call is taken for a list.
TakenAnyway(r, result) == [r EXCEPT !.at = "set", !.result = result]

\* A request with the outcome of a call: a failure ends it.
Taken(r, result) ==
    IF result = None THEN Free
                     ELSE [r EXCEPT !.at = "set", !.result = result]

\* Under the mutex: lead the call of the page, wait for the one under way, or
\* take the outcome of the one that is done but not yet deleted.
Join(h) ==
    LET k == request[h].page
    IN  /\ request[h].at = "join"
        /\ \/ /\ flight[k].at = "none"
              /\ flight' = [flight EXCEPT ![k].at = "fetching"]
              /\ request' = [request EXCEPT ![h].at = "fetch"]
           \/ /\ flight[k].at = "fetching"
              /\ request' = [request EXCEPT ![h].at = "wait"]
              /\ UNCHANGED flight
           \/ /\ flight[k].at = "done"
              /\ request' = [request EXCEPT ![h] =
                                Taken(request[h], flight[k].result)]
              /\ UNCHANGED flight
        /\ UNCHANGED <<version, cache, floor>>

\* Mistaken variant of Fetch: a failure returns before wg.Done.
FetchForgetsWaiters(h) ==
    LET k == request[h].page
    IN  /\ request[h].at = "fetch"
        /\ \E result \in {version, None} :
              /\ flight' = [flight EXCEPT ![k] = [at |-> "done",
                                                  result |-> result]]
              /\ request' = [g \in Handlers |->
                    IF g = h
                    THEN [request[h] EXCEPT !.at = "forget",
                                            !.result = result]
                    ELSE IF /\ result # None
                            /\ request[g].at = "wait"
                            /\ request[g].page = k
                         THEN Taken(request[g], result)
                         ELSE request[g]]
        /\ UNCHANGED <<version, cache, floor>>

\* The token and the list are fetched, or one of them is not (the context is
\* the leader's: its browser may be gone), and Done wakes all who wait.
Fetch(h) ==
    LET k == request[h].page
    IN  /\ request[h].at = "fetch"
        /\ \E result \in {version, None} :
              /\ flight' = [flight EXCEPT ![k] = [at |-> "done",
                                                  result |-> result]]
              /\ request' = [g \in Handlers |->
                    IF g = h
                    THEN [request[h] EXCEPT !.at = "forget",
                                            !.result = result]
                    ELSE IF request[g].at = "wait" /\ request[g].page = k
                         THEN Taken(request[g], result)
                         ELSE request[g]]
        /\ UNCHANGED <<version, cache, floor>>

\* Mistaken variant of Forget: the call stays in the map.
Remember(h) ==
    /\ request[h].at = "forget"
    /\ request' = [request EXCEPT ![h] = Taken(request[h], request[h].result)]
    /\ UNCHANGED <<version, cache, flight, floor>>

\* The leader deletes the call, in a second critical section.
Forget(h) ==
    /\ request[h].at = "forget"
    /\ flight' = [flight EXCEPT ![request[h].page] = NoFlight]
    /\ request' = [request EXCEPT ![h] = Taken(request[h], request[h].result)]
    /\ UNCHANGED <<version, cache, floor>>

\* Every request that got a list from a call stores it, then answers; an
\* error of Redis is ignored.
Store(h) ==
    /\ request[h].at = "set"
    /\ \/ cache' = [cache EXCEPT ![request[h].page] = request[h].result]
       \/ UNCHANGED cache
    /\ End(h)
    /\ UNCHANGED <<version, flight, floor>>

-----------------------------------------------------------------------------
(* Invalidation, expiry, and the rest of the world.                        *)

\* The request may bring a list that GitHub gave before now.
Fetching(h) == request[h].at \in {"fetch", "wait", "forget", "set"}

\* InvalidateInstallation scans for the keys of the installation (a key
\* stored while it scans need not be seen) ...
Invalidate(h) ==
    /\ request[h] = Free
    /\ request' = [request EXCEPT
           ![h].at = "evict",
           ![h].todo = {k \in Pages : cache[k] # None},
           ![h].base = IF \E g \in Handlers : Fetching(g) THEN 0 ELSE version]
    /\ UNCHANGED <<version, cache, flight, floor>>

\* ... and deletes them one by one, past those it fails to delete.
Evict(h) ==
    /\ request[h].at = "evict"
    /\ \E k \in request[h].todo :
          \/ /\ cache' = [cache EXCEPT ![k] = None]
             /\ request' = [request EXCEPT ![h].todo = @ \ {k}]
          \/ /\ request' = [request EXCEPT ![h].todo = @ \ {k}, ![h].base = 0]
             /\ UNCHANGED cache
    /\ UNCHANGED <<version, flight, floor>>

Evicted(h) ==
    /\ request[h].at = "evict"
    /\ request[h].todo = {}
    /\ floor' = IF request[h].base > floor THEN request[h].base ELSE floor
    /\ End(h)
    /\ UNCHANGED <<version, cache, flight>>

\* Mistaken variant of Expire: the keys have no time to live.
NeverExpires(k) == FALSE /\ UNCHANGED listsVars

Expire(k) ==
    /\ cache[k] # None
    /\ cache' = [cache EXCEPT ![k] = None]
    /\ UNCHANGED <<version, flight, request, floor>>

Change ==
    /\ version < MaxVersion
    /\ version' = version + 1
    /\ UNCHANGED <<cache, flight, request, floor>>

\* The process restarts: Redis keeps the lists.
Crash ==
    /\ flight' = [k \in Pages |-> NoFlight]
    /\ request' = [h \in Handlers |-> Free]
    /\ UNCHANGED <<version, cache, floor>>

-----------------------------------------------------------------------------
Step(h) ==
    \/ LookUp(h) \/ Join(h) \/ Fetch(h) \/ Forget(h) \/ Store(h)
    \/ Evict(h) \/ Evicted(h)

ListsNext ==
    \/ Change \/ Crash
    \/ \E k \in Pages : Expire(k)
    \/ \E h \in Handlers :
          \/ Step(h) \/ Invalidate(h)
          \/ \E k \in Pages : Request(h, k)

\* Requests run on, calls of GitHub and Redis end one way or the other, and
\* the time to live of a key runs out.
ListsSpec == /\ ListsInit /\ [][ListsNext]_listsVars
             /\ \A h \in Handlers : WF_listsVars(Step(h))
             /\ \A k \in Pages : WF_listsVars(Expire(k))

-----------------------------------------------------------------------------
(* Properties.                                                             *)

\* A list gone at an invalidation does not come back: when an invalidation
\* begins while no request fetches or holds a list and deletes every key it
\* found, the cache holds nothing older than GitHub's list at its beginning,
\* however later requests, shared calls and invalidations overlap.  (A
\* request that holds one may bring an older list back, until it expires.)
NothingOlderReturns ==
    \A k \in Pages : cache[k] # None => cache[k] >= floor

\* Every request and every invalidation ends, also those that wait for a
\* call another request leads, whether the call fails or not.
Answered ==
    \A h \in Handlers : (request[h].at # "free") ~> (request[h].at = "free")

\* Once the repositories no longer change, the cache ends up without any
\* older list for good, whatever invalidations were missed or overtaken.
StaleListsGo == <>[](\A k \in Pages : cache[k] \in {None, version})
=============================================================================
