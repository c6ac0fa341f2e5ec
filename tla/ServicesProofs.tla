--------------------------- MODULE ServicesProofs ---------------------------
(***************************************************************************)
(* Proofs about what the processes keep on the services they share:        *)
(* RabbitMQ's queues (module Topology) and the lists cached in Redis       *)
(* (module Lists).                                                         *)
(*                                                                         *)
(* The queues: for any processes and any list of queues, a worker that is  *)
(* ready found or made every dead-letter route.  The invariant says what   *)
(* each process knows at its place in SetUpQueues: a worker has covered    *)
(* every queue before the one it is at.                                    *)
(*                                                                         *)
(* The lists: for any requests and pages, an evicted list stays away.  The *)
(* invariant says of every holder of a list (requests, shared calls, the   *)
(* cache) how old it can be, for the floor and for what each invalidation  *)
(* under way will make the floor.                                          *)
(***************************************************************************)
EXTENDS Topology, Lists, TLAPS

USE TopologyAssumption

\* The queue at position i exists with its dead-letter route.
Routed(i) == /\ Queues[i] \in declared
             /\ Queues[i] \in dlqs
             /\ Queues[i] \in bound

\* What any process knows.
ProcessInv ==
    \A p \in Processes : at[p].step = "bind" => Name(p) \in dlqs

\* What a worker knows.
WorkerInv ==
    \A w \in Workers :
        /\ at[w].step # "declare"
        /\ at[w].step \in {"dlq", "bind", "main"} =>
               /\ exchange
               /\ \A i \in 1..Len(Queues) : i < at[w].queue => Routed(i)
        /\ at[w].step = "main" => Name(w) \in dlqs /\ Name(w) \in bound

IInv == TypeOK /\ ProcessInv /\ WorkerInv /\ WorkersFindRoutes

-----------------------------------------------------------------------------

LEMMA Lengths == Len(Queues) \in Nat \ {0}
OBVIOUS

LEMMA NamesAreQueues == \A i \in 1..Len(Queues) : Queues[i] \in Names
BY DEF Names

\* Where a process is inside SetUpQueues it is at some queue.
LEMMA PlaceTypes ==
    \A place \in Places :
        /\ place.step \in {"dlq", "declare", "bind", "main"} =>
               place.queue \in 1..Len(Queues)
        /\ place.step = "ready" => place = Ready
BY DEF Places, Off, Ready, At

LEMMA TargetTypes ==
    /\ Off \in Places /\ Ready \in Places /\ At("exchange", 0) \in Places
    /\ \A i \in 1..Len(Queues), s \in {"dlq", "declare", "bind", "main"} :
           At(s, i) \in Places
BY DEF Places, At

LEMMA InitIInv == Init => IInv
<1> SUFFICES ASSUME Init PROVE IInv
    OBVIOUS
<1>1. \A p \in Processes : at[p] = Off
    BY DEF Init
<1>2. TypeOK
    <2>1. Off \in Places
        BY TargetTypes
    <2>2. at \in [Processes -> Places]
        BY <2>1 DEF Init
    <2>3. stops \in 0..MaxStops
        BY DEF Init
    <2> QED BY <2>2, <2>3, Zenon DEF Init, TypeOK
<1>3. ProcessInv
    BY <1>1 DEF ProcessInv, Off
<1>4. WorkerInv
    BY <1>1 DEF WorkerInv, Off, Processes
<1>5. WorkersFindRoutes
    BY <1>1 DEF WorkersFindRoutes, Off, Ready, Processes
<1> QED BY <1>2, <1>3, <1>4, <1>5 DEF IInv

LEMMA TypeStep == TypeOK /\ ProcessInv /\ [Next]_vars => TypeOK'
<1> SUFFICES ASSUME TypeOK, ProcessInv, [Next]_vars PROVE TypeOK'
    OBVIOUS
<1>1. CASE UNCHANGED vars
    BY <1>1 DEF TypeOK, vars, brokerVars
<1> SUFFICES ASSUME NEW p \in Processes, SetUp(p) \/ Stop(p) PROVE TypeOK'
    BY <1>1 DEF Next
<1> USE DEF TypeOK, GoTo, brokerVars
<1>2. at[p].step \in {"dlq", "declare", "bind", "main"} =>
          Here(p) \in 1..Len(Queues) /\ Name(p) \in Names
    BY PlaceTypes, NamesAreQueues DEF Here, Name
<1>3. ASSUME NEW place \in Places, GoTo(p, place)
      PROVE at' \in [Processes -> Places]
    BY <1>3
<1>4. CASE Start(p)
    BY <1>4, <1>3, TargetTypes DEF Start
<1>5. CASE EnsureExchange(p)
    <2>1. At("dlq", 1) \in Places
        BY Lengths, TargetTypes
    <2> QED BY <1>5, <2>1, <1>3 DEF EnsureExchange
<1>6. CASE CheckDLQ(p)
    <2>1. At(IF Name(p) \in dlqs THEN "main" ELSE "declare", Here(p)) \in Places
        BY <1>6, <1>2, TargetTypes DEF CheckDLQ
    <2> QED BY <1>6, <2>1, <1>3 DEF CheckDLQ
<1>7. CASE DeclareDLQ(p) \/ EnsureDLQ(p)
    <2>1. At("bind", Here(p)) \in Places
        BY <1>7, <1>2, TargetTypes DEF DeclareDLQ, EnsureDLQ
    <2> QED BY <1>7, <2>1, <1>2, <1>3 DEF DeclareDLQ, EnsureDLQ
<1>8. CASE Bind(p)
    <2>1. At("main", Here(p)) \in Places
        BY <1>8, <1>2, TargetTypes DEF Bind
    <2>2. Name(p) \in dlqs
        BY <1>8 DEF Bind, ProcessInv
    <2> QED BY <1>8, <2>1, <2>2, <1>3 DEF Bind
<1>9. CASE EnsureQueue(p)
    <2>1. (IF Here(p) < Len(Queues) THEN At("dlq", Here(p) + 1) ELSE Ready)
              \in Places
        <3>1. Here(p) < Len(Queues) => Here(p) + 1 \in 1..Len(Queues)
            BY <1>9, <1>2, Lengths DEF EnsureQueue
        <3> QED BY <3>1, TargetTypes
    <2> QED BY <1>9, <2>1, <1>2, <1>3 DEF EnsureQueue
<1>10. CASE Stop(p)
    BY <1>10, <1>3, TargetTypes DEF Stop
<1> QED BY <1>4, <1>5, <1>6, <1>7, <1>8, <1>9, <1>10 DEF SetUp

\* Nothing that exists on the broker is ever removed.
LEMMA BrokerGrows ==
    ASSUME [Next]_vars
    PROVE  /\ exchange => exchange'
           /\ declared \subseteq declared'
           /\ dlqs \subseteq dlqs'
           /\ bound \subseteq bound'
<1> USE DEF vars, brokerVars, Start, EnsureExchange, CheckDLQ, DeclareDLQ,
        EnsureDLQ, Bind, EnsureQueue, Stop
<1>1. CASE UNCHANGED vars
    BY <1>1
<1>2. CASE Next
    BY <1>2 DEF Next, SetUp
<1> QED BY <1>1, <1>2

LEMMA ProcessStep ==
    TypeOK /\ ProcessInv /\ [Next]_vars => ProcessInv'
<1> SUFFICES ASSUME TypeOK, ProcessInv, [Next]_vars,
                    NEW q \in Processes, at'[q].step = "bind"
             PROVE  Name(q)' \in dlqs'
    BY DEF ProcessInv
<1>1. CASE at'[q] = at[q]
    <2>1. Name(q) \in dlqs
        BY <1>1 DEF ProcessInv
    <2> QED BY <1>1, <2>1, BrokerGrows DEF Name, Here
<1>2. CASE at'[q] # at[q]
    <2>1. SetUp(q) \/ Stop(q)
        BY <1>2 DEF Next, vars, TypeOK, GoTo, SetUp, Start, EnsureExchange,
              CheckDLQ, DeclareDLQ, EnsureDLQ, Bind, EnsureQueue, Stop
    <2>2. DeclareDLQ(q) \/ EnsureDLQ(q)
        BY <2>1 DEF TypeOK, GoTo, At, Off, Ready, SetUp, Start, EnsureExchange,
              CheckDLQ, Bind, EnsureQueue, Stop
    <2>3. at'[q] = At("bind", Here(q)) /\ dlqs' = dlqs \cup {Name(q)}
        BY <2>2 DEF TypeOK, GoTo, DeclareDLQ, EnsureDLQ
    <2> QED BY <2>3 DEF Name, Here, At
<1> QED BY <1>1, <1>2

\* A worker covers its queues one by one, whatever the others do meanwhile.
LEMMA WorkerStep == IInv /\ [Next]_vars => WorkerInv' /\ WorkersFindRoutes'
<1> SUFFICES ASSUME IInv, [Next]_vars, NEW w \in Workers
             PROVE
               /\ at'[w].step # "declare"
               /\ at'[w].step \in {"dlq", "bind", "main"} =>
                      /\ exchange'
                      /\ \A i \in 1..Len(Queues) :
                             i < at'[w].queue => Routed(i)'
               /\ at'[w].step = "main" =>
                      Name(w)' \in dlqs' /\ Name(w)' \in bound'
               /\ at'[w] = Ready => Complete'
    BY DEF WorkerInv, WorkersFindRoutes
<1> w \in Processes
    BY DEF Processes
<1>1. \A i \in 1..Len(Queues) : Routed(i) => Routed(i)'
    BY BrokerGrows DEF Routed
<1>2. TypeOK' /\ Complete => Complete'
    BY BrokerGrows DEF TypeOK, Complete
<1>3. TypeOK'
    BY TypeStep DEF IInv
<1>4. CASE at'[w] = at[w]
    <2>1. Name(w)' = Name(w)
        BY <1>4 DEF Name, Here
    <2> QED BY <1>1, <1>2, <1>3, <1>4, <2>1, BrokerGrows
            DEF IInv, WorkerInv, WorkersFindRoutes
<1>5. CASE at'[w] # at[w]
    <2>1. SetUp(w) \/ Stop(w)
        BY <1>5 DEF IInv, Next, vars, TypeOK, GoTo, SetUp, Start,
              EnsureExchange, CheckDLQ, DeclareDLQ, EnsureDLQ, Bind,
              EnsureQueue, Stop
    <2> USE DEF IInv, TypeOK, GoTo, At, Off, Ready
    <2>2. CASE Start(w) \/ Stop(w)
        BY <2>2 DEF Start, Stop
    <2>3. CASE EnsureExchange(w)
        BY <2>3 DEF EnsureExchange
    <2>4. CASE CheckDLQ(w) \/ DeclareDLQ(w)
        BY <2>4 DEF CheckDLQ, DeclareDLQ, WorkerInv
    <2>5. CASE EnsureDLQ(w)
        BY <2>5, <1>1, BrokerGrows DEF EnsureDLQ, WorkerInv, Here
    <2>6. CASE Bind(w)
        <3>1. Name(w)' = Name(w) /\ Name(w) \in dlqs /\ bound' = bound \cup {Name(w)}
            BY <2>6 DEF Bind, ProcessInv, Name, Here
        <3> QED BY <2>6, <3>1, <1>1, BrokerGrows DEF Bind, WorkerInv, Here
    <2>7. CASE EnsureQueue(w)
        <3>1. Here(w) \in 1..Len(Queues)
            BY <2>7, PlaceTypes DEF EnsureQueue, Here
        <3>2. exchange'
            BY <2>7, BrokerGrows DEF EnsureQueue, WorkerInv
        <3>3. ASSUME NEW i \in 1..Len(Queues), i <= Here(w)
              PROVE  Routed(i)'
            <4>1. CASE i < Here(w)
                <5>1. Routed(i)
                    BY <2>7, <4>1 DEF EnsureQueue, WorkerInv, Here
                <5> QED BY <5>1, <1>1
            <4>2. CASE i = Here(w)
                BY <2>7, <4>2, BrokerGrows
                DEF EnsureQueue, WorkerInv, Routed, Name, Here
            <4> QED BY <3>1, <3>3, <4>1, <4>2
        <3>4. CASE Here(w) < Len(Queues)
            <4>1. at'[w] = [step |-> "dlq", queue |-> Here(w) + 1]
                BY <2>7, <3>4 DEF EnsureQueue
            <4> QED BY <4>1, <3>1, <3>2, <3>3
        <3>5. CASE ~(Here(w) < Len(Queues))
            <4>1. at'[w] = [step |-> "ready", queue |-> 0]
                BY <2>7, <3>5 DEF EnsureQueue
            <4>2. \A i \in 1..Len(Queues) : Routed(i)'
                BY <3>1, <3>3, <3>5, Lengths
            <4>3. Complete'
                BY <3>2, <4>2, <1>3 DEF Complete, Routed, Names
            <4> QED BY <4>1, <4>3
        <3> QED BY <3>4, <3>5
    <2> QED BY <2>1, <2>2, <2>3, <2>4, <2>5, <2>6, <2>7 DEF SetUp
<1> QED BY <1>4, <1>5

-----------------------------------------------------------------------------

\* The invariant holds for any processes and queues, however often set-up is
\* interrupted.
THEOREM Inductive == Spec => []IInv
<1>1. IInv /\ [Next]_vars => IInv'
    BY TypeStep, ProcessStep, WorkerStep DEF IInv
<1> QED BY InitIInv, <1>1, PTL DEF Spec

\* The variables keep their types (ensureQueue, SetUpQueues).
THEOREM TypeCorrect == Spec => []TypeOK
BY Inductive, PTL DEF IInv

\* A worker that is ready (SetUpQueues of worker-server/internal/queue) has
\* every dead-letter route in place.
THEOREM RoutesFound == Spec => []WorkersFindRoutes
BY Inductive, PTL DEF IInv

-----------------------------------------------------------------------------
(* The lists.                                                              *)

HIDE TopologyAssumption
USE ListsAssumption

\* Nothing a request or a shared call holds, and nothing cached outside of
\* "todo", is older than version b.
NoneOlder(b, todo) ==
    /\ \A h \in Handlers :
          request[h].at \in {"forget", "set"} /\ request[h].result # None =>
              request[h].result >= b
    /\ \A k \in Pages :
          /\ flight[k].at = "done" /\ flight[k].result # None =>
                flight[k].result >= b
          /\ k \notin todo /\ cache[k] # None => cache[k] >= b

\* A call that is not deleted yet has a leader who has yet to do so.
LedInv ==
    \A k \in Pages : flight[k].at # "none" =>
        \E h \in Handlers : /\ request[h].at \in {"fetch", "forget"}
                            /\ request[h].page = k

\* What an invalidation under way vouches for.
EvictInv ==
    \A h \in Handlers : request[h].at = "evict" =>
        /\ request[h].base <= version
        /\ NoneOlder(request[h].base, request[h].todo)

ListsInv ==
    /\ ListsTypeOK /\ LedInv /\ EvictInv
    /\ floor <= version /\ NoneOlder(floor, {})

-----------------------------------------------------------------------------

LEMMA ListsInitInv == ListsInit => ListsInv
BY DEF ListsInit, ListsInv, ListsTypeOK, LedInv, EvictInv, NoneOlder, NoFlight,
       Free, Flights, Requests, Versions

\* A failed call ends a request; a list leaves it with the list to store.
LEMMA TakenType ==
    ASSUME NEW r \in Requests, NEW result \in Versions \cup {None}
    PROVE  /\ Taken(r, result) \in Requests
           /\ Taken(r, result).at \in {"free", "set"}
           /\ Taken(r, result).at = "set" =>
                 /\ result # None /\ Taken(r, result).result = result
                 /\ Taken(r, result).page = r.page
<1>1. CASE result = None
    BY <1>1 DEF Taken, Requests, Free, Versions
<1>2. CASE result # None
    <2>1. Taken(r, result) = [r EXCEPT !.at = "set", !.result = result]
        BY <1>2 DEF Taken
    <2> QED BY <1>2, <2>1 DEF Requests
<1> QED BY <1>1, <1>2

LEMMA ListsTypeStep == ListsTypeOK /\ [ListsNext]_listsVars => ListsTypeOK'
<1> SUFFICES ASSUME ListsTypeOK, [ListsNext]_listsVars PROVE ListsTypeOK'
    OBVIOUS
<1> USE DEF ListsTypeOK
<1> Free \in Requests /\ NoFlight \in Flights /\ version \in Versions
    BY DEF Free, NoFlight, Requests, Flights, Versions
<1>1. CASE UNCHANGED listsVars
    BY <1>1 DEF listsVars
<1>2. CASE Change
    BY <1>2 DEF Change, Versions, Requests, Flights
<1>3. CASE Crash
    BY <1>3 DEF Crash, Free
<1>4. ASSUME NEW k \in Pages, Expire(k) PROVE ListsTypeOK'
    BY <1>4 DEF Expire
<1>5. ASSUME NEW h \in Handlers, NEW k \in Pages, Request(h, k)
      PROVE  ListsTypeOK'
    BY <1>5 DEF Request, Requests, Free
<1>6. ASSUME NEW h \in Handlers, Invalidate(h) PROVE ListsTypeOK'
    <2>1. PICK base \in {0, version} : request' = [request EXCEPT
              ![h].at = "evict",
              ![h].todo = {k \in Pages : cache[k] # None},
              ![h].base = base]
        BY <1>6 DEF Invalidate
    <2>2. base \in Versions
        BY DEF Versions
    <2> DEFINE r == [request[h] EXCEPT
                         !.at = "evict",
                         !.todo = {k \in Pages : cache[k] # None},
                         !.base = base]
    <2>3. r \in Requests /\ r.at = "evict"
        BY <2>2 DEF Requests
    <2>4. request' = [request EXCEPT ![h] = r]
        BY <2>1
    <2> HIDE DEF r
    <2> QED BY <1>6, <2>3, <2>4 DEF Invalidate
<1>7. ASSUME NEW h \in Handlers, LookUp(h) PROVE ListsTypeOK'
    BY <1>7 DEF LookUp, End, Requests, Free
<1>8. ASSUME NEW h \in Handlers, Join(h) PROVE ListsTypeOK'
    <2> DEFINE k == request[h].page
    <2>1. k \in Pages /\ flight[k] \in Flights /\ request[h] \in Requests
        BY <1>8 DEF Join, Requests
    <2>2. CASE flight[k].at = "none"
        <3>1. flight' = [flight EXCEPT ![k].at = "fetching"]
              /\ request' = [request EXCEPT ![h].at = "fetch"]
            BY <1>8, <2>2 DEF Join
        <3>2. flight' \in [Pages -> Flights]
            BY <2>1, <3>1 DEF Flights
        <3> QED BY <1>8, <2>1, <3>1, <3>2 DEF Join, Requests
    <2>3. CASE flight[k].at = "fetching"
        BY <1>8, <2>1, <2>3 DEF Join, Requests
    <2>4. CASE flight[k].at = "done"
        <3>1. flight[k].result \in Versions \cup {None}
            BY <2>1 DEF Flights
        <3>2. request' = [request EXCEPT ![h] =
                             Taken(request[h], flight[k].result)]
            BY <1>8, <2>4 DEF Join
        <3>3. flight' = flight
            BY <1>8, <2>4 DEF Join
        <3> DEFINE r == Taken(request[h], flight[k].result)
        <3>4. /\ r \in Requests
              /\ r.at \notin {"free", "evict"} => r.page # None
              /\ r.at = "set" => r.result # None
          <4>1. request[h].page # None
              BY <1>8 DEF Join
          <4>2. /\ r \in Requests
                /\ r.at \in {"free", "set"}
                /\ r.at = "set" => /\ flight[k].result # None
                                  /\ r.result = flight[k].result
                                  /\ r.page = request[h].page
              BY <2>1, <3>1, TakenType
          <4> HIDE DEF r
          <4> QED BY <4>1, <4>2
        <3>5. request' = [request EXCEPT ![h] = r]
            BY <3>2
        <3> HIDE DEF r
        <3> QED BY <1>8, <3>3, <3>4, <3>5 DEF Join
    <2> QED BY <1>8, <2>2, <2>3, <2>4 DEF Join
<1>9. ASSUME NEW h \in Handlers, Fetch(h) PROVE ListsTypeOK'
    <2>1. request[h].page \in Pages
        BY <1>9 DEF Fetch, Requests
    <2>2. PICK result \in {version, None} :
              /\ flight' = [flight EXCEPT ![request[h].page] =
                                 [at |-> "done", result |-> result]]
              /\ request' = [g \in Handlers |->
                    IF g = h
                    THEN [request[h] EXCEPT !.at = "forget",
                                            !.result = result]
                    ELSE IF /\ request[g].at = "wait"
                            /\ request[g].page = request[h].page
                         THEN Taken(request[g], result)
                         ELSE request[g]]
        BY <1>9 DEF Fetch
    <2>3. result \in Versions \cup {None}
        OBVIOUS
    <2>4. flight' \in [Pages -> Flights]
        BY <2>1, <2>2, <2>3 DEF Flights
    <2>5. ASSUME NEW g \in Handlers
          PROVE  /\ request'[g] \in Requests
                 /\ request'[g].at \notin {"free", "evict"} =>
                        request'[g].page # None
                 /\ request'[g].at = "set" => request'[g].result # None
      <3>1. CASE g = h
          BY <1>9, <2>1, <2>2, <2>3, <3>1 DEF Fetch, Requests
      <3>2. CASE g # h /\ request'[g] = Taken(request[g], result)
          BY <2>1, <2>2, <2>3, <3>2, TakenType
      <3>3. CASE g # h /\ request'[g] = request[g]
          BY <3>3
      <3> QED BY <2>2, <3>1, <3>2, <3>3
    <2>6. request' \in [Handlers -> Requests]
        BY <2>2, <2>5
    <2>7. UNCHANGED <<version, cache, floor>>
        BY <1>9 DEF Fetch
    <2> QED BY <2>4, <2>5, <2>6, <2>7
<1>10. ASSUME NEW h \in Handlers, Forget(h) PROVE ListsTypeOK'
    <2>1. /\ request[h].page \in Pages
          /\ request[h].result \in Versions \cup {None}
        BY <1>10 DEF Forget, Requests
    <2> DEFINE r == Taken(request[h], request[h].result)
    <2>2. r \in Requests /\ r.at \in {"free", "set"}
        BY <2>1, TakenType
    <2>3. r.at = "set" => r.result # None /\ r.page # None
        BY <2>1, TakenType
    <2>4. request' = [request EXCEPT ![h] = r]
        BY <1>10 DEF Forget
    <2>5. flight' \in [Pages -> Flights]
        BY <1>10 DEF Forget
    <2> HIDE DEF r
    <2> QED BY <1>10, <2>2, <2>3, <2>4, <2>5 DEF Forget
<1>11. ASSUME NEW h \in Handlers, Store(h) PROVE ListsTypeOK'
    BY <1>11 DEF Store, End, Requests, Free
<1>12. ASSUME NEW h \in Handlers, Evict(h) PROVE ListsTypeOK'
    BY <1>12 DEF Evict, Requests, Versions
<1>13. ASSUME NEW h \in Handlers, Evicted(h) PROVE ListsTypeOK'
    BY <1>13 DEF Evicted, End, Requests, Free
<1> QED BY <1>1, <1>2, <1>3, <1>4, <1>5, <1>6, <1>7, <1>8, <1>9, <1>10, <1>11,
           <1>12, <1>13 DEF ListsNext, Step

\* Versions only grow.
LEMMA VersionGrows ==
    ASSUME ListsTypeOK, [ListsNext]_listsVars
    PROVE  version \in Nat /\ version' \in Nat /\ version <= version'
<1>1. version \in Nat
    BY DEF ListsTypeOK, Versions
<1>2. Change \/ version' = version
    BY DEF ListsNext, listsVars, Crash, Expire, Step, Request, LookUp, Join,
           Fetch, Forget, Store, Invalidate, Evict, Evicted
<1> QED BY <1>1, <1>2 DEF Change

\* A shared call that is under way or done keeps its leader until the leader
\* deletes it.
LEMMA LedStep ==
    ASSUME ListsTypeOK, LedInv, [ListsNext]_listsVars
    PROVE  LedInv'
<1> USE DEF ListsTypeOK, LedInv
<1>1. CASE UNCHANGED <<flight, request>>
    BY <1>1
<1>2. CASE Crash
    BY <1>2 DEF Crash, NoFlight
<1>3. ASSUME NEW h \in Handlers,
             flight' = flight,
             request[h].at \notin {"fetch", "forget"},
             \A g \in Handlers \ {h} : request'[g] = request[g]
      PROVE  LedInv'
    BY <1>3
<1>4. ASSUME NEW h \in Handlers, NEW k \in Pages, Request(h, k)
      PROVE  LedInv'
    <2>1. request[h].at = "free"
        BY <1>4 DEF Request, Free
    <2> QED BY <1>3, <1>4, <2>1 DEF Request
<1>5. ASSUME NEW h \in Handlers, Invalidate(h)
      PROVE  LedInv'
    <2>1. request[h].at = "free"
      <3>1. request[h] = Free
          BY <1>5 DEF Invalidate
      <3> QED BY <3>1 DEF Free
    <2> QED BY <1>3, <1>5, <2>1 DEF Invalidate
<1>6. ASSUME NEW h \in Handlers, LookUp(h) \/ Store(h) \/ Evict(h) \/ Evicted(h)
      PROVE  LedInv'
    BY <1>3, <1>6 DEF LookUp, Store, Evict, Evicted, End
<1>7. ASSUME NEW h \in Handlers, Join(h)
      PROVE  LedInv'
    <2>1. CASE flight[request[h].page].at = "none"
        BY <1>7, <2>1 DEF Join, Requests
    <2>2. CASE flight[request[h].page].at # "none"
        BY <1>3, <1>7, <2>2 DEF Join
    <2> QED BY <2>1, <2>2
<1>8. ASSUME NEW h \in Handlers, Fetch(h)
      PROVE  LedInv'
    BY <1>8 DEF Fetch, Requests
<1>9. ASSUME NEW h \in Handlers, Forget(h)
      PROVE  LedInv'
    BY <1>9 DEF Forget, NoFlight
<1> QED BY <1>1, <1>2, <1>4, <1>5, <1>6, <1>7, <1>8, <1>9
        DEF ListsNext, listsVars, Step, Change, Expire

\* A list a request holds after a step is GitHub's list of that moment, or
\* was held by the request or by a shared call before.
LEMMA HeldBefore ==
    ASSUME ListsTypeOK, [ListsNext]_listsVars, NEW g \in Handlers,
           request'[g].at \in {"forget", "set"}, request'[g].result # None
    PROVE  \/ request'[g].result = version
           \/ /\ request[g].at \in {"forget", "set"}
              /\ request'[g].result = request[g].result
           \/ \E k \in Pages : /\ flight[k].at = "done"
                               /\ request'[g].result = flight[k].result
<1> DEFINE Before ==
        \/ request'[g].result = version
        \/ /\ request[g].at \in {"forget", "set"}
           /\ request'[g].result = request[g].result
        \/ \E k \in Pages : /\ flight[k].at = "done"
                            /\ request'[g].result = flight[k].result
<1> SUFFICES Before
    OBVIOUS
<1>0. request \in [Handlers -> Requests] /\ flight \in [Pages -> Flights]
    BY DEF ListsTypeOK
<1>1. CASE request'[g] = request[g]
    BY <1>1
<1>2. CASE Crash
    BY <1>2 DEF Crash, Free
<1>3. ASSUME NEW h \in Handlers,
             \/ LookUp(h) \/ Store(h) \/ Evict(h) \/ Evicted(h) \/ Invalidate(h)
             \/ \E k \in Pages : Request(h, k)
      PROVE  Before
    <2>1. CASE g # h
        BY <1>0, <1>1, <1>3, <2>1 DEF LookUp, Store, Evict, Evicted, Invalidate,
           Request, End
    <2>2. CASE g = h
      <3>1. request'[g].at \in {"free", "lookup", "join", "evict"}
        <4>1. CASE LookUp(h)
            BY <1>0, <2>2, <4>1 DEF LookUp, End, Free, Requests
        <4>2. CASE Store(h) \/ Evicted(h)
            BY <1>0, <2>2, <4>2 DEF Store, Evicted, End, Free
        <4>3. CASE Evict(h)
            BY <1>0, <2>2, <4>3 DEF Evict, Requests
        <4>4. CASE Invalidate(h)
            BY <1>0, <2>2, <4>4 DEF Invalidate, Requests
        <4>5. ASSUME NEW k \in Pages, Request(h, k)
              PROVE  request'[h].at = "lookup"
            BY <1>0, <4>5 DEF Request, Requests
        <4> QED BY <1>3, <2>2, <4>1, <4>2, <4>3, <4>4, <4>5
      <3> QED BY <3>1
    <2> QED BY <2>1, <2>2
<1>4. ASSUME NEW h \in Handlers, Join(h) PROVE Before
    <2> DEFINE k == request[h].page
    <2>1. k \in Pages
        BY <1>4 DEF Join, ListsTypeOK, Requests
    <2>2. CASE g # h
        BY <1>0, <1>1, <1>4, <2>2 DEF Join
    <2>3. CASE g = h /\ flight[k].at \in {"none", "fetching"}
        BY <1>0, <1>4, <2>3 DEF Join, Requests
    <2>4. CASE g = h /\ flight[k].at = "done"
        BY <1>0, <1>4, <2>1, <2>4, TakenType DEF Join, Flights
    <2> QED BY <1>4, <2>2, <2>3, <2>4 DEF Join
<1>5. ASSUME NEW h \in Handlers, Fetch(h) PROVE Before
    <2>1. PICK result \in {version, None} :
              request' = [x \in Handlers |->
                    IF x = h
                    THEN [request[h] EXCEPT !.at = "forget",
                                            !.result = result]
                    ELSE IF /\ request[x].at = "wait"
                            /\ request[x].page = request[h].page
                         THEN Taken(request[x], result)
                         ELSE request[x]]
        BY <1>5 DEF Fetch
    <2>2. CASE g = h
      <3>1. request'[g] = [request[h] EXCEPT !.at = "forget", !.result = result]
          BY <2>1, <2>2
      <3>2. request'[g].result = result
          BY <1>0, <3>1 DEF Requests
      <3> QED BY <3>2
    <2>3. CASE g # h /\ request'[g] = Taken(request[g], result)
      <3>1. result \in Versions \cup {None}
          BY DEF ListsTypeOK
      <3>2. Taken(request[g], result).at = "set" =>
                Taken(request[g], result).result = result
          BY <1>0, <3>1, TakenType
      <3>3. Taken(request[g], result).at \in {"free", "set"}
          BY <1>0, <3>1, TakenType
      <3> QED BY <2>3, <3>2, <3>3
    <2> QED BY <1>1, <2>1, <2>2, <2>3
<1>6. ASSUME NEW h \in Handlers, Forget(h) PROVE Before
    <2>1. CASE g # h
        BY <1>0, <1>1, <1>6, <2>1 DEF Forget
    <2>2. CASE g = h
      <3>1. request'[g] = Taken(request[g], request[g].result)
          BY <1>0, <1>6, <2>2 DEF Forget
      <3>2. request[g].result \in Versions \cup {None}
          BY <1>0 DEF Requests
      <3>3. /\ Taken(request[g], request[g].result).at \in {"free", "set"}
            /\ Taken(request[g], request[g].result).at = "set" =>
                 Taken(request[g], request[g].result).result = request[g].result
          BY <1>0, <3>2, TakenType
      <3>4. request[g].at = "forget"
          BY <1>6, <2>2 DEF Forget
      <3> QED BY <3>1, <3>3, <3>4
    <2> QED BY <2>1, <2>2
<1>7. \/ request' = request
      \/ Crash
      \/ \E h \in Handlers :
            \/ LookUp(h) \/ Store(h) \/ Evict(h) \/ Evicted(h) \/ Invalidate(h)
            \/ \E k \in Pages : Request(h, k)
            \/ Join(h) \/ Fetch(h) \/ Forget(h)
    BY DEF ListsNext, Step, Change, Expire, listsVars
<1> QED BY <1>1, <1>2, <1>3, <1>4, <1>5, <1>6, <1>7

\* The same for the lists of shared calls that are done, and of the cache.
LEMMA KeptBefore ==
    ASSUME ListsTypeOK, [ListsNext]_listsVars, NEW k \in Pages
    PROVE  /\ flight'[k].at = "done" /\ flight'[k].result # None =>
                  flight'[k].result = version \/ flight'[k] = flight[k]
           /\ \/ cache'[k] \in {None, cache[k]}
              \/ \E g \in Handlers : /\ request[g].at = "set"
                                     /\ cache'[k] = request[g].result
<1>1. /\ flight \in [Pages -> Flights]
      /\ cache \in [Pages -> Versions \cup {None}]
    BY DEF ListsTypeOK
<1>2. flight'[k].at = "done" /\ flight'[k].result # None =>
          flight'[k].result = version \/ flight'[k] = flight[k]
  <2>1. CASE flight' = flight
      BY <2>1
  <2>2. CASE Crash
      BY <2>2 DEF Crash, NoFlight
  <2>3. ASSUME NEW h \in Handlers, Join(h), flight' # flight
        PROVE  flight'[k].at = "done" => flight'[k] = flight[k]
      BY <1>1, <2>3 DEF Join, Flights
  <2>4. ASSUME NEW h \in Handlers, Fetch(h)
        PROVE  \/ flight'[k] = flight[k]
               \/ flight'[k].result \in {version, None}
      BY <1>1, <2>4 DEF Fetch
  <2>5. ASSUME NEW h \in Handlers, Forget(h)
        PROVE  flight'[k] = flight[k] \/ flight'[k].at = "none"
      BY <1>1, <2>5 DEF Forget, NoFlight
  <2>6. \/ flight' = flight \/ Crash
        \/ \E h \in Handlers : Join(h) \/ Fetch(h) \/ Forget(h)
      BY DEF ListsNext, Step, Change, Expire, listsVars, LookUp, Store, Evict,
             Evicted, Invalidate, Request
  <2> QED BY <2>1, <2>2, <2>3, <2>4, <2>5, <2>6
<1>3. \/ cache'[k] \in {None, cache[k]}
      \/ \E g \in Handlers : /\ request[g].at = "set"
                             /\ cache'[k] = request[g].result
  <2>1. CASE cache' = cache
      BY <2>1
  <2>2. ASSUME NEW h \in Handlers, Store(h)
        PROVE  cache'[k] \in {cache[k], request[h].result}
      BY <1>1, <2>2 DEF Store
  <2>3. ASSUME NEW h \in Handlers, Evict(h)
        PROVE  cache'[k] \in {None, cache[k]}
      BY <1>1, <2>3 DEF Evict
  <2>4. ASSUME NEW x \in Pages, Expire(x)
        PROVE  cache'[k] \in {None, cache[k]}
      BY <1>1, <2>4 DEF Expire
  <2>5. \/ cache' = cache \/ \E x \in Pages : Expire(x)
        \/ \E h \in Handlers : Store(h) \/ Evict(h)
      BY DEF ListsNext, Step, Change, Crash, listsVars, LookUp, Evicted,
             Invalidate, Request, Join, Fetch, Forget
  <2>6. \A h \in Handlers : Store(h) => request[h].at = "set"
      BY DEF Store
  <2> QED BY <2>1, <2>2, <2>3, <2>4, <2>5, <2>6
<1> QED BY <1>2, <1>3

\* So no step brings a list older than all there are.
LEMMA OlderStep ==
    ASSUME ListsTypeOK, [ListsNext]_listsVars,
           NEW b \in Nat, NEW todo, b <= version, NoneOlder(b, todo)
    PROVE  NoneOlder(b, todo)'
<1>1. ASSUME NEW g \in Handlers,
             request'[g].at \in {"forget", "set"}, request'[g].result # None
      PROVE  request'[g].result >= b
    BY <1>1, HeldBefore DEF NoneOlder
<1>2. ASSUME NEW k \in Pages
      PROVE  /\ flight'[k].at = "done" /\ flight'[k].result # None =>
                    flight'[k].result >= b
             /\ k \notin todo /\ cache'[k] # None => cache'[k] >= b
    <2>1. \/ cache'[k] \in {None, cache[k]}
          \/ \E g \in Handlers : /\ request[g].at = "set"
                                 /\ cache'[k] = request[g].result
        BY KeptBefore
    <2>2. flight'[k].at = "done" /\ flight'[k].result # None =>
              flight'[k].result = version \/ flight'[k] = flight[k]
        BY KeptBefore
    <2>3. version \in Nat
        BY VersionGrows
    <2> QED BY <2>1, <2>2, <2>3 DEF NoneOlder
<1> QED BY <1>1, <1>2 DEF NoneOlder

\* The promise of an invalidation that vouches for nothing.
LEMMA NoneOlderThanZero == ListsTypeOK => NoneOlder(0, {})
<1> SUFFICES ASSUME ListsTypeOK PROVE NoneOlder(0, {})
    OBVIOUS
<1>1. \A x \in Versions : x >= 0
    BY DEF Versions
<1>2. \A h \in Handlers : request[h].result \in Versions \cup {None}
    BY DEF ListsTypeOK, Requests
<1>3. \A k \in Pages : /\ flight[k].result \in Versions \cup {None}
                       /\ cache[k] \in Versions \cup {None}
    BY DEF ListsTypeOK, Flights
<1> QED BY <1>1, <1>2, <1>3 DEF NoneOlder

\* An invalidation that begins while nobody holds a list finds every list
\* there is in the cache.
LEMMA InvalidateOK ==
    ASSUME ListsTypeOK, LedInv, NEW h \in Handlers, Invalidate(h)
    PROVE  /\ request'[h].base <= version'
           /\ NoneOlder(request[h].base, request[h].todo)'
<1>1. /\ request'[h].todo = {k \in Pages : cache[k] # None}
      /\ request'[h].base =
             IF \E g \in Handlers : Fetching(g) THEN 0 ELSE version
      /\ request'[h].at = "evict"
      /\ \A g \in Handlers \ {h} : request'[g] = request[g]
      /\ UNCHANGED <<version, cache, flight>>
    BY DEF Invalidate, ListsTypeOK, Requests
<1>2. version \in Nat
    BY DEF ListsTypeOK, Versions
<1>3. CASE \E g \in Handlers : Fetching(g)
  <2>1. NoneOlder(0, {})
      BY NoneOlderThanZero
  <2> QED BY <1>1, <1>2, <1>3, <2>1 DEF NoneOlder
<1>4. CASE ~\E g \in Handlers : Fetching(g)
    <2>1. \A g \in Handlers : request[g].at \notin {"fetch", "forget", "set"}
        BY <1>4 DEF Fetching
    <2>2. \A k \in Pages : flight[k].at = "none"
        BY <2>1 DEF LedInv
    <2> QED BY <1>1, <1>2, <1>4, <2>1, <2>2 DEF NoneOlder
<1> QED BY <1>3, <1>4

\* What invalidations vouch for stays true while they delete what they found.
LEMMA EvictStep ==
    ASSUME ListsTypeOK, LedInv, EvictInv, [ListsNext]_listsVars
    PROVE  EvictInv'
<1> SUFFICES ASSUME NEW h \in Handlers, request'[h].at = "evict"
             PROVE  /\ request'[h].base <= version'
                    /\ NoneOlder(request[h].base, request[h].todo)'
    BY DEF EvictInv
<1>1. request \in [Handlers -> Requests] /\ request[h].base \in Nat
    BY DEF ListsTypeOK, Requests, Versions
<1>2. version \in Nat /\ version' \in Nat /\ version <= version'
    BY VersionGrows
\* The invalidation may have deleted some of the keys it found.
<1>3. ASSUME request[h].at = "evict",
             request'[h].base = request[h].base,
             \A k \in request[h].todo \ request'[h].todo : cache'[k] = None
      PROVE  /\ request'[h].base <= version'
             /\ NoneOlder(request[h].base, request[h].todo)'
  <2>1. PICK b, todo : b = request[h].base /\ todo = request[h].todo
      OBVIOUS
  <2>2. b \in Nat /\ b <= version /\ NoneOlder(b, todo)
      BY <1>1, <1>3, <2>1 DEF EvictInv
  <2>3. NoneOlder(b, todo)'
      BY <2>2, OlderStep
  <2>4. /\ request'[h].base = b
        /\ \A k \in todo : k \in request'[h].todo \/ cache'[k] = None
      BY <1>3, <2>1
  <2> QED BY <1>2, <1>3, <2>2, <2>3, <2>4 DEF NoneOlder
<1>4. CASE Invalidate(h)
    BY <1>4, InvalidateOK
<1>5. CASE Evict(h)
  <2>1. PICK k \in request[h].todo :
          \/ /\ cache' = [cache EXCEPT ![k] = None]
             /\ request' = [request EXCEPT ![h].todo = @ \ {k}]
          \/ request' = [request EXCEPT ![h].todo = @ \ {k}, ![h].base = 0]
      BY <1>5 DEF Evict
  <2>2. CASE /\ cache' = [cache EXCEPT ![k] = None]
             /\ request' = [request EXCEPT ![h].todo = @ \ {k}]
    <3>1. k \in Pages /\ cache'[k] = None
        BY <1>1, <2>1, <2>2 DEF Requests, ListsTypeOK
    <3>2. /\ request'[h].base = request[h].base
          /\ request'[h].todo = request[h].todo \ {k}
        BY <1>1, <2>2 DEF Requests
    <3> QED BY <1>3, <1>5, <3>1, <3>2 DEF Evict
  <2>3. CASE request' = [request EXCEPT ![h].todo = @ \ {k}, ![h].base = 0]
    <3>1. request'[h].base = 0
        BY <1>1, <2>3 DEF Requests
    <3>2. NoneOlder(0, {})'
        BY ListsTypeStep, NoneOlderThanZero, PTL
    <3> QED BY <1>2, <3>1, <3>2 DEF NoneOlder
  <2> QED BY <2>1, <2>2, <2>3
<1>6. CASE request'[h] = request[h]
  <2>1. request[h].at = "evict"
      BY <1>6
  <2> QED BY <1>3, <1>6, <2>1
<1>7. ASSUME NEW g \in Handlers,
             \/ LookUp(g) \/ Join(g) \/ Fetch(g) \/ Forget(g) \/ Store(g)
             \/ Evicted(g) \/ \E k \in Pages : Request(g, k)
      PROVE  request'[h] = request[h]
  <2>1. CASE Fetch(g)
    <3>1. request'[h] = request[h] \/ request'[h].at = "forget"
          \/ \E result \in {version, None} :
                request'[h] = Taken(request[h], result)
        BY <1>1, <2>1 DEF Fetch, Requests
    <3>2. \A result \in {version, None} :
              Taken(request[h], result).at \in {"free", "set"}
        BY <1>1, TakenType DEF ListsTypeOK
    <3> QED BY <3>1, <3>2
  <2>2. CASE Forget(g)
      BY <1>1, <2>2, TakenType DEF Forget, Requests
  <2>3. CASE Join(g)
    <3> DEFINE k == request[g].page
    <3>1. k \in Pages
        BY <2>3 DEF Join, ListsTypeOK, Requests
    <3>2. flight[k].result \in Versions \cup {None}
        BY <3>1 DEF ListsTypeOK, Flights
    <3>3. Taken(request[g], flight[k].result).at \in {"free", "set"}
        BY <1>1, <3>2, TakenType
    <3> QED BY <1>1, <2>3, <3>3 DEF Join, Requests
  <2>4. CASE LookUp(g) \/ Store(g) \/ Evicted(g)
      BY <1>1, <2>4 DEF LookUp, Store, Evicted, End, Free, Requests
  <2>5. CASE \E k \in Pages : Request(g, k)
      BY <1>1, <2>5 DEF Request, Requests
  <2> QED BY <1>7, <2>1, <2>2, <2>3, <2>4, <2>5
<1>8. ASSUME NEW g \in Handlers \ {h}, Invalidate(g) \/ Evict(g)
      PROVE  request'[h] = request[h]
    BY <1>1, <1>8 DEF Invalidate, Evict
<1>9. CASE request' = request
    BY <1>6, <1>9
<1>10. CASE Crash
    BY <1>10 DEF Crash, Free
<1> QED BY <1>4, <1>5, <1>6, <1>7, <1>8, <1>9, <1>10
        DEF ListsNext, Step, Change, Expire, listsVars

\* And the floor is what an invalidation that is through vouched for.
LEMMA FloorStep ==
    ASSUME ListsTypeOK, EvictInv, [ListsNext]_listsVars,
           floor <= version, NoneOlder(floor, {})
    PROVE  floor' <= version' /\ NoneOlder(floor, {})'
<1>1. /\ version \in Nat /\ version' \in Nat /\ version <= version'
      /\ floor \in Nat
    BY VersionGrows DEF ListsTypeOK, Versions
<1>2. ASSUME NEW b \in Nat, b = floor', b <= version, NoneOlder(b, {})
      PROVE  floor' <= version' /\ NoneOlder(floor, {})'
  <2>1. NoneOlder(b, {})'
      BY <1>2, OlderStep
  <2> QED BY <1>1, <1>2, <2>1 DEF NoneOlder
<1>3. CASE floor' = floor
    BY <1>1, <1>2, <1>3
<1>4. ASSUME NEW h \in Handlers, Evicted(h)
      PROVE  floor' <= version' /\ NoneOlder(floor, {})'
  <2>1. /\ request[h].base \in Nat /\ request[h].base <= version
        /\ NoneOlder(request[h].base, {})
    <3>1. request[h].base \in Nat
        BY DEF ListsTypeOK, Requests, Versions
    <3>2. /\ request[h].base <= version
          /\ NoneOlder(request[h].base, request[h].todo)
        BY <1>4 DEF Evicted, EvictInv
    <3>3. request[h].todo = {}
        BY <1>4 DEF Evicted
    <3> QED BY <3>1, <3>2, <3>3 DEF NoneOlder
  <2>2. floor' \in {request[h].base, floor}
      BY <1>4 DEF Evicted
  <2> QED BY <1>1, <1>2, <2>1, <2>2
<1> QED BY <1>3, <1>4
        DEF ListsNext, Step, Change, Crash, Expire, listsVars, Request, LookUp,
            Join, Fetch, Forget, Store, Invalidate, Evict

LEMMA ListsStep == ListsInv /\ [ListsNext]_listsVars => ListsInv'
BY ListsTypeStep, LedStep, EvictStep, FloorStep DEF ListsInv

\* What the other theorems about the lists follow from: whatever requests,
\* shared calls and invalidations hold or vouch for is accounted for.
THEOREM ListsInductive == ListsSpec => []ListsInv
BY ListsInitInv, ListsStep, PTL DEF ListsSpec

\* The state of the list cache and of its requests is well formed: a request
\* under way has a page, and one that stores a list has one to store.
THEOREM ListsTypeCorrect == ListsSpec => []ListsTypeOK
<1>1. ListsInv => ListsTypeOK
    BY DEF ListsInv
<1> QED BY <1>1, ListsInductive, PTL

\* A list gone at an invalidation that began while nobody fetched does not
\* come back, however requests, shared calls and invalidations overlap.
THEOREM EvictedListsStayAway == ListsSpec => []NothingOlderReturns
<1>1. ListsInv => NothingOlderReturns
    BY DEF ListsInv, NoneOlder, NothingOlderReturns
<1> QED BY <1>1, ListsInductive, PTL
=============================================================================
