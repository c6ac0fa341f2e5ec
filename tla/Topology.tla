------------------------------ MODULE Topology ------------------------------
(***************************************************************************)
(* How the exchange, the queues and the dead-letter routes of RabbitMQ     *)
(* come to exist: every API server and every worker runs a SetUpQueues of  *)
(* its own when it starts,                                                 *)
(*   server/internal/queue/queue.go   and                                  *)
(*   worker-server/internal/queue/queue.go,                                *)
(* side by side with the others and liable to stop at any point.           *)
(***************************************************************************)
EXTENDS Naturals, Sequences

CONSTANTS
    Servers, Workers,   \* processes
    Queues,             \* deploy.jobs and deploy.status, in order of set-up
    MaxStops            \* bound of the model: times a process stops

ASSUME TopologyAssumption ==
    /\ Servers \cap Workers = {}
    /\ Queues \in Seq({Queues[i] : i \in 1..Len(Queues)}) \ {<<>>}
    /\ MaxStops \in Nat

VARIABLES
    exchange,       \* deploy.dlx exists
    declared,       \* queues that exist
    dlqs,           \* queues whose dead-letter queue exists
    bound,          \* those whose dead-letter queue is bound to deploy.dlx
    at,             \* where each process is in SetUpQueues
    stops           \* stops so far

brokerVars == <<exchange, declared, dlqs, bound>>
vars == <<brokerVars, at, stops>>

Processes == Servers \cup Workers
Names == {Queues[i] : i \in 1..Len(Queues)}

Off == [step |-> "off", queue |-> 0]
Ready == [step |-> "ready", queue |-> 0]
At(step, i) == [step |-> step, queue |-> i]
Places == {Off, Ready, At("exchange", 0)}
              \cup [step: {"dlq", "declare", "bind", "main"},
                    queue: 1..Len(Queues)]

TypeOK ==
    /\ exchange \in BOOLEAN
    /\ declared \subseteq Names
    /\ dlqs \subseteq Names
    /\ bound \subseteq dlqs
    /\ at \in [Processes -> Places]
    /\ stops \in 0..MaxStops

Init ==
    /\ exchange = FALSE
    /\ declared = {}
    /\ dlqs = {}
    /\ bound = {}
    /\ at = [p \in Processes |-> Off]
    /\ stops = 0

-----------------------------------------------------------------------------

GoTo(p, place) == at' = [at EXCEPT ![p] = place]
Here(p) == at[p].queue
Name(p) == Queues[Here(p)]

Start(p) ==
    /\ at[p] = Off
    /\ GoTo(p, At("exchange", 0))
    /\ UNCHANGED <<brokerVars, stops>>

\* The exchange is declared unless it exists.
EnsureExchange(p) ==
    /\ at[p].step = "exchange"
    /\ exchange' = TRUE
    /\ GoTo(p, At("dlq", 1))
    /\ UNCHANGED <<declared, dlqs, bound, stops>>

\* The server declares and binds a dead-letter queue only if there is none.
CheckDLQ(p) ==
    /\ p \in Servers
    /\ at[p].step = "dlq"
    /\ GoTo(p, At(IF Name(p) \in dlqs THEN "main" ELSE "declare", Here(p)))
    /\ UNCHANGED <<brokerVars, stops>>

DeclareDLQ(p) ==
    /\ at[p].step = "declare"
    /\ dlqs' = dlqs \cup {Name(p)}
    /\ GoTo(p, At("bind", Here(p)))
    /\ UNCHANGED <<exchange, declared, bound, stops>>

\* Mistaken variants of EnsureDLQ: an existing queue is taken to be bound, no
\* queue is bound.
EnsureDLQIfMissing(p) ==
    /\ p \in Workers
    /\ at[p].step = "dlq"
    /\ dlqs' = dlqs \cup {Name(p)}
    /\ GoTo(p, At(IF Name(p) \in dlqs THEN "main" ELSE "bind", Here(p)))
    /\ UNCHANGED <<exchange, declared, bound, stops>>
EnsureDLQUnbound(p) ==
    /\ p \in Workers
    /\ at[p].step = "dlq"
    /\ dlqs' = dlqs \cup {Name(p)}
    /\ GoTo(p, At("main", Here(p)))
    /\ UNCHANGED <<exchange, declared, bound, stops>>

\* The worker declares it if there is none, and binds it in any case.
EnsureDLQ(p) ==
    /\ p \in Workers
    /\ at[p].step = "dlq"
    /\ dlqs' = dlqs \cup {Name(p)}
    /\ GoTo(p, At("bind", Here(p)))
    /\ UNCHANGED <<exchange, declared, bound, stops>>

Bind(p) ==
    /\ at[p].step = "bind"
    /\ bound' = bound \cup {Name(p)}
    /\ GoTo(p, At("main", Here(p)))
    /\ UNCHANGED <<exchange, declared, dlqs, stops>>

\* The queue itself is declared unless it exists; then the next one's turn.
EnsureQueue(p) ==
    /\ at[p].step = "main"
    /\ declared' = declared \cup {Name(p)}
    /\ GoTo(p, IF Here(p) < Len(Queues) THEN At("dlq", Here(p) + 1) ELSE Ready)
    /\ UNCHANGED <<exchange, dlqs, bound, stops>>

\* The process stops, or its set-up fails and stops it.  RabbitMQ keeps what
\* was declared.
Stop(p) ==
    /\ stops < MaxStops
    /\ at[p] # Off
    /\ stops' = stops + 1
    /\ GoTo(p, Off)
    /\ UNCHANGED brokerVars

SetUp(p) == \/ Start(p) \/ EnsureExchange(p) \/ CheckDLQ(p) \/ DeclareDLQ(p)
            \/ EnsureDLQ(p) \/ Bind(p) \/ EnsureQueue(p)

Next == \E p \in Processes : SetUp(p) \/ Stop(p)

Spec == Init /\ [][Next]_vars

\* A process that is not ready is started and its set-up goes on.
FairSpec == Spec /\ \A p \in Processes : WF_vars(SetUp(p))

-----------------------------------------------------------------------------
(* Properties.                                                             *)

Complete == exchange /\ declared = Names /\ dlqs = Names /\ bound = Names

\* A worker takes jobs only when every dead-letter route is in place, so no
\* job it rejects is dropped, whatever set-up was interrupted before.
WorkersFindRoutes ==
    \A w \in Workers : at[w] = Ready => Complete

\* With a worker in the system the routes get repaired and stay.
RoutesAppear == <>[]Complete

=============================================================================
