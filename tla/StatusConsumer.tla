--------------------------- MODULE StatusConsumer ---------------------------
(***************************************************************************)
(* The API server's consumer of deploy.status: the sessions of             *)
(*   server/internal/deployments/usecase/deployment_ucase.go               *)
(* that take worker reports from RabbitMQ with manual acknowledgements,    *)
(* and ApplyStatusUpdate of pgsql_deployment.go, the transaction that      *)
(* moves a deployment's status.                                            *)
(*                                                                         *)
(* Messages are named by their position in `log`, the sequence of all      *)
(* reports ever published on deploy.status.                                *)
(***************************************************************************)
EXTENDS Integers, Sequences

CONSTANTS
    Deployments,        \* deployments that have a row
    Unknown,            \* deployment ids that have none
    Servers,            \* server processes, each running one consumer
    Prefetch,           \* statusConsumePrefetch
    MaxApplyAttempts,   \* statusMaxApplyAttempts
    MaxReports,         \* bound of the model: reports published
    MaxFaults           \* bound of the model: failed calls, losses and stops

ASSUME StatusConsumerAssumption ==
    /\ Deployments \cap Unknown = {}
    /\ Prefetch \in Nat \ {0}
    /\ MaxApplyAttempts \in Nat \ {0}
    /\ MaxReports \in Nat
    /\ MaxFaults \in Nat

VARIABLES
    log,            \* reports published on deploy.status
    queue,          \* those ready for delivery, in order
    unacked,        \* those delivered to each server's open channel
    session,        \* state of each server's consume session
    message,        \* the report each server is handling, 0 for none
    tries,          \* ApplyStatusUpdate calls made for it
    result,         \* what became of them
    status,         \* deployments.status
    applied,        \* reports whose update was committed
    exhausted,      \* reports given up after MaxApplyAttempts calls
    dlq,            \* reports on deploy.status.dlq
    faults          \* failures so far

brokerVars == <<log, queue, unacked, dlq>>
handlerVars == <<message, tries, result>>
tableVars == <<status, applied, exhausted>>
vars == <<brokerVars, session, handlerVars, tableVars, faults>>

Outcomes == {"success", "failed", "canceled"}

\* What the worker puts in a report; "malformed" stands for a body that is no
\* report or has no deployment id or no known status.
Reportable == {"building", "success", "canceled", "malformed"}

Reports == [deployment: Deployments \cup Unknown, status: Reportable]
Indices == 1..Len(log)

TypeOK ==
    /\ log \in Seq(Reports)
    /\ queue \in Seq(Indices)
    /\ unacked \in [Servers -> Seq(Indices)]
    /\ session \in [Servers -> {"stopped", "closed", "open", "disconnected"}]
    /\ message \in [Servers -> Indices \cup {0}]
    /\ tries \in [Servers -> 0..MaxApplyAttempts]
    /\ result \in [Servers -> {"none", "applied", "refused", "failed"}]
    /\ status \in [Deployments -> {"pending", "building"} \cup Outcomes]
    /\ applied \subseteq Indices
    /\ exhausted \subseteq Indices
    /\ dlq \subseteq Indices
    /\ faults \in 0..MaxFaults

Init ==
    /\ log = <<>>
    /\ queue = <<>>
    /\ unacked = [s \in Servers |-> <<>>]
    /\ session = [s \in Servers |-> "closed"]
    /\ message = [s \in Servers |-> 0]
    /\ tries = [s \in Servers |-> 0]
    /\ result = [s \in Servers |-> "none"]
    /\ status = [d \in Deployments |-> "pending"]
    /\ applied = {}
    /\ exhausted = {}
    /\ dlq = {}
    /\ faults = 0

Fault == faults < MaxFaults /\ faults' = faults + 1

-----------------------------------------------------------------------------
(* RabbitMQ.                                                               *)

\* A worker's report reaches the queue.
Publish(d, st) ==
    /\ log' = Append(log, [deployment |-> d, status |-> st])
    /\ queue' = Append(queue, Len(log) + 1)
    /\ UNCHANGED <<unacked, session, handlerVars, tableVars, dlq, faults>>

\* The broker pushes the oldest ready report to a consumer, up to prefetch.
Deliver(s) ==
    /\ session[s] = "open"
    /\ queue # <<>>
    /\ Len(unacked[s]) < Prefetch
    /\ unacked' = [unacked EXCEPT ![s] = Append(@, Head(queue))]
    /\ queue' = Tail(queue)
    /\ UNCHANGED <<log, session, handlerVars, tableVars, dlq, faults>>

\* A session ends as `to`: the broker returns what it has not been
\* acknowledged to the front of the queue, in order.
EndSession(s, to) ==
    /\ session' = [session EXCEPT ![s] = to]
    /\ queue' = unacked[s] \o queue
    /\ unacked' = [unacked EXCEPT ![s] = <<>>]

\* The channel closes; the message in hand is still handled to its end.
ChannelLost(s) ==
    /\ Fault
    /\ session[s] = "open"
    /\ EndSession(s, "closed")
    /\ UNCHANGED <<log, handlerVars, tableVars, dlq>>

\* The connection is lost.
ConnectionLost(s) ==
    /\ Fault
    /\ session[s] \in {"open", "closed"}
    /\ EndSession(s, "disconnected")
    /\ UNCHANGED <<log, handlerVars, tableVars, dlq>>

-----------------------------------------------------------------------------
(* The server s.                                                           *)

NothingInHand(s) ==
    /\ message' = [message EXCEPT ![s] = 0]
    /\ tries' = [tries EXCEPT ![s] = 0]
    /\ result' = [result EXCEPT ![s] = "none"]

\* runStatusConsumerLoop, after its backoff, opens a channel on the
\* connection the process was started with and consumes.
OpenSession(s) ==
    /\ session[s] = "closed"
    /\ message[s] = 0
    /\ session' = [session EXCEPT ![s] = "open"]
    /\ UNCHANGED <<brokerVars, handlerVars, tableVars, faults>>

\* consumeStatusUpdate handles the deliveries one by one, in order.
Take(s) ==
    /\ session[s] = "open"
    /\ message[s] = 0
    /\ unacked[s] # <<>>
    /\ message' = [message EXCEPT ![s] = Head(unacked[s])]
    /\ UNCHANGED <<brokerVars, session, tries, result, tableVars, faults>>

\* Mistaken variants of Applicable: any status is stored, an outcome is not
\* protected, it is protected against non-outcomes only.
AnyStatusApplicable(r) ==
    /\ r.deployment \in Deployments
    /\ status[r.deployment] \in Outcomes => status[r.deployment] = r.status
AlwaysApplicable(r) ==
    r.status # "malformed" /\ r.deployment \in Deployments
OutcomeApplicable(r) ==
    /\ r.status # "malformed"
    /\ r.deployment \in Deployments
    /\ status[r.deployment] \in Outcomes => r.status \in Outcomes

\* What passes the decoding checks and is no permanent error: a well formed
\* report on a deployment that has a row and no other outcome yet.
Applicable(r) ==
    /\ r.status # "malformed"
    /\ r.deployment \in Deployments
    /\ status[r.deployment] \in Outcomes => status[r.deployment] = r.status

\* handleStatusMessage, one call of ApplyStatusUpdate on the report in hand.
Handling(s) == message[s] # 0 /\ result[s] = "none"

\* The update that ApplyStatusUpdate commits.
Commit(s) ==
    LET r == log[message[s]] IN
    /\ Applicable(r)
    /\ status' = [status EXCEPT ![r.deployment] = r.status]
    /\ applied' = applied \cup {message[s]}

Apply(s) ==
    /\ Handling(s)
    /\ Commit(s)
    /\ result' = [result EXCEPT ![s] = "applied"]
    /\ UNCHANGED <<brokerVars, session, message, tries, exhausted, faults>>

Refuse(s) ==
    /\ Handling(s)
    /\ ~Applicable(log[message[s]])
    /\ result' = [result EXCEPT ![s] = "refused"]
    /\ UNCHANGED <<brokerVars, session, message, tries, tableVars, faults>>

\* Mistaken variant of ApplyError: a transient error is taken for permanent.
ApplyErrorIsFinal(s) ==
    /\ Fault
    /\ Handling(s)
    /\ log[message[s]].status # "malformed"
    /\ result' = [result EXCEPT ![s] = "refused"]
    /\ UNCHANGED <<brokerVars, session, message, tries, tableVars>>

\* A transient error: nothing was changed, or the commit's answer was lost.
\* The last attempt gives the report up.
ApplyError(s) ==
    /\ Fault
    /\ Handling(s)
    /\ log[message[s]].status # "malformed"
    /\ Commit(s) \/ UNCHANGED <<status, applied>>
    /\ tries' = [tries EXCEPT ![s] = @ + 1]
    /\ IF tries[s] + 1 = MaxApplyAttempts
       THEN /\ result' = [result EXCEPT ![s] = "failed"]
            /\ exhausted' = exhausted \cup {message[s]}
       ELSE UNCHANGED <<result, exhausted>>
    /\ UNCHANGED <<brokerVars, session, message>>

\* The answer to the broker: it removes the report, or changes nothing when
\* the channel the report came on is gone.
Settle(s) ==
    /\ unacked' = [unacked EXCEPT ![s] = IF @ = <<>> THEN @ ELSE Tail(@)]
    /\ NothingInHand(s)
    /\ UNCHANGED <<log, queue, session, tableVars, faults>>

\* Mistaken variant of Ack: it does not wait for the commit.
AckEarly(s) ==
    /\ message[s] # 0
    /\ result[s] \in {"none", "applied"}
    /\ Settle(s)
    /\ UNCHANGED dlq

Ack(s) ==
    /\ result[s] = "applied"
    /\ Settle(s)
    /\ UNCHANGED dlq

\* Mistaken variant of DeadLetter: Nack with requeue.
RequeueRefused(s) ==
    /\ result[s] \in {"refused", "failed"}
    /\ queue' = IF unacked[s] = <<>> THEN queue ELSE <<message[s]>> \o queue
    /\ unacked' = [unacked EXCEPT ![s] = IF @ = <<>> THEN @ ELSE Tail(@)]
    /\ NothingInHand(s)
    /\ UNCHANGED <<log, dlq, session, tableVars, faults>>

\* Nack without requeue: the broker moves the report to deploy.status.dlq.
DeadLetter(s) ==
    /\ result[s] \in {"refused", "failed"}
    /\ Settle(s)
    /\ dlq' = IF session[s] = "open" THEN dlq \cup {message[s]} ELSE dlq

\* A crash, or a shutdown, which leaves the report in hand unanswered.
Stop(s) ==
    /\ Fault
    /\ session[s] # "stopped"
    /\ EndSession(s, "stopped")
    /\ NothingInHand(s)
    /\ UNCHANGED <<log, tableVars, dlq>>

\* The process is started again, with a connection of its own.
Restart(s) ==
    /\ session[s] = "stopped"
    /\ session' = [session EXCEPT ![s] = "closed"]
    /\ UNCHANGED <<brokerVars, handlerVars, tableVars, faults>>

-----------------------------------------------------------------------------

Handle(s) ==
    Take(s) \/ Apply(s) \/ Refuse(s) \/ Ack(s) \/ DeadLetter(s)

Consumer(s) ==
    \/ OpenSession(s) \/ Deliver(s) \/ Handle(s) \/ ApplyError(s)
    \/ ChannelLost(s) \/ ConnectionLost(s) \/ Stop(s) \/ Restart(s)

Next ==
    \/ /\ Len(log) < MaxReports
       /\ \E d \in Deployments \cup Unknown, st \in Reportable : Publish(d, st)
    \/ \E s \in Servers : Consumer(s)

Spec == Init /\ [][Next]_vars

\* A process that is stopped is started again, the consumer loop goes on, and
\* the broker keeps delivering to open sessions.
Fairness ==
    \A s \in Servers : /\ WF_vars(Restart(s))
                       /\ WF_vars(OpenSession(s))
                       /\ WF_vars(Deliver(s))
                       /\ WF_vars(Handle(s))

FairSpec == Spec /\ Fairness
-----------------------------------------------------------------------------
(* Properties.                                                             *)

OnBroker(i) ==
    \/ \E k \in DOMAIN queue : queue[k] = i
    \/ \E s \in Servers : \E k \in DOMAIN unacked[s] : unacked[s][k] = i

\* "Terminal statuses are immutable": the outcome of a deployment never
\* changes, whatever reports are repeated after a lost acknowledgement,
\* handled by two servers at once, or come back behind later ones.
OutcomeIsFinal ==
    [][\A d \in Deployments :
          status[d] \in Outcomes => status'[d] = status[d]]_status

\* "Acknowledge only after the database commit": a report leaves the broker's
\* care only when its update is committed or when it is dead-lettered.
NothingIsLost ==
    \A i \in Indices : OnBroker(i) \/ i \in applied \/ i \in dlq

\* Only what can never be applied is dead-lettered, apart from reports given
\* up after statusMaxApplyAttempts failed calls: the refusal still stands
\* when the broker acts on it, and ever after.
DeadLettersAreUnfit ==
    \A i \in dlq \ exhausted : ~Applicable(log[i])

\* The statuses shown to users are reports of workers, and the first outcome
\* shown stays.
Reported ==
    [d \in Deployments |->
        {log[i].status : i \in {j \in Indices : /\ log[j].deployment = d
                                                /\ log[j].status # "malformed"}}]
L == INSTANCE Lifecycle WITH reported <- Reported
ImplementsLifecycle == L!Spec

\* Every report is eventually applied or dead-lettered, unless all servers
\* have lost their connections, which no running process dials again.
EventuallyHandled ==
    \A i \in 1..MaxReports :
        i \in Indices ~>
            \/ i \in applied \cup dlq
            \/ \A s \in Servers : session[s] = "disconnected"

=============================================================================
