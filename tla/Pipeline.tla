------------------------------ MODULE Pipeline ------------------------------
(***************************************************************************)
(* A build from its acceptance to the status its user sees: the outbox,    *)
(* as the relay of jobs it implements (module Relay), the workers (module  *)
(* Worker), and the server's status consumer, as the life cycle of         *)
(* statuses it implements (module Lifecycle).                              *)
(***************************************************************************)
EXTENDS Worker

CONSTANT MaxCopies  \* publications of a job by the outbox

ASSUME PipelineAssumption == MaxCopies \in Nat

VARIABLES outbox,   \* state of the job in the outbox
          copies    \* times the outbox published it

vars == <<queueVars, worker, rowVars, status, failures, faults, outbox, copies>>

Outcomes == {"success", "canceled"}

Relay == INSTANCE Relay WITH Jobs <- Deployments, status <- outbox,
                             published <- copies
Server == INSTANCE Lifecycle WITH reported <- reports

TypeOK ==
    /\ WorkerTypeOK
    /\ status \in [Deployments -> {"pending"} \cup Reportable]
    /\ outbox \in [Deployments -> {"absent", "owed", "sent", "dead_letter",
                                   "deleted"}]
    /\ copies \in [Deployments -> 0..MaxCopies]

Init == WorkerInit /\ Relay!Init /\ Server!Init

\* The outbox publishes the job, with RetryCount 0, or moves on by itself.
OutboxStep ==
    /\ \/ \E d \in Deployments :
             \/ Relay!Publish(d) /\ Requeue([deployment |-> d, retry |-> 0])
             \/ /\ Relay!Accept(d) \/ Relay!Settle(d) \/ Relay!GiveUp(d)
                /\ UNCHANGED jobs
       \/ Relay!Forget /\ UNCHANGED jobs
    /\ UNCHANGED <<dead, reports, worker, rowVars, status, failures, faults>>

\* The status consumer applies a report.
ServerShows(d, S) ==
    /\ UNCHANGED <<queueVars, worker, rowVars, failures, faults, outbox, copies>>
    /\ \E s \in S : Server!Show(d, s)

Next ==
    \/ OutboxStep
    \/ \E d \in Deployments : ServerShows(d, Reportable)
    \/ WorkerNext /\ UNCHANGED <<outbox, copies>>

Spec == Init /\ [][Next]_vars

\* Restarts and progress of the workers.  Nothing is assumed of the server: a
\* report may be dead-lettered after failed calls, or wait for a consumer
\* whose connection is lost.
FairSpec == Spec /\ WorkerFairness

-----------------------------------------------------------------------------
(* Properties.                                                             *)

\* "A worker crash mid-build redelivers the job instead of silently losing
\* it": a published job is ready, in the hands of a worker whose channel is
\* open, or its outcome was reported, at every point of a retry, of a
\* cancellation and of a lost channel.
JobsAreKept ==
    \A d \in Deployments : copies[d] > 0 =>
        \/ \E j \in Jobs : j.deployment = d /\ jobs[j] > 0
        \/ \E w \in Workers : HasJob(w) /\ worker[w].open /\ Id(w) = d
        \/ reports[d] \cap Outcomes # {}

\* The outcome a user sees was earned: success only when some attempt was
\* finished, canceled only when MAX_RETRIES_COUNT attempts failed, however
\* often the job was published, returned and built by several workers.
OutcomeIsEarned ==
    \A d \in Deployments :
        /\ status[d] = "success" => d \in built
        /\ status[d] = "canceled" => failures[d] >= MaxRetries

\* What the owner of a deployment may rely on (module Service): an attempt is
\* let in, its credential approved, only for an accepted build that shows no
\* outcome, whatever copies of its job are about; outcomes are earned, and
\* final.
Busy(w) ==
    worker[w].at \in {"token", "insert", "building", "announce", "image",
                     "finish"}
Trying(d) == {w \in Workers : Busy(w) /\ Id(w) = d}
Promise == INSTANCE Service WITH
               accepted <- {d \in Deployments : outbox[d] # "absent"},
               trying <- [d \in Deployments |-> Trying(d)]
ImplementsService == Promise!Spec

\* A job is dead-lettered only after its cancellation was reported, so the
\* dead-letter queue never holds the only trace of a build.
DeadJobsAreReported ==
    \A d \in dead : "canceled" \in reports[d]

\* Every build whose job is published comes to an outcome that a worker
\* reports, through all crashes, lost channels and failed attempts.  Whether
\* the server applies the report is not in the workers' hands.
JobsConclude ==
    \A d \in Deployments : copies[d] > 0 ~> reports[d] \cap Outcomes # {}

=============================================================================
