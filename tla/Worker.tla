------------------------------- MODULE Worker -------------------------------
(***************************************************************************)
(* The build workers: the loop of                                          *)
(*   worker-server/internal/worker/worker.go                               *)
(* that takes one job of deploy.jobs at a time, and ProcessDeployment of   *)
(*   worker-server/internal/deployments/deployments.go                     *)
(* with the row it keeps in the worker's own database.                     *)
(*                                                                         *)
(* Publishes and acknowledgements of a message share the channel it came   *)
(* on.  Once the broker has lost that channel they have no effect, whether *)
(* the client library notices (an error) or not.                           *)
(***************************************************************************)
EXTENDS Integers

CONSTANTS
    Deployments,
    Workers,        \* worker processes
    MaxRetries,     \* MAX_RETRIES_COUNT
    MaxFaults       \* bound of the model: channels lost and processes stopped

ASSUME WorkerAssumption == MaxRetries \in Nat \ {0} /\ MaxFaults \in Nat

VARIABLES
    jobs,           \* messages ready on deploy.jobs, by deployment and RetryCount
    dead,           \* deployments with a message on deploy.jobs.dlq
    worker,         \* state of each worker
    local,          \* status of the deployment in the worker database
    reports,        \* statuses published on deploy.status
    status,         \* status of the deployment at the API server
    built,          \* deployments some attempt was finished for
    failures,       \* attempts that returned an error, counted to MaxRetries
    faults          \* faults so far

rowVars == <<local, built>>
queueVars == <<jobs, dead, reports>>

Jobs == [deployment: Deployments, retry: 0..MaxRetries - 1]
NoJob == [deployment |-> "none", retry |-> 0]
Reportable == {"building", "success", "canceled"}

\* Where a worker is; from "credential" on it has a job in hand.
Steps == {"credential", "token", "insert", "building", "announce", "image",
          "finish", "success", "done", "error", "canceled", "dead"}

WorkerTypeOK ==
    /\ jobs \in [Jobs -> Nat]
    /\ dead \subseteq Deployments
    /\ worker \in [Workers -> [at: Steps \cup {"stopped", "idle"},
                               job: Jobs \cup {NoJob},
                               open: BOOLEAN]]
    /\ local \in [Deployments -> {"none", "pending", "building", "failed",
                                  "canceled", "success"}]
    /\ reports \in [Deployments -> SUBSET Reportable]
    /\ built \subseteq Deployments
    /\ failures \in [Deployments -> 0..MaxRetries]
    /\ faults \in 0..MaxFaults

Stopped == [at |-> "stopped", job |-> NoJob, open |-> FALSE]
Idle == [at |-> "idle", job |-> NoJob, open |-> TRUE]

WorkerInit ==
    /\ jobs = [j \in Jobs |-> 0]
    /\ dead = {}
    /\ worker = [w \in Workers |-> Stopped]
    /\ local = [d \in Deployments |-> "none"]
    /\ reports = [d \in Deployments |-> {}]
    /\ built = {}
    /\ failures = [d \in Deployments |-> 0]
    /\ faults = 0

-----------------------------------------------------------------------------

HasJob(w) == worker[w].at \in Steps
Job(w) == worker[w].job
Id(w) == Job(w).deployment

GoTo(w, step) == worker' = [worker EXCEPT ![w].at = step]

\* The job is settled: the loop goes on, or, its deliveries being over, ends
\* and with it the process.
NextJob(w) ==
    worker' = [worker EXCEPT ![w] =
        IF worker[w].open THEN Idle ELSE Stopped]

\* An attempt returns an error to the loop of StartWorker.
Fail(w) ==
    /\ GoTo(w, "error")
    /\ failures' = [failures EXCEPT ![Id(w)] =
                        IF @ = MaxRetries THEN @ ELSE @ + 1]

Continue(w, step) == GoTo(w, step) /\ UNCHANGED failures

\* An UPDATE of the worker's row: without a row it changes nothing, and that
\* is no error.
SetLocal(w, st) ==
    local' = [local EXCEPT ![Id(w)] = IF @ = "none" THEN @ ELSE st]

Report(w, st) ==
    reports' = IF worker[w].open
               THEN [reports EXCEPT ![Id(w)] = @ \cup {st}] ELSE reports

\* A message of deploy.jobs becomes ready (again).
Requeue(j) == jobs' = [jobs EXCEPT ![j] = @ + 1]

-----------------------------------------------------------------------------
(* StartWorker and ProcessDeployment in worker w.                          *)

Start(w) ==
    /\ worker[w].at = "stopped"
    /\ worker' = [worker EXCEPT ![w] = Idle]
    /\ UNCHANGED <<queueVars, rowVars, status, failures, faults>>

\* The prefetch is 1: the next job comes after the last one is settled.
Take(w, j) ==
    /\ worker[w].at = "idle"
    /\ jobs[j] > 0
    /\ jobs' = [jobs EXCEPT ![j] = @ - 1]
    /\ worker' = [worker EXCEPT ![w].at = "credential", ![w].job = j]
    /\ UNCHANGED <<dead, reports, rowVars, status, failures, faults>>

\* Mistaken variant of GetCredential: the server does not look at the status.
GetCredentialAnyway(w) ==
    /\ worker[w].at = "credential"
    /\ Continue(w, "token") \/ Fail(w)
    /\ UNCHANGED <<queueVars, rowVars, status, faults>>

\* GetCloneCredential of the API server refuses a deployment that it reads to
\* have succeeded or to be canceled, ...
GetCredential(w) ==
    /\ worker[w].at = "credential"
    /\ \/ status[Id(w)] \notin {"success", "canceled"} /\ Continue(w, "token")
       \/ Fail(w)
    /\ UNCHANGED <<queueVars, rowVars, status, faults>>

\* ... then reads the installation, asks GitHub for a token and answers, each
\* of which may fail; an outcome shown meanwhile is not seen.
ReceiveCredential(w) ==
    /\ worker[w].at = "token"
    /\ Continue(w, "insert") \/ Fail(w)
    /\ UNCHANGED <<queueVars, rowVars, status, faults>>

\* The row is inserted, or reset, on the attempt with RetryCount 0 only.
Insert(w) ==
    /\ worker[w].at = "insert"
    /\ IF Job(w).retry > 0
       THEN Continue(w, "building") /\ UNCHANGED local
       ELSE \/ /\ local' = [local EXCEPT ![Id(w)] = "pending"]
               /\ Continue(w, "building")
            \/ Fail(w) /\ UNCHANGED local
    /\ UNCHANGED <<queueVars, built, status, faults>>

MarkBuilding(w) ==
    /\ worker[w].at = "building"
    /\ \/ SetLocal(w, "building") /\ Continue(w, "announce")
       \/ Fail(w) /\ UNCHANGED local
    /\ UNCHANGED <<queueVars, built, status, faults>>

PublishBuilding(w) ==
    /\ worker[w].at = "announce"
    /\ Report(w, "building")
    /\ Continue(w, "image") \/ (~worker[w].open /\ Fail(w))
    /\ UNCHANGED <<jobs, dead, rowVars, status, faults>>

\* ReadImageTag, checkout, detection and image build.
BuildImage(w) ==
    /\ worker[w].at = "image"
    /\ local[Id(w)] # "none"
    /\ Continue(w, "finish")
    /\ UNCHANGED <<queueVars, rowVars, status, faults>>

\* One of them fails, the first when there is no row: markFailed, whose own
\* failure is ignored.
BuildFails(w) ==
    /\ worker[w].at = "image"
    /\ SetLocal(w, "failed") \/ UNCHANGED local
    /\ Fail(w)
    /\ UNCHANGED <<queueVars, built, status, faults>>

\* Upload and MarkFinished; an error leaves the row as it is.
Finish(w) ==
    /\ worker[w].at = "finish"
    /\ \/ /\ SetLocal(w, "success")
          /\ built' = built \cup {Id(w)}
          /\ Continue(w, "success")
       \/ Fail(w) /\ UNCHANGED rowVars
    /\ UNCHANGED <<queueVars, status, faults>>

PublishSuccess(w) ==
    /\ worker[w].at = "success"
    /\ Report(w, "success")
    /\ Continue(w, "done") \/ (~worker[w].open /\ Fail(w))
    /\ UNCHANGED <<jobs, dead, rowVars, status, faults>>

Ack(w) ==
    /\ worker[w].at = "done"
    /\ NextJob(w)
    /\ UNCHANGED <<queueVars, rowVars, status, failures, faults>>

\* The attempt failed and another is allowed: the job is published again
\* with the next RetryCount, then the old message is acknowledged.
Retry(w) ==
    /\ worker[w].at = "error"
    /\ Job(w).retry + 1 < MaxRetries
    /\ IF worker[w].open THEN Requeue([Job(w) EXCEPT !.retry = @ + 1])
                         ELSE UNCHANGED jobs
    /\ GoTo(w, "done")
    /\ UNCHANGED <<dead, reports, rowVars, status, failures, faults>>

\* Mistaken variants of MarkCanceled: after any failed attempt, or without
\* going on to the report.
MarkCanceledEarly(w) ==
    /\ worker[w].at = "error"
    /\ SetLocal(w, "canceled") \/ UNCHANGED local
    /\ GoTo(w, "canceled")
    /\ UNCHANGED <<queueVars, built, status, failures, faults>>
MarkCanceledSilently(w) ==
    /\ worker[w].at = "error"
    /\ Job(w).retry + 1 >= MaxRetries
    /\ SetLocal(w, "canceled") \/ UNCHANGED local
    /\ GoTo(w, "dead")
    /\ UNCHANGED <<queueVars, built, status, failures, faults>>

\* It was the last one: MarkCanceled, whose failure is only logged, ...
MarkCanceled(w) ==
    /\ worker[w].at = "error"
    /\ Job(w).retry + 1 >= MaxRetries
    /\ SetLocal(w, "canceled") \/ UNCHANGED local
    /\ GoTo(w, "canceled")
    /\ UNCHANGED <<queueVars, built, status, failures, faults>>

\* Mistaken variant of PublishCanceled: the server is not told.
CanceledLocallyOnly(w) ==
    /\ worker[w].at = "canceled"
    /\ GoTo(w, "dead")
    /\ UNCHANGED <<queueVars, rowVars, status, failures, faults>>

\* ... the report, whose failure is only logged, ...
PublishCanceled(w) ==
    /\ worker[w].at = "canceled"
    /\ Report(w, "canceled")
    /\ GoTo(w, "dead")
    /\ UNCHANGED <<jobs, dead, rowVars, status, failures, faults>>

\* ... and the message is dead-lettered.
DeadLetter(w) ==
    /\ worker[w].at = "dead"
    /\ dead' = IF worker[w].open THEN dead \cup {Id(w)} ELSE dead
    /\ NextJob(w)
    /\ UNCHANGED <<jobs, reports, rowVars, status, failures, faults>>

-----------------------------------------------------------------------------
(* Faults.                                                                 *)

\* Mistaken variant of Returned: jobs are acknowledged on delivery.
AcknowledgedOnDelivery(w) == UNCHANGED jobs

\* The broker returns an unsettled message to the queue.
Returned(w) ==
    IF worker[w].open /\ HasJob(w) THEN Requeue(Job(w)) ELSE UNCHANGED jobs

\* The channel is lost; the worker goes on with the job it has.
ChannelLost(w) ==
    /\ faults < MaxFaults
    /\ worker[w].open
    /\ faults' = faults + 1
    /\ Returned(w)
    /\ worker' = [worker EXCEPT ![w] = IF HasJob(w)
                                       THEN [@ EXCEPT !.open = FALSE]
                                       ELSE Stopped]
    /\ UNCHANGED <<dead, reports, rowVars, status, failures>>

\* The process is stopped, wherever it is.
Stop(w) ==
    /\ faults < MaxFaults
    /\ worker[w].at # "stopped"
    /\ faults' = faults + 1
    /\ Returned(w)
    /\ worker' = [worker EXCEPT ![w] = Stopped]
    /\ UNCHANGED <<dead, reports, rowVars, status, failures>>

-----------------------------------------------------------------------------

Process(w) ==
    \/ GetCredential(w) \/ ReceiveCredential(w) \/ Insert(w)
    \/ MarkBuilding(w) \/ PublishBuilding(w)
    \/ BuildImage(w) \/ BuildFails(w) \/ Finish(w) \/ PublishSuccess(w)
    \/ Ack(w) \/ Retry(w) \/ MarkCanceled(w) \/ PublishCanceled(w)
    \/ DeadLetter(w)

WorkerNext ==
    \E w \in Workers :
        \/ Start(w) \/ Process(w) \/ ChannelLost(w) \/ Stop(w)
        \/ \E j \in Jobs : Take(w, j)

WorkerFairness ==
    \A w \in Workers : /\ WF_worker(Start(w))
                       /\ WF_worker(Process(w))
                       /\ WF_worker(\E j \in Jobs : Take(w, j))
=============================================================================
