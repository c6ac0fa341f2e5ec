--------------------------- MODULE PipelineProofs ---------------------------
(***************************************************************************)
(* Proofs about Pipeline for any deployments, workers and retry limit: no  *)
(* published job vanishes and every outcome shown was earned.  The         *)
(* invariant counts failed attempts along the retries (WorkerOK, QueueInv),*)
(* ties reports to what was done before them (ReportsInv), and finds for   *)
(* each published job somebody who still has work to do for it (KeptInv).  *)
(* As nobody works on what was not accepted (AcceptedInv), the whole       *)
(* implements module Service.                                              *)
(***************************************************************************)
EXTENDS Pipeline, TLAPS

USE WorkerAssumption, PipelineAssumption

\* What a worker knows of the job in its hand.
WorkerOK(w) ==
    /\ worker[w].at = "idle" => worker[w].open
    /\ HasJob(w) =>
           /\ Job(w) \in Jobs
           /\ failures[Id(w)] >= Job(w).retry
           /\ worker[w].at = "error" => failures[Id(w)] > Job(w).retry
           /\ worker[w].at \in {"canceled", "dead"} =>
                  failures[Id(w)] = MaxRetries
           /\ worker[w].at = "success" => Id(w) \in built
           /\ worker[w].at = "dead" /\ worker[w].open =>
                  "canceled" \in reports[Id(w)]

\* A message with RetryCount n follows n failed attempts.
QueueInv ==
    \A j \in Jobs : jobs[j] > 0 => failures[j.deployment] >= j.retry

ReportsInv ==
    \A d \in Deployments :
        /\ "success" \in reports[d] => d \in built
        /\ "canceled" \in reports[d] => failures[d] = MaxRetries
        /\ status[d] \in Outcomes => status[d] \in reports[d]
        /\ d \in dead => "canceled" \in reports[d]

\* The job of d is ready, or a worker that can still publish has not settled
\* what becomes of it.
Ready(d) == \E j \in Jobs : j.deployment = d /\ jobs[j] > 0
Pending(w, d) ==
    /\ worker[w].at \in Steps \ {"done", "dead"}
    /\ worker[w].open
    /\ Id(w) = d

KeptInv ==
    \A d \in Deployments : copies[d] > 0 =>
        \/ Ready(d)
        \/ \E w \in Workers : Pending(w, d)
        \/ reports[d] \cap Outcomes # {}

\* Nothing is queued, tried or reported but what the outbox was asked for.
Accepted == {d \in Deployments : outbox[d] # "absent"}

AcceptedInv ==
    /\ \A j \in Jobs : jobs[j] > 0 => j.deployment \in Accepted
    /\ \A w \in Workers : HasJob(w) => Id(w) \in Accepted
    /\ \A d \in Deployments : reports[d] # {} => d \in Accepted

IInv == /\ TypeOK /\ QueueInv /\ ReportsInv /\ KeptInv /\ AcceptedInv
        /\ \A w \in Workers : WorkerOK(w)

-----------------------------------------------------------------------------
(* Types.                                                                  *)

Places == Steps \cup {"stopped", "idle"}
Worker == [at: Places, job: Jobs \cup {NoJob}, open: BOOLEAN]

LEMMA WorkerTypes ==
    /\ Stopped \in Worker /\ Idle \in Worker
    /\ \A x \in Worker : /\ \A at \in Places : [x EXCEPT !.at = at] \in Worker
                         /\ [x EXCEPT !.open = FALSE] \in Worker
                         /\ [x EXCEPT !.open = TRUE] \in Worker
                         /\ \A j \in Jobs : [x EXCEPT !.job = j] \in Worker
<1>1. NoJob \in Jobs \cup {NoJob} /\ "idle" \in Places /\ "stopped" \in Places
    BY DEF Places
<1> QED BY <1>1 DEF Worker, Stopped, Idle

\* What a step does to the record of its worker.
LEMMA GoesTo ==
    ASSUME TypeOK, NEW w \in Workers, NEW st \in Steps, GoTo(w, st)
    PROVE  /\ worker' \in [Workers -> Worker]
           /\ worker'[w].at = st
           /\ worker'[w].job = worker[w].job
           /\ worker'[w].open = worker[w].open
           /\ \A c \in Workers : c # w => worker'[c] = worker[c]
<1>1. worker \in [Workers -> Worker]
    BY DEF TypeOK, WorkerTypeOK, Worker, Places
<1>2. worker' = [worker EXCEPT ![w] = [worker[w] EXCEPT !.at = st]]
    BY <1>1 DEF GoTo
<1>3. [worker[w] EXCEPT !.at = st] \in Worker
    BY <1>1, WorkerTypes DEF Places
<1>4. worker[w] \in Worker
    BY <1>1
<1>5. /\ [worker[w] EXCEPT !.at = st].at = st
      /\ [worker[w] EXCEPT !.at = st].job = worker[w].job
      /\ [worker[w] EXCEPT !.at = st].open = worker[w].open
    BY <1>4 DEF Worker
<1> QED BY <1>1, <1>2, <1>3, <1>5

LEMMA Becomes ==
    ASSUME TypeOK, NEW w \in Workers, NEW r \in Worker,
           worker' = [worker EXCEPT ![w] = r]
    PROVE  /\ worker' \in [Workers -> Worker]
           /\ worker'[w] = r
           /\ \A c \in Workers : c # w => worker'[c] = worker[c]
BY DEF TypeOK, WorkerTypeOK, Worker, Places

LEMMA Settled ==
    ASSUME TypeOK, NEW w \in Workers, NextJob(w)
    PROVE  /\ worker' \in [Workers -> Worker]
           /\ worker'[w] \in {Idle, Stopped}
           /\ \A c \in Workers : c # w => worker'[c] = worker[c]
<1> DEFINE r == IF worker[w].open THEN Idle ELSE Stopped
<1>1. r \in Worker
    BY WorkerTypes
<1>2. worker' = [worker EXCEPT ![w] = r]
    BY DEF NextJob
<1>3. r \in {Idle, Stopped}
    OBVIOUS
<1> HIDE DEF r
<1> QED BY <1>1, <1>2, <1>3, Becomes

LEMMA Takes ==
    ASSUME TypeOK, NEW w \in Workers, NEW j \in Jobs, Take(w, j)
    PROVE  /\ worker' \in [Workers -> Worker]
           /\ worker'[w].at = "credential"
           /\ worker'[w].job = j
           /\ worker'[w].open = worker[w].open
           /\ \A c \in Workers : c # w => worker'[c] = worker[c]
<1> DEFINE a == [worker EXCEPT ![w].at = "credential"]
<1>1. worker \in [Workers -> Worker] /\ worker[w] \in Worker
    BY DEF TypeOK, WorkerTypeOK, Worker, Places
<1>2. a \in [Workers -> Worker] /\ a[w].at = "credential"
          /\ a[w].open = worker[w].open
          /\ \A c \in Workers : c # w => a[c] = worker[c]
    <2>1. a = [worker EXCEPT ![w] = [worker[w] EXCEPT !.at = "credential"]]
        OBVIOUS
    <2>2. [worker[w] EXCEPT !.at = "credential"] \in Worker
        BY <1>1, WorkerTypes DEF Places, Steps
    <2>3. /\ [worker[w] EXCEPT !.at = "credential"].at = "credential"
          /\ [worker[w] EXCEPT !.at = "credential"].open = worker[w].open
        BY <1>1 DEF Worker
    <2> QED BY <1>1, <2>1, <2>2, <2>3
<1>3. worker' = [a EXCEPT ![w].job = j]
    BY DEF Take
<1> HIDE DEF a
<1>4. worker' = [a EXCEPT ![w] = [a[w] EXCEPT !.job = j]]
    BY <1>3
<1>5. [a[w] EXCEPT !.job = j] \in Worker /\ a[w] \in Worker
    BY <1>2, WorkerTypes
<1>6. /\ [a[w] EXCEPT !.job = j].at = a[w].at
      /\ [a[w] EXCEPT !.job = j].job = j
      /\ [a[w] EXCEPT !.job = j].open = a[w].open
    BY <1>5 DEF Worker
<1> QED BY <1>2, <1>4, <1>5, <1>6

LEMMA NextSteps ==
    ASSUME [Next]_vars
    PROVE  \/ UNCHANGED vars
           \/ OutboxStep
           \/ \E d \in Deployments : ServerShows(d, Reportable)
           \/ /\ UNCHANGED <<outbox, copies>>
              /\ \E w \in Workers :
                    \/ Start(w) \/ Process(w) \/ ChannelLost(w) \/ Stop(w)
                    \/ \E j \in Jobs : Take(w, j)
BY DEF Next, WorkerNext

\* Evidence accumulates: failed attempts, finished attempts and reports.
LEMMA EvidenceGrows ==
    ASSUME TypeOK, [Next]_vars
    PROVE  /\ \A d \in Deployments : failures[d] <= failures'[d]
           /\ built \subseteq built'
           /\ \A d \in Deployments : reports[d] \subseteq reports'[d]
<1> USE DEF TypeOK, WorkerTypeOK, queueVars, rowVars
<1>1. CASE UNCHANGED vars
    BY <1>1 DEF vars
<1>2. CASE OutboxStep
    BY <1>2 DEF OutboxStep
<1>3. ASSUME NEW d \in Deployments, ServerShows(d, Reportable)
      PROVE  UNCHANGED <<failures, built, reports>>
    BY <1>3 DEF ServerShows
<1>4. ASSUME NEW w \in Workers,
             \/ Start(w) \/ ChannelLost(w) \/ Stop(w)
             \/ \E j \in Jobs : Take(w, j)
      PROVE  UNCHANGED <<failures, built, reports>>
    BY <1>4 DEF Start, ChannelLost, Stop, Take
<1>5. ASSUME NEW w \in Workers, Process(w)
      PROVE  /\ \A d \in Deployments : failures[d] <= failures'[d]
             /\ built \subseteq built'
             /\ \A d \in Deployments : reports[d] \subseteq reports'[d]
    <2>1. ASSUME NEW st PROVE Continue(w, st) => UNCHANGED failures
        BY DEF Continue
    <2>2. Fail(w) => \A d \in Deployments : failures[d] <= failures'[d]
        BY DEF Fail
    <2>3. ASSUME NEW st, Report(w, st)
          PROVE  \A d \in Deployments : reports[d] \subseteq reports'[d]
        BY <2>3 DEF Report
    <2>4. CASE GetCredential(w) \/ ReceiveCredential(w)
        BY <2>1, <2>2, <2>4 DEF GetCredential, ReceiveCredential
    <2>5. CASE Insert(w)
        BY <2>1, <2>2, <2>5 DEF Insert
    <2>6. CASE MarkBuilding(w)
        BY <2>1, <2>2, <2>6 DEF MarkBuilding
    <2>7. CASE PublishBuilding(w)
        BY <2>1, <2>2, <2>3, <2>7 DEF PublishBuilding
    <2>8. CASE BuildImage(w)
        BY <2>1, <2>8 DEF BuildImage
    <2>9. CASE BuildFails(w)
        BY <2>2, <2>9 DEF BuildFails
    <2>10. CASE Finish(w)
        BY <2>1, <2>2, <2>10 DEF Finish
    <2>11. CASE PublishSuccess(w)
        BY <2>1, <2>2, <2>3, <2>11 DEF PublishSuccess
    <2>12. CASE PublishCanceled(w)
        BY <2>3, <2>12 DEF PublishCanceled
    <2>13. CASE Ack(w) \/ Retry(w) \/ MarkCanceled(w) \/ DeadLetter(w)
        BY <2>13 DEF Ack, Retry, MarkCanceled, DeadLetter
    <2> QED BY <1>5, <2>4, <2>5, <2>6, <2>7, <2>8, <2>9, <2>10, <2>11, <2>12,
            <2>13 DEF Process
<1> QED BY <1>1, <1>2, <1>3, <1>4, <1>5, NextSteps

LEMMA Loses ==
    ASSUME TypeOK, NEW w \in Workers, ChannelLost(w)
    PROVE  /\ worker' \in [Workers -> Worker]
           /\ \/ worker'[w] = Stopped
              \/ /\ HasJob(w)
                 /\ worker'[w].at = worker[w].at
                 /\ worker'[w].job = worker[w].job
                 /\ ~worker'[w].open
           /\ \A c \in Workers : c # w => worker'[c] = worker[c]
<1> DEFINE r == IF HasJob(w) THEN [worker[w] EXCEPT !.open = FALSE]
                             ELSE Stopped
<1>1. worker \in [Workers -> Worker] /\ worker[w] \in Worker
    BY DEF TypeOK, WorkerTypeOK, Worker, Places
<1>2. r \in Worker
    BY <1>1, WorkerTypes
<1>3. worker' = [worker EXCEPT ![w] = r]
    BY DEF ChannelLost
<1>4. \/ r = Stopped
      \/ /\ HasJob(w)
         /\ r.at = worker[w].at /\ r.job = worker[w].job /\ ~r.open
    BY <1>1 DEF Worker
<1> HIDE DEF r
<1> QED BY <1>2, <1>3, <1>4, Becomes

\* A step of a worker changes the record of no other, and its own to a
\* well-typed one.
LEMMA Moves ==
    ASSUME TypeOK, NEW w \in Workers,
           \/ Start(w) \/ Process(w) \/ ChannelLost(w) \/ Stop(w)
           \/ \E j \in Jobs : Take(w, j)
    PROVE  /\ worker' \in [Workers -> Worker]
           /\ \A c \in Workers : c # w => worker'[c] = worker[c]
<1>1. CASE Start(w)
    BY <1>1, Becomes, WorkerTypes DEF Start
<1>2. CASE ChannelLost(w)
    BY <1>2, Loses
<1>3. CASE Stop(w)
    BY <1>3, Becomes, WorkerTypes DEF Stop
<1>4. CASE \E j \in Jobs : Take(w, j)
    BY <1>4, Takes
<1>5. CASE Ack(w) \/ DeadLetter(w)
    BY <1>5, Settled DEF Ack, DeadLetter
<1>6. (\E st \in Steps : GoTo(w, st)) =>
          /\ worker' \in [Workers -> Worker]
          /\ \A c \in Workers : c # w => worker'[c] = worker[c]
    BY GoesTo
<1>7. Fail(w) => \E st \in Steps : GoTo(w, st)
    BY DEF Fail, Steps
<1>8. ASSUME NEW st \in Steps PROVE Continue(w, st) => GoTo(w, st)
    BY DEF Continue
<1>9. CASE GetCredential(w) \/ ReceiveCredential(w) \/ Insert(w)
           \/ MarkBuilding(w)
    BY <1>6, <1>7, <1>8, <1>9 DEF GetCredential, ReceiveCredential, Insert,
       MarkBuilding, Steps
<1>10. CASE PublishBuilding(w) \/ BuildImage(w) \/ BuildFails(w)
    BY <1>6, <1>7, <1>8, <1>10 DEF PublishBuilding, BuildImage, BuildFails, Steps
<1>11. CASE Finish(w) \/ PublishSuccess(w)
    BY <1>6, <1>7, <1>8, <1>11 DEF Finish, PublishSuccess, Steps
<1>12. CASE Retry(w) \/ MarkCanceled(w) \/ PublishCanceled(w)
    BY <1>6, <1>12 DEF Retry, MarkCanceled, PublishCanceled, Steps
<1> QED BY <1>1, <1>2, <1>3, <1>4, <1>5, <1>9, <1>10, <1>11, <1>12 DEF Process

\* The types of what else a worker changes.
LEMMA WorkersTypes ==
    ASSUME TypeOK, NEW w \in Workers, WorkerOK(w),
           \/ Start(w) \/ Process(w) \/ ChannelLost(w) \/ Stop(w)
           \/ \E j \in Jobs : Take(w, j)
    PROVE  WorkerTypeOK' /\ status' = status
<1> USE DEF TypeOK, WorkerTypeOK, queueVars, rowVars
<1>1. worker' \in [Workers -> [at: Steps \cup {"stopped", "idle"},
                               job: Jobs \cup {NoJob}, open: BOOLEAN]]
    BY Moves DEF Worker, Places
<1>2. ASSUME NEW j \in Jobs, Requeue(j)
      PROVE  jobs' \in [Jobs -> Nat]
    BY <1>2 DEF Requeue
<1>3. ASSUME NEW st \in {"pending", "building", "failed", "canceled", "success"},
             SetLocal(w, st)
      PROVE  local' \in [Deployments -> {"none", "pending", "building",
                                         "failed", "canceled", "success"}]
    BY <1>3 DEF SetLocal
<1>4. ASSUME NEW st \in Reportable, Report(w, st)
      PROVE  reports' \in [Deployments -> SUBSET Reportable]
    BY <1>4 DEF Report
<1>5. Fail(w) => failures' \in [Deployments -> 0..MaxRetries]
    <2>1. \A n \in 0..MaxRetries :
              (IF n = MaxRetries THEN n ELSE n + 1) \in 0..MaxRetries
        OBVIOUS
    <2>2. CASE Id(w) \in Deployments
        BY <2>1, <2>2 DEF Fail
    <2>3. CASE Id(w) \notin Deployments
        <3> DEFINE n == failures[Id(w)]
                   next == IF n = MaxRetries THEN n ELSE n + 1
        <3>1. Fail(w) => failures' = [failures EXCEPT ![Id(w)] = next]
            BY DEF Fail
        <3> HIDE DEF next
        <3> QED BY <2>3, <3>1
    <2> QED BY <2>2, <2>3
<1>6. ASSUME NEW st \in Steps, Continue(w, st)
      PROVE  failures' \in [Deployments -> 0..MaxRetries]
    BY <1>6 DEF Continue
<1>7. HasJob(w) => Job(w) \in Jobs /\ Id(w) \in Deployments
    BY DEF WorkerOK, Jobs, Id
<1>8. Returned(w) => jobs' \in [Jobs -> Nat]
    BY <1>2, <1>7 DEF Returned
<1>9. CASE Start(w) \/ ChannelLost(w) \/ Stop(w)
    BY <1>1, <1>8, <1>9 DEF Start, ChannelLost, Stop
<1>10. ASSUME NEW j \in Jobs, Take(w, j)
       PROVE  WorkerTypeOK' /\ status' = status
    <2>1. jobs[j] \in Nat /\ jobs[j] > 0 /\ jobs' = [jobs EXCEPT ![j] = @ - 1]
        BY <1>10 DEF Take
    <2>2. jobs[j] - 1 \in Nat
        BY <2>1
    <2>3. jobs' \in [Jobs -> Nat]
        BY <2>1, <2>2
    <2> QED BY <1>1, <1>10, <2>3 DEF Take
<1>11. CASE GetCredential(w) \/ ReceiveCredential(w)
    BY <1>1, <1>5, <1>6, <1>11 DEF GetCredential, ReceiveCredential, Steps
<1>12. CASE Insert(w)
    <2>1. HasJob(w)
        BY <1>12 DEF Insert, HasJob, Steps
    <2> QED BY <1>1, <1>5, <1>6, <1>7, <1>12, <2>1 DEF Insert, Steps
<1>13. CASE MarkBuilding(w)
    BY <1>1, <1>3, <1>5, <1>6, <1>13 DEF MarkBuilding, Steps
<1>14. CASE PublishBuilding(w) \/ PublishSuccess(w)
    BY <1>1, <1>4, <1>5, <1>6, <1>14
       DEF PublishBuilding, PublishSuccess, Steps, Reportable
<1>15. CASE BuildImage(w) \/ BuildFails(w)
    BY <1>1, <1>3, <1>5, <1>6, <1>15 DEF BuildImage, BuildFails, Steps
<1>16. CASE Finish(w)
    <2>1. HasJob(w)
        BY <1>16 DEF Finish, HasJob, Steps
    <2> QED BY <1>1, <1>3, <1>5, <1>6, <1>7, <1>16, <2>1 DEF Finish, Steps
<1>17. CASE Ack(w)
    BY <1>1, <1>17 DEF Ack
<1>18. CASE DeadLetter(w)
    <2>1. HasJob(w)
        BY <1>18 DEF DeadLetter, HasJob, Steps
    <2> QED BY <1>1, <1>7, <1>18, <2>1 DEF DeadLetter
<1>19. CASE Retry(w)
    <2>1. HasJob(w)
        BY <1>19 DEF Retry, HasJob, Steps
    <2>2. [Job(w) EXCEPT !.retry = @ + 1] \in Jobs
        BY <1>7, <1>19, <2>1 DEF Retry, Jobs
    <2> QED BY <1>1, <1>2, <1>19, <2>2 DEF Retry
<1>20. CASE MarkCanceled(w) \/ PublishCanceled(w)
    BY <1>1, <1>3, <1>4, <1>20 DEF MarkCanceled, PublishCanceled, Reportable
<1> QED BY <1>9, <1>10, <1>11, <1>12, <1>13, <1>14, <1>15, <1>16, <1>17, <1>18,
        <1>19, <1>20 DEF Process

LEMMA TypeStep ==
    ASSUME TypeOK, [Next]_vars, \A w \in Workers : WorkerOK(w)
    PROVE  TypeOK'
<1>1. CASE UNCHANGED vars
    BY <1>1 DEF vars, TypeOK, WorkerTypeOK, queueVars, rowVars
<1>2. CASE OutboxStep
    <2>1. ASSUME NEW d \in Deployments,
                 Requeue([deployment |-> d, retry |-> 0])
          PROVE  jobs' \in [Jobs -> Nat]
        <3>1. [deployment |-> d, retry |-> 0] \in Jobs
            BY DEF Jobs
        <3> QED BY <2>1, <3>1 DEF Requeue, TypeOK, WorkerTypeOK
    <2>2. jobs' \in [Jobs -> Nat]
        BY <1>2, <2>1 DEF OutboxStep, TypeOK, WorkerTypeOK
    <2>3. outbox' \in [Deployments -> {"absent", "owed", "sent", "dead_letter",
                                       "deleted"}]
        BY <1>2 DEF OutboxStep, TypeOK, Relay!Publish, Relay!Accept,
           Relay!Settle, Relay!GiveUp, Relay!Forget
    <2>4. copies' \in [Deployments -> 0..MaxCopies]
        <3>1. ASSUME NEW d \in Deployments, Relay!Publish(d)
              PROVE  copies' \in [Deployments -> 0..MaxCopies]
            <4>1. copies[d] + 1 \in 0..MaxCopies
                BY <3>1 DEF Relay!Publish, TypeOK
            <4> QED BY <3>1, <4>1 DEF Relay!Publish, TypeOK
        <3>2. copies' = copies => copies' \in [Deployments -> 0..MaxCopies]
            BY DEF TypeOK
        <3> QED BY <1>2, <3>1, <3>2 DEF OutboxStep, Relay!Accept,
                Relay!Settle, Relay!GiveUp, Relay!Forget
    <2> QED BY <1>2, <2>2, <2>3, <2>4
            DEF OutboxStep, TypeOK, WorkerTypeOK, rowVars
<1>3. ASSUME NEW d \in Deployments, ServerShows(d, Reportable)
      PROVE  TypeOK'
    BY <1>3 DEF ServerShows, Server!Show, TypeOK, WorkerTypeOK, queueVars, rowVars
<1>4. ASSUME NEW w \in Workers, UNCHANGED <<outbox, copies>>,
             \/ Start(w) \/ Process(w) \/ ChannelLost(w) \/ Stop(w)
             \/ \E j \in Jobs : Take(w, j)
      PROVE  TypeOK'
    BY <1>4, WorkersTypes DEF TypeOK
<1> QED BY <1>1, <1>2, <1>3, <1>4, NextSteps

-----------------------------------------------------------------------------
(* What workers know stays true.                                           *)

LEMMA OthersKnow ==
    ASSUME TypeOK, TypeOK', [Next]_vars, NEW c \in Workers, WorkerOK(c),
           worker'[c] = worker[c]
    PROVE  WorkerOK(c)'
<1>1. CASE ~HasJob(c)
    BY <1>1 DEF WorkerOK, HasJob
<1>2. CASE HasJob(c)
    <2>1. Id(c) \in Deployments /\ Job(c).retry \in 0..MaxRetries - 1
        BY <1>2 DEF WorkerOK, Jobs, Id
    <2>2. /\ failures[Id(c)] \in 0..MaxRetries
          /\ failures'[Id(c)] \in 0..MaxRetries
          /\ failures[Id(c)] <= failures'[Id(c)]
        BY <2>1, EvidenceGrows DEF TypeOK, WorkerTypeOK
    <2>3. built \subseteq built' /\ reports[Id(c)] \subseteq reports'[Id(c)]
        BY <2>1, EvidenceGrows
    <2>4. HasJob(c)' /\ Job(c)' = Job(c) /\ Id(c)' = Id(c)
        BY <1>2 DEF HasJob, Job, Id
    <2> QED BY <1>2, <2>1, <2>2, <2>3, <2>4 DEF WorkerOK
<1> QED BY <1>1, <1>2

\* A worker that goes to its next call knows what it has to know there.
LEMMA GoerKnows ==
    ASSUME TypeOK, TypeOK', [Next]_vars, NEW w \in Workers, WorkerOK(w),
           HasJob(w), NEW st \in Steps, GoTo(w, st),
           st = "error" => failures'[Id(w)] > Job(w).retry,
           st \in {"canceled", "dead"} => failures'[Id(w)] = MaxRetries,
           st = "success" => Id(w) \in built',
           st = "dead" /\ worker[w].open => "canceled" \in reports'[Id(w)]
    PROVE  WorkerOK(w)'
<1>1. /\ worker'[w].at = st
      /\ Job(w)' = Job(w) /\ Id(w)' = Id(w)
      /\ worker'[w].open = worker[w].open
    BY GoesTo DEF Job, Id
<1>2. Job(w) \in Jobs /\ Id(w) \in Deployments
          /\ Job(w).retry \in 0..MaxRetries - 1
    BY DEF WorkerOK, Jobs, Id
<1>3. failures'[Id(w)] >= Job(w).retry
    BY <1>2, EvidenceGrows DEF WorkerOK, TypeOK, WorkerTypeOK
<1>4. worker'[w].at # "idle"
    BY <1>1 DEF Steps
<1> QED BY <1>1, <1>2, <1>3, <1>4 DEF WorkerOK

\* A failed attempt is counted.
LEMMA FailureCounts ==
    ASSUME TypeOK, NEW w \in Workers, WorkerOK(w), HasJob(w), Fail(w)
    PROVE  failures'[Id(w)] > Job(w).retry
<1>1. Id(w) \in Deployments /\ Job(w).retry \in 0..MaxRetries - 1
          /\ failures[Id(w)] >= Job(w).retry
    BY DEF WorkerOK, Jobs, Id
<1> QED BY <1>1 DEF Fail, TypeOK, WorkerTypeOK

LEMMA WorkerKnows ==
    ASSUME TypeOK, TypeOK', QueueInv, [Next]_vars,
           NEW w \in Workers, WorkerOK(w),
           \/ Start(w) \/ Process(w) \/ ChannelLost(w) \/ Stop(w)
           \/ \E j \in Jobs : Take(w, j)
    PROVE  WorkerOK(w)'

<1>1. CASE worker'[w] = Idle
    BY <1>1 DEF WorkerOK, HasJob, Idle, Steps
<1>2. CASE worker'[w] = Stopped
    BY <1>2 DEF WorkerOK, HasJob, Stopped, Steps
<1>3. CASE Start(w) \/ Stop(w)
    BY <1>1, <1>2, <1>3, Becomes, WorkerTypes DEF Start, Stop
<1>4. CASE Ack(w) \/ DeadLetter(w)
    BY <1>1, <1>2, <1>4, Settled DEF Ack, DeadLetter
<1>5. CASE ChannelLost(w)
    <2>1. CASE /\ HasJob(w)
               /\ worker'[w].at = worker[w].at
               /\ worker'[w].job = worker[w].job
               /\ ~worker'[w].open
        <3>1. UNCHANGED <<reports, built, failures>>
            BY <1>5 DEF ChannelLost, rowVars
        <3>2. Job(w)' = Job(w) /\ Id(w)' = Id(w) /\ HasJob(w)'
            BY <2>1 DEF Job, Id, HasJob
        <3>3. worker'[w].at # "idle"
            BY <2>1 DEF HasJob, Steps
        <3> QED BY <2>1, <3>1, <3>2, <3>3 DEF WorkerOK
    <2> QED BY <1>2, <1>5, <2>1, Loses
<1>6. ASSUME NEW j \in Jobs, Take(w, j)
      PROVE  WorkerOK(w)'
    <2>1. worker'[w].at = "credential" /\ Job(w)' = j
              /\ Id(w)' = j.deployment
        BY <1>6, Takes DEF Job, Id
    <2>2. failures'[j.deployment] >= j.retry
        BY <1>6 DEF Take, QueueInv
    <2> QED BY <2>1, <2>2 DEF WorkerOK
<1>7. ASSUME HasJob(w), Fail(w)
      PROVE  WorkerOK(w)'
    BY <1>7, FailureCounts, GoerKnows DEF Fail, Steps
<1>8. ASSUME HasJob(w), GoTo(w, "done")
      PROVE  WorkerOK(w)'
    BY <1>8, GoerKnows DEF Steps
<1>9. ASSUME NEW st \in {"token", "insert", "building", "announce", "image",
                         "finish", "done"},
             HasJob(w), Continue(w, st)
      PROVE  WorkerOK(w)'
    BY <1>9, GoerKnows DEF Continue, Steps
<1>10. CASE GetCredential(w) \/ ReceiveCredential(w) \/ Insert(w)
           \/ MarkBuilding(w)
    BY <1>7, <1>9, <1>10 DEF GetCredential, ReceiveCredential, Insert,
       MarkBuilding, HasJob, Steps
<1>11. CASE PublishBuilding(w) \/ BuildImage(w) \/ BuildFails(w)
    BY <1>7, <1>9, <1>11 DEF PublishBuilding, BuildImage, BuildFails, HasJob, Steps
<1>12. CASE Finish(w)
    <2>1. HasJob(w)
        BY <1>12 DEF Finish, HasJob, Steps
    <2>2. ASSUME built' = built \cup {Id(w)}, Continue(w, "success")
          PROVE  WorkerOK(w)'
        BY <2>1, <2>2, GoerKnows DEF Continue, Steps
    <2> QED BY <1>7, <1>12, <2>1, <2>2 DEF Finish
<1>13. CASE PublishSuccess(w)
    BY <1>7, <1>9, <1>13 DEF PublishSuccess, HasJob, Steps
<1>14. CASE Retry(w)
    BY <1>8, <1>14 DEF Retry, HasJob, Steps
<1>15. CASE MarkCanceled(w)
    <2>1. HasJob(w)
        BY <1>15 DEF MarkCanceled, HasJob, Steps
    <2>2. Id(w) \in Deployments /\ Job(w).retry \in 0..MaxRetries - 1
              /\ failures[Id(w)] > Job(w).retry
              /\ Job(w).retry + 1 >= MaxRetries
        BY <1>15, <2>1 DEF MarkCanceled, WorkerOK, Jobs, Id
    <2>3. failures'[Id(w)] = MaxRetries
        BY <1>15, <2>2 DEF MarkCanceled, TypeOK, WorkerTypeOK
    <2> QED BY <1>15, <2>1, <2>3, GoerKnows DEF MarkCanceled, Steps
<1>16. CASE PublishCanceled(w)
    <2>1. HasJob(w)
        BY <1>16 DEF PublishCanceled, HasJob, Steps
    <2>2. Id(w) \in Deployments /\ failures'[Id(w)] = MaxRetries
        BY <1>16, <2>1 DEF PublishCanceled, WorkerOK, Jobs, Id
    <2>3. worker[w].open => "canceled" \in reports'[Id(w)]
        BY <1>16, <2>2 DEF PublishCanceled, Report, TypeOK, WorkerTypeOK
    <2> QED BY <1>16, <2>1, <2>2, <2>3, GoerKnows DEF PublishCanceled, Steps
<1> QED BY <1>3, <1>4, <1>5, <1>6, <1>10, <1>11, <1>12, <1>13, <1>14, <1>15,
        <1>16 DEF Process


-----------------------------------------------------------------------------
(* Jobs on the queue.                                                      *)

\* How a step of a worker, other than Take, changes the queue.
LEMMA QueueSteps ==
    ASSUME NEW w \in Workers,
           Start(w) \/ Process(w) \/ ChannelLost(w) \/ Stop(w)
    PROVE  \/ jobs' = jobs
           \/ HasJob(w) /\ Requeue(Job(w))
           \/ /\ worker[w].at = "error"
              /\ Job(w).retry + 1 < MaxRetries
              /\ Requeue([Job(w) EXCEPT !.retry = @ + 1])
<1> USE DEF queueVars
<1>1. CASE ChannelLost(w) \/ Stop(w)
    BY <1>1 DEF ChannelLost, Stop, Returned
<1>2. CASE Retry(w)
    BY <1>2 DEF Retry
<1>3. CASE Start(w)
    BY <1>3 DEF Start
<1>4. CASE GetCredential(w) \/ ReceiveCredential(w) \/ Insert(w)
           \/ MarkBuilding(w) \/ PublishBuilding(w) \/ BuildImage(w)
           \/ BuildFails(w)
    BY <1>4 DEF GetCredential, ReceiveCredential, Insert, MarkBuilding,
       PublishBuilding, BuildImage, BuildFails
<1>5. CASE Finish(w) \/ PublishSuccess(w) \/ Ack(w) \/ MarkCanceled(w)
           \/ PublishCanceled(w) \/ DeadLetter(w)
    BY <1>5 DEF Finish, PublishSuccess, Ack, MarkCanceled, PublishCanceled,
       DeadLetter
<1> QED BY <1>1, <1>2, <1>3, <1>4, <1>5 DEF Process

\* The next attempt's job is one, and the failures so far allow it.
LEMMA NextAttempt ==
    ASSUME NEW w \in Workers, TypeOK, WorkerOK(w), worker[w].at = "error",
           Job(w).retry + 1 < MaxRetries
    PROVE  LET j == [Job(w) EXCEPT !.retry = @ + 1]
           IN  /\ j \in Jobs /\ j.deployment = Id(w)
               /\ failures[j.deployment] >= j.retry
<1>1. HasJob(w)
    BY DEF HasJob, Steps
<1>2. /\ Job(w) \in Jobs /\ Id(w) \in Deployments
      /\ failures[Id(w)] > Job(w).retry
    BY <1>1 DEF WorkerOK, Jobs, Id
<1> DEFINE j == [Job(w) EXCEPT !.retry = @ + 1]
<1>3. j \in Jobs /\ j.deployment = Id(w) /\ j.retry = Job(w).retry + 1
    BY <1>2 DEF Jobs, Id
<1>4. failures[Id(w)] \in Nat /\ Job(w).retry \in Nat
    BY <1>2 DEF TypeOK, WorkerTypeOK, Jobs
<1> QED BY <1>2, <1>3, <1>4

LEMMA QueueStep ==
    ASSUME TypeOK, TypeOK', QueueInv, [Next]_vars,
           \A w \in Workers : WorkerOK(w)
    PROVE  QueueInv'
<1>1. \A d \in Deployments : /\ failures[d] \in Nat /\ failures'[d] \in Nat
                             /\ failures[d] <= failures'[d]
    BY EvidenceGrows DEF TypeOK, WorkerTypeOK
<1>2. \A j \in Jobs : j.deployment \in Deployments /\ j.retry \in Nat
    BY DEF Jobs
<1>3. CASE \A j \in Jobs : jobs'[j] > 0 => jobs[j] > 0
    BY <1>1, <1>2, <1>3 DEF QueueInv
<1>4. ASSUME NEW k \in Jobs, Requeue(k), failures[k.deployment] >= k.retry
      PROVE  QueueInv'
    <2>1. ASSUME NEW j \in Jobs, jobs'[j] > 0
          PROVE  j = k \/ jobs[j] > 0
        BY <1>4, <2>1 DEF Requeue, TypeOK, WorkerTypeOK
    <2> QED BY <1>1, <1>2, <1>4, <2>1 DEF QueueInv
<1>5. CASE UNCHANGED vars
    BY <1>3, <1>5 DEF vars, queueVars
<1>6. CASE OutboxStep
    <2>1. ASSUME NEW d \in Deployments,
                 Requeue([deployment |-> d, retry |-> 0])
          PROVE  QueueInv'
        <3>1. [deployment |-> d, retry |-> 0] \in Jobs
            BY DEF Jobs
        <3> QED BY <1>1, <1>4, <2>1, <3>1
    <2> QED BY <1>3, <1>6, <2>1 DEF OutboxStep
<1>7. ASSUME NEW d \in Deployments, ServerShows(d, Reportable)
      PROVE  QueueInv'
    BY <1>3, <1>7 DEF ServerShows, queueVars
<1>8. ASSUME NEW w \in Workers, NEW j \in Jobs, Take(w, j)
      PROVE  QueueInv'
    <2>1. jobs' = [jobs EXCEPT ![j] = @ - 1] /\ jobs[j] > 0
        BY <1>8 DEF Take
    <2> QED BY <1>3, <2>1 DEF TypeOK, WorkerTypeOK
<1>9. ASSUME NEW w \in Workers,
             Start(w) \/ Process(w) \/ ChannelLost(w) \/ Stop(w)
      PROVE  QueueInv'
    <2>1. ASSUME HasJob(w), Requeue(Job(w)) PROVE QueueInv'
        BY <1>4, <2>1 DEF WorkerOK, Id
    <2>2. ASSUME worker[w].at = "error", Job(w).retry + 1 < MaxRetries,
                 Requeue([Job(w) EXCEPT !.retry = @ + 1])
          PROVE  QueueInv'
        BY <1>4, <2>2, NextAttempt
    <2> QED BY <1>3, <1>9, <2>1, <2>2, QueueSteps
<1> QED BY <1>5, <1>6, <1>7, <1>8, <1>9, NextSteps

-----------------------------------------------------------------------------
(* Reports and what they rest on.                                          *)

LEMMA ReportSteps ==
    ASSUME NEW w \in Workers,
           \/ Start(w) \/ Process(w) \/ ChannelLost(w) \/ Stop(w)
           \/ \E j \in Jobs : Take(w, j)
    PROVE  /\ status' = status
           /\ \/ UNCHANGED <<reports, dead>>
              \/ worker[w].at = "announce" /\ Report(w, "building") /\ dead' = dead
              \/ worker[w].at = "success" /\ Report(w, "success") /\ dead' = dead
              \/ worker[w].at = "canceled" /\ Report(w, "canceled") /\ dead' = dead
              \/ /\ worker[w].at = "dead" /\ reports' = reports
                 /\ dead' = IF worker[w].open THEN dead \cup {Id(w)} ELSE dead
<1> USE DEF queueVars
<1>1. CASE Start(w) \/ ChannelLost(w) \/ Stop(w) \/ \E j \in Jobs : Take(w, j)
    BY <1>1 DEF Start, ChannelLost, Stop, Take
<1>2. CASE GetCredential(w) \/ ReceiveCredential(w) \/ Insert(w)
           \/ MarkBuilding(w) \/ PublishBuilding(w) \/ BuildImage(w)
           \/ BuildFails(w)
    BY <1>2 DEF GetCredential, ReceiveCredential, Insert, MarkBuilding,
       PublishBuilding, BuildImage, BuildFails
<1>3. CASE Finish(w) \/ PublishSuccess(w) \/ Ack(w) \/ Retry(w)
           \/ MarkCanceled(w)
    BY <1>3 DEF Finish, PublishSuccess, Ack, Retry, MarkCanceled
<1>4. CASE PublishCanceled(w) \/ DeadLetter(w)
    BY <1>4 DEF PublishCanceled, DeadLetter
<1> QED BY <1>1, <1>2, <1>3, <1>4 DEF Process

LEMMA ReportsStep ==
    ASSUME TypeOK, TypeOK', ReportsInv, [Next]_vars,
           \A w \in Workers : WorkerOK(w)
    PROVE  ReportsInv'
<1> SUFFICES ASSUME NEW d \in Deployments
             PROVE  /\ "success" \in reports'[d] => d \in built'
                    /\ "canceled" \in reports'[d] => failures'[d] = MaxRetries
                    /\ status'[d] \in Outcomes => status'[d] \in reports'[d]
                    /\ d \in dead' => "canceled" \in reports'[d]
    BY DEF ReportsInv
<1>1. /\ "success" \in reports[d] => d \in built
      /\ "canceled" \in reports[d] => failures[d] = MaxRetries
      /\ status[d] \in Outcomes => status[d] \in reports[d]
      /\ d \in dead => "canceled" \in reports[d]
    BY DEF ReportsInv
<1>2. /\ failures[d] \in 0..MaxRetries /\ failures'[d] \in 0..MaxRetries
      /\ failures[d] <= failures'[d]
      /\ built \subseteq built' /\ reports[d] \subseteq reports'[d]
    BY EvidenceGrows DEF TypeOK, WorkerTypeOK
<1>3. CASE UNCHANGED <<reports, status, dead>>
    BY <1>1, <1>2, <1>3
<1>4. CASE UNCHANGED vars
    BY <1>3, <1>4 DEF vars, queueVars
<1>5. CASE OutboxStep
    BY <1>3, <1>5 DEF OutboxStep
<1>6. ASSUME NEW c \in Deployments, ServerShows(c, Reportable)
      PROVE  /\ UNCHANGED <<reports, dead>>
             /\ status'[d] \in Outcomes => status'[d] \in reports'[d]
    BY <1>1, <1>6
       DEF ServerShows, Server!Show, queueVars, TypeOK, WorkerTypeOK
<1>7. ASSUME NEW w \in Workers,
             \/ Start(w) \/ Process(w) \/ ChannelLost(w) \/ Stop(w)
             \/ \E j \in Jobs : Take(w, j)
      PROVE  /\ status' = status
             /\ "success" \in reports'[d] => d \in built'
             /\ "canceled" \in reports'[d] => failures'[d] = MaxRetries
             /\ d \in dead' => "canceled" \in reports'[d]
    <2>1. status' = status
        BY <1>7, ReportSteps
    <2>2. CASE UNCHANGED <<reports, dead>>
        BY <1>1, <1>2, <2>1, <2>2
    <2>3. ASSUME NEW st \in Reportable, Report(w, st)
          PROVE  \A s \in Reportable :
                     s \in reports'[d] => s \in reports[d] \/ (s = st /\ d = Id(w))
        BY <2>3 DEF Report, TypeOK, WorkerTypeOK
    <2>4. CASE worker[w].at = "announce" /\ Report(w, "building") /\ dead' = dead
        BY <1>1, <1>2, <2>1, <2>3, <2>4 DEF Reportable
    <2>5. CASE worker[w].at = "success" /\ Report(w, "success") /\ dead' = dead
        <3>1. Id(w) \in built
            BY <2>5 DEF WorkerOK, HasJob, Steps
        <3> QED BY <1>1, <1>2, <2>1, <2>3, <2>5, <3>1 DEF Reportable
    <2>6. CASE worker[w].at = "canceled" /\ Report(w, "canceled") /\ dead' = dead
        <3>1. failures[Id(w)] = MaxRetries
            BY <2>6 DEF WorkerOK, HasJob, Steps
        <3> QED BY <1>1, <1>2, <2>1, <2>3, <2>6, <3>1 DEF Reportable
    <2>7. CASE /\ worker[w].at = "dead" /\ reports' = reports
               /\ dead' = IF worker[w].open THEN dead \cup {Id(w)} ELSE dead
        <3>1. worker[w].open => "canceled" \in reports[Id(w)]
            BY <2>7 DEF WorkerOK, HasJob, Steps
        <3> QED BY <1>1, <1>2, <2>1, <2>7, <3>1
    <2> QED BY <1>7, <2>2, <2>4, <2>5, <2>6, <2>7, ReportSteps
<1>8. CASE \E c \in Deployments : ServerShows(c, Reportable)
    BY <1>1, <1>2, <1>6, <1>8
<1>9. CASE \E w \in Workers :
               \/ Start(w) \/ Process(w) \/ ChannelLost(w) \/ Stop(w)
               \/ \E j \in Jobs : Take(w, j)
    BY <1>1, <1>2, <1>7, <1>9
<1> QED BY <1>3, <1>4, <1>5, <1>8, <1>9, NextSteps


-----------------------------------------------------------------------------
(* No published job vanishes.                                              *)

\* A worker that still has to settle a job has it after its step, has put a
\* message for it on the queue, or has reported its outcome.
LEMMA PendingStep ==
    ASSUME TypeOK, NEW w \in Workers, WorkerOK(w), NEW d \in Deployments,
           Pending(w, d), Start(w) \/ Process(w) \/ ChannelLost(w) \/ Stop(w)
    PROVE  Pending(w, d)' \/ Ready(d)' \/ reports'[d] \cap Outcomes # {}
<1>1. HasJob(w) /\ Job(w) \in Jobs /\ Id(w) = d /\ worker[w].open
    BY DEF Pending, HasJob, WorkerOK
<1>2. ASSUME NEW j \in Jobs, j.deployment = d, Requeue(j)
      PROVE  Ready(d)'
    BY <1>2 DEF Requeue, Ready, TypeOK, WorkerTypeOK
<1>3. ASSUME NEW st \in Outcomes, Report(w, st)
      PROVE  reports'[d] \cap Outcomes # {}
    BY <1>1, <1>3 DEF Report, TypeOK, WorkerTypeOK
<1>4. ASSUME NEW st \in Steps \ {"done", "dead"}, GoTo(w, st)
      PROVE  Pending(w, d)'
    BY <1>1, <1>4, GoesTo DEF Pending, Id, Job
<1>5. Fail(w) => Pending(w, d)'
    BY <1>4 DEF Fail, Steps
<1>6. ASSUME NEW st \in Steps \ {"done", "dead"}
      PROVE  Continue(w, st) => Pending(w, d)'
    BY <1>4 DEF Continue
<1>7. CASE ChannelLost(w) \/ Stop(w)
    BY <1>1, <1>2, <1>7 DEF ChannelLost, Stop, Returned, Id
<1>8. CASE Start(w) \/ Ack(w) \/ DeadLetter(w)
    BY <1>8 DEF Start, Ack, DeadLetter, Pending, Steps
<1>9. CASE GetCredential(w) \/ ReceiveCredential(w) \/ Insert(w)
           \/ MarkBuilding(w)
    BY <1>5, <1>6, <1>9 DEF GetCredential, ReceiveCredential, Insert,
       MarkBuilding, Steps
<1>10. CASE PublishBuilding(w) \/ BuildImage(w) \/ BuildFails(w)
    BY <1>5, <1>6, <1>10 DEF PublishBuilding, BuildImage, BuildFails, Steps
<1>11. CASE Finish(w) \/ MarkCanceled(w)
    BY <1>4, <1>5, <1>6, <1>11 DEF Finish, MarkCanceled, Steps
<1>12. CASE PublishSuccess(w) \/ PublishCanceled(w)
    BY <1>3, <1>12 DEF PublishSuccess, PublishCanceled, Outcomes
<1>13. CASE Retry(w)
    <2>1. /\ worker[w].at = "error" /\ Job(w).retry + 1 < MaxRetries
          /\ Requeue([Job(w) EXCEPT !.retry = @ + 1])
        BY <1>1, <1>13 DEF Retry
    <2> QED BY <1>1, <1>2, <2>1, NextAttempt
<1> QED BY <1>7, <1>8, <1>9, <1>10, <1>11, <1>12, <1>13 DEF Process

LEMMA KeptStep ==
    ASSUME TypeOK, TypeOK', KeptInv, [Next]_vars,
           \A w \in Workers : WorkerOK(w)
    PROVE  KeptInv'
<1> SUFFICES ASSUME NEW d \in Deployments, copies'[d] > 0
             PROVE  \/ Ready(d)'
                    \/ \E w \in Workers : Pending(w, d)'
                    \/ reports'[d] \cap Outcomes # {}
    BY DEF KeptInv
<1> DEFINE Kept == \/ Ready(d)
                   \/ \E w \in Workers : Pending(w, d)
                   \/ reports[d] \cap Outcomes # {}
           Kept2 == \/ Ready(d)'
                    \/ \E w \in Workers : Pending(w, d)'
                    \/ reports'[d] \cap Outcomes # {}
<1>1. copies[d] > 0 => Kept
    BY DEF KeptInv
<1>2. reports[d] \cap Outcomes # {} => reports'[d] \cap Outcomes # {}
    BY EvidenceGrows
<1>3. ASSUME \A j \in Jobs : jobs[j] > 0 => jobs'[j] > 0
      PROVE  Ready(d) => Ready(d)'
    BY <1>3 DEF Ready
<1>4. ASSUME NEW k \in Jobs, Requeue(k)
      PROVE  Ready(d) => Ready(d)'
    <2>1. \A j \in Jobs : jobs[j] > 0 => jobs'[j] > 0
        BY <1>4 DEF Requeue, TypeOK, WorkerTypeOK
    <2> QED BY <1>3, <2>1
<1>5. ASSUME NEW w \in Workers, worker'[w] = worker[w]
      PROVE  Pending(w, d) => Pending(w, d)'
    BY <1>5 DEF Pending, Id, Job
<1>6. CASE UNCHANGED <<copies, jobs, worker>>
    BY <1>1, <1>2, <1>3, <1>5, <1>6
<1>7. CASE UNCHANGED vars
    BY <1>6, <1>7 DEF vars, queueVars
<1>8. CASE OutboxStep
    <2>1. ASSUME NEW c \in Deployments, Relay!Publish(c),
                 Requeue([deployment |-> c, retry |-> 0])
          PROVE  Kept2
        <3>1. [deployment |-> c, retry |-> 0] \in Jobs
            BY DEF Jobs
        <3>2. CASE c = d
            BY <2>1, <3>1, <3>2 DEF Requeue, Ready, TypeOK, WorkerTypeOK
        <3>3. CASE c # d
            <4>1. copies'[d] = copies[d]
                BY <2>1, <3>3 DEF Relay!Publish, TypeOK
            <4>2. worker' = worker
                BY <1>8 DEF OutboxStep
            <4> QED BY <1>1, <1>2, <1>4, <1>5, <2>1, <3>1, <4>1, <4>2
        <3> QED BY <3>2, <3>3
    <2>2. CASE UNCHANGED <<copies, jobs>>
        BY <1>6, <1>8, <2>2 DEF OutboxStep
    <2> QED BY <1>8, <2>1, <2>2 DEF OutboxStep, Relay!Accept, Relay!Settle,
            Relay!GiveUp, Relay!Forget
<1>9. ASSUME NEW c \in Deployments, ServerShows(c, Reportable)
      PROVE  Kept2
    BY <1>6, <1>9 DEF ServerShows, queueVars
<1>10. ASSUME NEW w \in Workers, NEW j \in Jobs, Take(w, j), copies' = copies
       PROVE  Kept2
    <2>1. /\ worker'[w].at = "credential" /\ worker'[w].job = j
          /\ worker'[w].open = worker[w].open
          /\ \A c \in Workers : c # w => worker'[c] = worker[c]
        BY <1>10, Takes
    <2>2. CASE j.deployment = d
        <3>1. worker[w].open
            BY <1>10 DEF Take, WorkerOK
        <3>2. Pending(w, d)'
            BY <2>1, <2>2, <3>1 DEF Pending, Id, Job, Steps
        <3> QED BY <3>2
    <2>3. CASE j.deployment # d
        <3>1. Ready(d) => Ready(d)'
            BY <1>10, <2>3 DEF Take, Ready, TypeOK, WorkerTypeOK
        <3>2. ASSUME NEW c \in Workers, Pending(c, d) PROVE Pending(c, d)'
            <4>1. c # w
                BY <1>10, <3>2 DEF Take, Pending, Steps
            <4> QED BY <1>5, <2>1, <3>2, <4>1
        <3> QED BY <1>1, <1>2, <1>10, <3>1, <3>2
    <2> QED BY <2>2, <2>3
<1>11. ASSUME NEW w \in Workers, copies' = copies,
              Start(w) \/ Process(w) \/ ChannelLost(w) \/ Stop(w)
       PROVE  Kept2
    <2>1. Ready(d) => Ready(d)'
        <3>1. HasJob(w) => Job(w) \in Jobs
            BY DEF WorkerOK
        <3> QED BY <1>3, <1>4, <1>11, <3>1, QueueSteps, NextAttempt
    <2>2. Pending(w, d) => Kept2
        BY <1>11, PendingStep
    <2>3. ASSUME NEW c \in Workers, c # w PROVE Pending(c, d) => Pending(c, d)'
        BY <1>5, <1>11, <2>3, Moves
    <2> QED BY <1>1, <1>2, <1>11, <2>1, <2>2, <2>3
<1> QED BY <1>7, <1>8, <1>9, <1>10, <1>11, NextSteps

-----------------------------------------------------------------------------
(* Only accepted builds are worked on.                                     *)

\* Steps of a worker, other than Take, by what becomes of its attempt.
Begins(w) ==
    /\ worker[w].at = "credential" /\ GoTo(w, "token")
    /\ status[Id(w)] \notin Outcomes
    /\ UNCHANGED <<built, failures>>
Succeeds(w) ==
    /\ worker[w].at = "finish" /\ GoTo(w, "success")
    /\ built' = built \cup {Id(w)}
    /\ UNCHANGED failures
Errs(w) == HasJob(w) /\ Fail(w) /\ UNCHANGED built
GoesOn(w) ==
    /\ UNCHANGED <<built, failures>>
    /\ \/ \E st \in {"insert", "building", "announce", "image", "finish"} :
              Busy(w) /\ GoTo(w, st)
       \/ \E st \in {"done", "canceled", "dead"} :
              HasJob(w) /\ ~Busy(w) /\ GoTo(w, st)
       \/ ~Busy(w) /\ worker'[w] \in {Idle, Stopped}
       \/ /\ HasJob(w) /\ worker'[w].at = worker[w].at
          /\ worker'[w].job = worker[w].job
Stops(w) == worker'[w] = Stopped /\ UNCHANGED <<built, failures>>

LEMMA AttemptSteps ==
    ASSUME TypeOK, NEW w \in Workers,
           Start(w) \/ Process(w) \/ ChannelLost(w) \/ Stop(w)
    PROVE  Begins(w) \/ Succeeds(w) \/ Errs(w) \/ GoesOn(w) \/ Stops(w)
<1> USE DEF rowVars, Continue
<1>1. CASE Start(w)
    BY <1>1, Becomes, WorkerTypes DEF Start, GoesOn, Busy
<1>2. CASE ChannelLost(w)
    BY <1>2, Loses DEF ChannelLost, GoesOn, Stops
<1>3. CASE Stop(w)
    BY <1>3, Becomes, WorkerTypes DEF Stop, Stops
<1>4. CASE Ack(w) \/ DeadLetter(w)
    BY <1>4, Settled DEF Ack, DeadLetter, GoesOn, Busy
<1>5. CASE GetCredential(w)
    BY <1>5 DEF GetCredential, Begins, Errs, HasJob, Steps, Outcomes
<1>6. CASE ReceiveCredential(w) \/ Insert(w)
    BY <1>6 DEF ReceiveCredential, Insert, GoesOn, Errs, HasJob, Steps, Busy
<1>7. CASE MarkBuilding(w)
    BY <1>7 DEF MarkBuilding, GoesOn, Errs, HasJob, Steps, Busy
<1>8. CASE PublishBuilding(w)
    BY <1>8 DEF PublishBuilding, GoesOn, Errs, HasJob, Steps, Busy
<1>9. CASE BuildImage(w) \/ BuildFails(w)
    BY <1>9 DEF BuildImage, BuildFails, GoesOn, Errs, HasJob, Steps, Busy
<1>10. CASE Finish(w)
    BY <1>10 DEF Finish, Succeeds, Errs, HasJob, Steps
<1>11. CASE PublishSuccess(w)
    BY <1>11 DEF PublishSuccess, GoesOn, Errs, HasJob, Steps, Busy
<1>12. CASE Retry(w) \/ MarkCanceled(w) \/ PublishCanceled(w)
    BY <1>12 DEF Retry, MarkCanceled, PublishCanceled, GoesOn, HasJob, Steps,
       Busy
<1> QED BY <1>1, <1>2, <1>3, <1>4, <1>5, <1>6, <1>7, <1>8, <1>9, <1>10, <1>11,
        <1>12 DEF Process

\* A worker that has a job after its step had it before, or has just taken it.
LEMMA HasItBefore ==
    ASSUME TypeOK, NEW w \in Workers, HasJob(w)',
           Start(w) \/ Process(w) \/ ChannelLost(w) \/ Stop(w)
    PROVE  HasJob(w) /\ Id(w)' = Id(w)
<1>1. ASSUME NEW st \in Steps, HasJob(w), GoTo(w, st)
      PROVE  HasJob(w) /\ Id(w)' = Id(w)
    BY <1>1, GoesTo DEF Id, Job
<1>2. CASE worker'[w] \in {Idle, Stopped}
    BY <1>2 DEF HasJob, Idle, Stopped, Steps
<1>3. Busy(w) => HasJob(w)
    BY DEF Busy, HasJob, Steps
<1>4. CASE Begins(w) \/ Succeeds(w)
    BY <1>1, <1>4 DEF Begins, Succeeds, HasJob, Steps
<1>5. CASE Errs(w)
    BY <1>1, <1>5 DEF Errs, Fail, Steps
<1>6. CASE GoesOn(w)
    BY <1>1, <1>2, <1>3, <1>6 DEF GoesOn, Steps, Id, Job
<1> QED BY <1>2, <1>4, <1>5, <1>6, AttemptSteps DEF Stops

\* The outbox forgets that it sent a job, never that it was asked for it.
LEMMA AcceptedStays ==
    ASSUME TypeOK, [Next]_vars
    PROVE  Accepted \subseteq Accepted'
BY NextSteps DEF vars, OutboxStep, ServerShows, Accepted, TypeOK, Relay!Publish,
   Relay!Accept, Relay!Settle, Relay!GiveUp, Relay!Forget

LEMMA AcceptedStep ==
    ASSUME TypeOK, TypeOK', AcceptedInv, [Next]_vars,
           \A w \in Workers : WorkerOK(w)
    PROVE  AcceptedInv'
<1> USE DEF TypeOK, WorkerTypeOK
<1>1. Accepted \subseteq Accepted'
    BY AcceptedStays
<1>2. ASSUME NEW k \in Jobs, Requeue(k), k.deployment \in Accepted,
             NEW j \in Jobs, jobs'[j] > 0
      PROVE  j.deployment \in Accepted
    BY <1>2 DEF Requeue, AcceptedInv
<1>3. CASE UNCHANGED <<jobs, worker, reports>>
    BY <1>1, <1>3 DEF AcceptedInv, HasJob, Id, Job
<1>4. CASE UNCHANGED vars
    BY <1>3, <1>4 DEF vars, queueVars
<1>5. CASE \E d \in Deployments : ServerShows(d, Reportable)
    BY <1>3, <1>5 DEF ServerShows, queueVars
<1>6. CASE OutboxStep
  <2>1. UNCHANGED <<worker, reports>>
      BY <1>6 DEF OutboxStep
  <2>2. ASSUME NEW d \in Deployments, Relay!Publish(d),
               Requeue([deployment |-> d, retry |-> 0])
        PROVE  AcceptedInv'
    <3>1. [deployment |-> d, retry |-> 0] \in Jobs /\ d \in Accepted
        BY <2>2 DEF Jobs, Relay!Publish, Accepted
    <3>2. \A j \in Jobs : jobs'[j] > 0 => j.deployment \in Accepted
        BY <1>2, <2>2, <3>1
    <3> QED BY <1>1, <2>1, <3>2 DEF AcceptedInv, HasJob, Id, Job
  <2> QED BY <1>3, <1>6, <2>1, <2>2 DEF OutboxStep
<1>7. ASSUME NEW w \in Workers, NEW j \in Jobs, Take(w, j)
      PROVE  AcceptedInv'
  <2>1. /\ \A k \in Jobs : jobs'[k] > 0 => jobs[k] > 0
        /\ jobs[j] > 0 /\ reports' = reports
      BY <1>7 DEF Take
  <2>2. /\ Id(w)' = j.deployment
        /\ \A c \in Workers : c # w => worker'[c] = worker[c]
      BY <1>7, Takes DEF Id, Job
  <2>3. ASSUME NEW c \in Workers, HasJob(c)' PROVE Id(c)' \in Accepted
    <3>1. CASE c = w
        BY <2>1, <2>2, <3>1 DEF AcceptedInv
    <3>2. CASE c # w
        BY <2>2, <2>3, <3>2 DEF AcceptedInv, HasJob, Id, Job
    <3> QED BY <3>1, <3>2
  <2> QED BY <1>1, <2>1, <2>3 DEF AcceptedInv
<1>8. ASSUME NEW w \in Workers,
             Start(w) \/ Process(w) \/ ChannelLost(w) \/ Stop(w)
      PROVE  AcceptedInv'
  <2>1. HasJob(w) => Job(w) \in Jobs /\ Id(w) \in Accepted
      BY DEF AcceptedInv, WorkerOK
  <2>2. ASSUME NEW j \in Jobs, jobs'[j] > 0 PROVE j.deployment \in Accepted
    <3>1. CASE jobs' = jobs
        BY <2>2, <3>1 DEF AcceptedInv
    <3>2. CASE HasJob(w) /\ Requeue(Job(w))
        BY <1>2, <2>1, <2>2, <3>2 DEF Id
    <3>3. CASE /\ worker[w].at = "error"
               /\ Job(w).retry + 1 < MaxRetries
               /\ Requeue([Job(w) EXCEPT !.retry = @ + 1])
      <4>1. HasJob(w)
          BY <3>3 DEF HasJob, Steps
      <4> QED BY <1>2, <2>1, <2>2, <3>3, <4>1, NextAttempt
    <3> QED BY <1>8, <3>1, <3>2, <3>3, QueueSteps
  <2>3. ASSUME NEW c \in Workers, HasJob(c)' PROVE Id(c)' \in Accepted
    <3>1. CASE c = w
        BY <1>8, <2>1, <2>3, <3>1, HasItBefore
    <3>2. CASE c # w
      <4>1. worker'[c] = worker[c]
          BY <1>8, <3>2, Moves
      <4> QED BY <2>3, <4>1 DEF AcceptedInv, HasJob, Id, Job
    <3> QED BY <3>1, <3>2
  <2>4. ASSUME NEW d \in Deployments, reports'[d] # {} PROVE d \in Accepted
    <3>1. CASE reports' = reports
        BY <2>4, <3>1 DEF AcceptedInv
    <3>2. ASSUME NEW st, worker[w].at \in Steps, Report(w, st)
          PROVE  d \in Accepted
      <4>1. reports'[d] = reports[d] \/ d = Id(w)
          BY <3>2 DEF Report
      <4> QED BY <2>1, <2>4, <3>2, <4>1 DEF AcceptedInv, HasJob
    <3> QED BY <1>8, <3>1, <3>2, ReportSteps DEF Steps
  <2> QED BY <1>1, <2>2, <2>3, <2>4 DEF AcceptedInv
<1> QED BY <1>4, <1>5, <1>6, <1>7, <1>8, NextSteps

-----------------------------------------------------------------------------

LEMMA InitIInv == Init => IInv
<1> SUFFICES ASSUME Init PROVE IInv
    OBVIOUS
<1> USE DEF Init, WorkerInit, Relay!Init, Server!Init
<1>1. \A w \in Workers : worker[w] = Stopped
    OBVIOUS
<1>2. WorkerTypeOK
    <2>1. worker \in [Workers -> Worker]
        BY WorkerTypes
    <2>2. worker \in [Workers -> [at: Steps \cup {"stopped", "idle"},
                                  job: Jobs \cup {NoJob}, open: BOOLEAN]]
        BY <2>1 DEF Worker, Places
    <2>3. /\ failures \in [Deployments -> 0..MaxRetries]
          /\ faults \in 0..MaxFaults
        OBVIOUS
    <2> QED BY <2>2, <2>3 DEF WorkerTypeOK
<1>3. TypeOK
    BY <1>2 DEF TypeOK
<1>4. \A w \in Workers : WorkerOK(w)
    BY <1>1 DEF WorkerOK, HasJob, Stopped, Steps
<1>5. QueueInv /\ KeptInv
    BY DEF QueueInv, KeptInv
<1>6. ReportsInv
    BY DEF ReportsInv, Outcomes
<1>7. AcceptedInv
    BY <1>1 DEF AcceptedInv, HasJob, Stopped, Steps
<1> QED BY <1>3, <1>4, <1>5, <1>6, <1>7 DEF IInv

LEMMA NextIInv == IInv /\ [Next]_vars => IInv'
<1> SUFFICES ASSUME IInv, [Next]_vars PROVE IInv'
    OBVIOUS
<1> USE DEF IInv
<1>1. TypeOK'
    BY TypeStep
<1>2. QueueInv' /\ ReportsInv' /\ KeptInv' /\ AcceptedInv'
    BY <1>1, QueueStep, ReportsStep, KeptStep, AcceptedStep
<1>3. ASSUME NEW c \in Workers PROVE WorkerOK(c)'
    <2>1. CASE worker'[c] = worker[c]
        BY <1>1, <2>1, OthersKnow
    <2>2. CASE \E w \in Workers :
                   \/ Start(w) \/ Process(w) \/ ChannelLost(w) \/ Stop(w)
                   \/ \E j \in Jobs : Take(w, j)
        <3>1. PICK w \in Workers :
                   \/ Start(w) \/ Process(w) \/ ChannelLost(w) \/ Stop(w)
                   \/ \E j \in Jobs : Take(w, j)
            BY <2>2
        <3>2. CASE c = w
            BY <1>1, <3>1, <3>2, WorkerKnows
        <3>3. CASE c # w
            BY <2>1, <3>1, <3>3, Moves
        <3> QED BY <3>2, <3>3
    <2>3. CASE UNCHANGED vars
        BY <2>1, <2>3 DEF vars
    <2>4. CASE OutboxStep
        BY <2>1, <2>4 DEF OutboxStep
    <2>5. CASE \E d \in Deployments : ServerShows(d, Reportable)
        BY <2>1, <2>5 DEF ServerShows
    <2> QED BY <2>2, <2>3, <2>4, <2>5, NextSteps
<1> QED BY <1>1, <1>2, <1>3

\* The inductive invariant holds in every state of the pipeline.
THEOREM Inductive == Spec => []IInv
BY InitIInv, NextIInv, PTL DEF Spec

\* The pipeline is well typed; in particular no job is ever put on the queue
\* with a RetryCount that has reached the limit.
THEOREM TypeCorrect == Spec => []TypeOK
BY Inductive, PTL DEF IInv

\* No published job is lost: it is ready, in the hands of a worker whose
\* channel is open, or its outcome was reported.
THEOREM JobsKept == Spec => []JobsAreKept
<1>1. IInv => JobsAreKept
    <2>1. ASSUME NEW w \in Workers, NEW d \in Deployments, Pending(w, d)
          PROVE  HasJob(w) /\ worker[w].open /\ Id(w) = d
        BY <2>1 DEF Pending, HasJob
    <2> QED BY <2>1 DEF IInv, KeptInv, JobsAreKept, Ready
<1> QED BY <1>1, Inductive, PTL

\* Success is shown only of what an attempt finished, and cancellation only
\* after MAX_RETRIES_COUNT failed attempts.
THEOREM OutcomesEarned == Spec => []OutcomeIsEarned
<1>1. IInv => OutcomeIsEarned
    <2> SUFFICES ASSUME IInv, NEW d \in Deployments
                 PROVE  /\ status[d] = "success" => d \in built
                        /\ status[d] = "canceled" => failures[d] >= MaxRetries
        BY DEF OutcomeIsEarned
    <2>1. /\ "success" \in reports[d] => d \in built
          /\ "canceled" \in reports[d] => failures[d] = MaxRetries
          /\ status[d] \in Outcomes => status[d] \in reports[d]
        BY DEF IInv, ReportsInv
    <2> QED BY <2>1 DEF Outcomes
<1> QED BY <1>1, Inductive, PTL

\* What is dead-lettered was reported canceled before.
THEOREM DeadReported == Spec => []DeadJobsAreReported
<1>1. IInv => DeadJobsAreReported
    BY DEF IInv, ReportsInv, TypeOK, WorkerTypeOK, DeadJobsAreReported
<1> QED BY <1>1, Inductive, PTL

-----------------------------------------------------------------------------
(* The pipeline implements Service.                                        *)

Attempts == [d \in Deployments |-> Trying(d)]

LEMMA InitPromise == Init => Promise!Init
<1> SUFFICES ASSUME Init PROVE Promise!Init
    OBVIOUS
<1>1. Accepted = {}
    BY DEF Init, Relay!Init, Accepted
<1>2. \A w \in Workers : ~Busy(w)
    BY DEF Init, WorkerInit, Stopped, Busy
<1> QED BY <1>1, <1>2
        DEF Promise!Init, Init, WorkerInit, Server!Init, Accepted, Trying

\* A step of one worker moves that worker among the attempts and no other.
LEMMA AttemptsOf ==
    ASSUME TypeOK, NEW w \in Workers,
           \A c \in Workers : c # w => worker'[c] = worker[c]
    PROVE  Attempts' = [d \in Deployments |->
               IF Busy(w)' /\ Id(w)' = d THEN Attempts[d] \cup {w}
                                         ELSE Attempts[d] \ {w}]
<1>1. ASSUME NEW c \in Workers, c # w
      PROVE  Busy(c)' = Busy(c) /\ Id(c)' = Id(c)
    BY <1>1 DEF Busy, Id, Job
<1> QED BY <1>1 DEF Attempts, Trying

LEMMA WorkerKeepsPromise ==
    ASSUME IInv, NEW w \in Workers, UNCHANGED <<outbox, status>>,
           Start(w) \/ Process(w) \/ ChannelLost(w) \/ Stop(w)
    PROVE  [Promise!Next]_Promise!vars
<1> USE DEF IInv
<1>1. \A c \in Workers : c # w => worker'[c] = worker[c]
    BY Moves
<1>2. Accepted' = Accepted
    BY DEF Accepted
<1>3. HasJob(w) => Id(w) \in Accepted /\ Id(w) \in Deployments
    BY DEF AcceptedInv, Accepted
<1>4. Attempts' = [d \in Deployments |->
          IF Busy(w)' /\ Id(w)' = d THEN Attempts[d] \cup {w}
                                    ELSE Attempts[d] \ {w}]
    BY <1>1, AttemptsOf
<1>5. \A d \in Deployments : w \in Attempts[d] <=> Busy(w) /\ Id(w) = d
    BY DEF Attempts, Trying
<1>6. Busy(w) => HasJob(w)
    BY DEF Busy, HasJob, Steps
<1>7. ASSUME NEW st \in Steps, GoTo(w, st)
      PROVE  /\ Id(w)' = Id(w)
             /\ Busy(w)' <=> st \in {"token", "insert", "building", "announce",
                                     "image", "finish"}
    BY <1>7, GoesTo DEF Id, Job, Busy
\* What leaves and what keeps the attempts.
<1>8. ASSUME HasJob(w), ~Busy(w)'
      PROVE  Attempts' = [Attempts EXCEPT ![Id(w)] = @ \ {w}]
  <2>1. \A d \in Deployments : d # Id(w) => Attempts[d] \ {w} = Attempts[d]
      BY <1>5
  <2>2. Attempts' = [d \in Deployments |-> Attempts[d] \ {w}]
      BY <1>4, <1>8
  <2> QED BY <1>3, <1>8, <2>1, <2>2 DEF Attempts
<1>9. ASSUME Busy(w)' <=> Busy(w), Busy(w) => Id(w)' = Id(w)
      PROVE  Attempts' = Attempts
    BY <1>4, <1>5, <1>9 DEF Attempts
<1>10. ASSUME Attempts' = Attempts, UNCHANGED <<built, failures>>
       PROVE  UNCHANGED Promise!vars
    BY <1>2, <1>10 DEF Promise!vars, Attempts, Accepted
<1>11. CASE Begins(w)
  <2>1. HasJob(w) /\ ~Busy(w) /\ Busy(w)' /\ Id(w)' = Id(w)
      BY <1>7, <1>11 DEF Begins, HasJob, Steps, Busy
  <2>2. Attempts' = [Attempts EXCEPT ![Id(w)] = @ \cup {w}]
    <3>1. \A d \in Deployments : Attempts[d] \ {w} = Attempts[d]
        BY <1>5, <2>1
    <3>2. Attempts' = [d \in Deployments |->
              IF Id(w) = d THEN Attempts[d] \cup {w} ELSE Attempts[d]]
        BY <1>4, <2>1, <3>1
    <3> QED BY <3>2 DEF Attempts
  <2>3. Promise!Try(Id(w), w)
      BY <1>2, <1>3, <1>11, <2>1, <2>2
         DEF Begins, Promise!Try, Promise!Outcomes, Outcomes, Accepted, Attempts
  <2> QED BY <1>3, <2>1, <2>3 DEF Promise!Next
<1>12. CASE Succeeds(w)
  <2>1. HasJob(w) /\ Busy(w) /\ ~Busy(w)'
      BY <1>7, <1>12 DEF Succeeds, HasJob, Steps, Busy
  <2>2. Promise!Finish(Id(w), w)
      BY <1>2, <1>3, <1>5, <1>8, <1>12, <2>1
         DEF Succeeds, Promise!Finish, Promise!Leaves, Accepted, Attempts
  <2> QED BY <1>3, <2>1, <2>2 DEF Promise!Next
<1>13. CASE Errs(w)
  <2>1. HasJob(w) /\ ~Busy(w)'
      BY <1>7, <1>13 DEF Errs, Fail, Steps
  <2>2. Promise!Fail(Id(w), w)
      BY <1>2, <1>3, <1>8, <1>13, <2>1
         DEF Errs, Fail, Promise!Fail, Promise!Leaves, Accepted, Attempts
  <2> QED BY <1>3, <2>1, <2>2 DEF Promise!Next
<1>14. CASE GoesOn(w)
  <2>1. (Busy(w)' <=> Busy(w)) /\ (Busy(w) => Id(w)' = Id(w))
    <3>1. ASSUME NEW st \in {"insert", "building", "announce", "image", "finish"},
                 Busy(w), GoTo(w, st)
          PROVE  Busy(w)' /\ Id(w)' = Id(w)
        BY <1>7, <3>1 DEF Steps
    <3>2. ASSUME NEW st \in {"done", "canceled", "dead"}, GoTo(w, st)
          PROVE  ~Busy(w)'
        BY <1>7, <3>2 DEF Steps
    <3>3. worker'[w] \in {Idle, Stopped} => ~Busy(w)'
        BY DEF Idle, Stopped, Busy
    <3> QED BY <1>14, <3>1, <3>2, <3>3 DEF GoesOn, Busy, Id, Job
  <2> QED BY <1>9, <1>10, <1>14, <2>1 DEF GoesOn
<1>15. CASE Stops(w)
  <2>1. ~Busy(w)'
      BY <1>15 DEF Stops, Stopped, Busy
  <2>2. CASE Busy(w)
    <3>1. Promise!BreakOff(Id(w), w)
        BY <1>2, <1>3, <1>5, <1>6, <1>8, <1>15, <2>1, <2>2
           DEF Stops, Promise!BreakOff, Promise!Leaves, Accepted, Attempts
    <3> QED BY <1>3, <1>6, <2>2, <3>1 DEF Promise!Next
  <2>3. CASE ~Busy(w)
      BY <1>9, <1>10, <1>15, <2>1, <2>3 DEF Stops
  <2> QED BY <2>2, <2>3
<1> QED BY <1>11, <1>12, <1>13, <1>14, <1>15, AttemptSteps

LEMMA NextPromise == IInv /\ [Next]_vars => [Promise!Next]_Promise!vars
<1> SUFFICES ASSUME IInv, [Next]_vars PROVE [Promise!Next]_Promise!vars
    OBVIOUS
<1> USE DEF IInv
<1>1. ASSUME worker' = worker
      PROVE  Attempts' = Attempts
    BY <1>1 DEF Attempts, Trying, Busy, Id, Job
<1>2. CASE UNCHANGED vars
    BY <1>1, <1>2
       DEF vars, queueVars, rowVars, Promise!vars, Attempts, Accepted
<1>3. CASE OutboxStep
  <2>1. Attempts' = Attempts /\ UNCHANGED <<built, failures, status>>
      BY <1>1, <1>3 DEF OutboxStep, rowVars
  <2>2. CASE Accepted' = Accepted
      BY <2>1, <2>2 DEF Promise!vars, Attempts, Accepted
  <2>3. ASSUME NEW d \in Deployments, Relay!Accept(d)
        PROVE  [Promise!Next]_Promise!vars
    <3>1. Accepted' = Accepted \cup {d}
        BY <2>3 DEF Relay!Accept, Accepted, TypeOK
    <3>2. Promise!Accept(d)
        BY <2>1, <3>1 DEF Promise!Accept, Attempts, Accepted
    <3> QED BY <3>2 DEF Promise!Next
  <2>4. \/ \E d \in Deployments : Relay!Accept(d)
        \/ Accepted' = Accepted
      BY <1>3 DEF OutboxStep, Accepted, TypeOK, Relay!Publish, Relay!Settle,
         Relay!GiveUp, Relay!Forget
  <2> QED BY <2>2, <2>3, <2>4
<1>4. ASSUME NEW d \in Deployments, ServerShows(d, Reportable)
      PROVE  [Promise!Next]_Promise!vars
  <2>1. PICK s \in Reportable : Server!Show(d, s)
      BY <1>4 DEF ServerShows
  <2>2. /\ Attempts' = Attempts /\ Accepted' = Accepted
        /\ UNCHANGED <<built, failures>>
      BY <1>1, <1>4 DEF ServerShows, rowVars, Accepted
  <2>3. /\ d \in Accepted
        /\ s = "success" => d \in built
        /\ s = "canceled" => failures[d] = MaxRetries
      BY <2>1 DEF Server!Show, AcceptedInv, ReportsInv
  <2>4. Promise!Earned(d, s)
      BY <2>1, <2>3 DEF Promise!Earned, Accepted, Reportable
  <2>5. Promise!Show(d, s)
      BY <2>1, <2>2, <2>4
         DEF Promise!Show, Promise!Outcomes, Outcomes, Server!Show, Attempts,
             Accepted
  <2> QED BY <2>1, <2>5 DEF Promise!Next, Promise!Outcomes, Reportable
<1>5. ASSUME NEW w \in Workers, NEW j \in Jobs, Take(w, j),
             UNCHANGED outbox
      PROVE  [Promise!Next]_Promise!vars
  <2>1. ~Busy(w) /\ UNCHANGED <<built, failures, status>>
      BY <1>5 DEF Take, Busy, rowVars
  <2>2. /\ ~Busy(w)'
        /\ \A c \in Workers : c # w => worker'[c] = worker[c]
      BY <1>5, Takes DEF Busy
  <2>3. Attempts' = Attempts
      BY <2>1, <2>2, AttemptsOf DEF Attempts, Trying
  <2> QED BY <1>5, <2>1, <2>3 DEF Promise!vars, Attempts, Accepted
<1>6. ASSUME NEW w \in Workers, UNCHANGED outbox,
             Start(w) \/ Process(w) \/ ChannelLost(w) \/ Stop(w)
      PROVE  [Promise!Next]_Promise!vars
  <2>1. status' = status
      BY <1>6, ReportSteps
  <2> QED BY <1>6, <2>1, WorkerKeepsPromise
<1> QED BY <1>2, <1>3, <1>4, <1>5, <1>6, NextSteps

\* What the owner of a deployment is promised holds for any number of
\* deployments and workers and any retry limit: the outbox, the queue, the
\* worker loop and the status consumer together implement Service.
THEOREM PipelineImplementsService == Spec => ImplementsService
BY InitPromise, NextPromise, Inductive, PTL
   DEF Spec, ImplementsService, Promise!Spec

=============================================================================
