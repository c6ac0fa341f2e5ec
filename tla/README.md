# Zero-Devops: verification project

Zero-Devops builds web applications: a push to GitHub, or a click, becomes a
*build* that the API server records, a worker executes and the server shows
to its user. This directory holds TLA+ models of how such a build travels from
its acceptance to its final status, and of what stands around it: sessions,
GitHub installations, projects, repository lists, the detection of frameworks
and the images that are uploaded. TLC configurations check the models on small
instances, and TLAPS proofs show what holds for every size.

Paths below are relative to the repository root.

## 1. Inventory

Four workspaces: `client/` (Next.js user interface), `server/` (Go API
server, several processes may run), `worker-server/` (Go build workers),
`schemas/` (JSON schema of the job message). The two Go programs share a
RabbitMQ broker and nothing else; each has a PostgreSQL database of its own.

```
 GitHub push --> webhook --+                                    +--> worker --> worker DB
                           +--> builds + outbox --> deploy.jobs +--> worker
 user click --> usecase ---+        (one transaction)                 |
 user <-- status <-- ApplyStatusUpdate <-- deploy.status <------------+
```

| Component | Source | State | Operations | Hard behaviour | What makes it correct |
|---|---|---|---|---|---|
| Build acceptance, push | `server/internal/integrations/scm/webhook` | `webhook_deliveries`; requests in progress | insert delivery, check installation, list projects, store each build, mark accepted or failed | redeliveries, projects changing under the fan-out, one project failing, lost commit answers | a delivery builds a project at most once; an accepted delivery is complete |
| Build acceptance, manual | `server/internal/deployments/usecase` | `deployments`, `projects` counters | read project, resolve commit, store | two requests with one key; generation read outside the transaction | numbers without gaps or repetitions, generations count pushes and agree with the numbers |
| Outbox | `server/internal/deployments/dispatcher`, `.../repository/pgsql` | `deployment_outbox`; claims of each dispatcher; its AMQP channel | claim, publish, confirm, mark, reset, delete | lease expiry, crash between publish and mark, lost confirmation, outage, attempts running out | nothing marked sent unconfirmed; attempts bound publications; settled rows stay settled; every row settles |
| Queue topology | `server/internal/queue`, `worker-server/internal/queue` | exchange, queues, bindings on the broker | SetUpQueues of each process | interrupted and concurrent set-ups | dead-letter routes exist before they are needed |
| Worker | `worker-server/internal/worker`, `.../deployments` | job in hand, its channel, `deployments` row of the worker DB | take, credential, insert, build, upload, report, retry, cancel | crashes, redelivery to a second worker, retries by republishing | no published job vanishes; outcomes are earned; every job comes to an outcome that is reported |
| Clone credentials | `server/internal/deployments/credentials` | none (reads the status) | refuse or issue | a job redelivered after its success | part of the worker's model |
| Status consumer | `server/internal/deployments/usecase` | session, report in hand, attempts; `deployments.status` | open session, apply, ack, dead-letter | lost acks, reordering, two servers, transient database errors, shutdown | outcomes are final; no report lost; every report handled |
| GitHub installations | `server/internal/integrations/scm/github`, `.../webhook` | `github_installations`: owner, status, connection | install callback, connect, disconnect, delete, `installation` events | rows are read in one statement and written in another; two callbacks at once; a row deleted in between | one owner per installation, one connection per user, a switch is all or nothing |
| Projects | `server/internal/project` | `projects`: installation, repository, availability | create, update, delete, `installation_repositories` events | creation reads the installation twice; update and events write back what they read earlier | a project is on an installation of its user; only removed repositories are unavailable |
| Repository lists | `.../github/usecase`, `.../github/cache` | `repoListCalls`, Redis keys | list, invalidate, expire | single flight with failures, a list fetched before an invalidation stored after it, partial evictions | waiters are answered; evicted lists stay away; stale lists go |
| Installation token provider | `.../github/token` | none | fetch a token | the call fails | part of the calls that need a token |
| Authentication | `server/internal/auth` | `users.refresh_token`, cookies | login, refresh, logout | overlapping refreshes, a logout between comparison and write, lost answers | browser and row in step; a logout lasts |
| Framework detection | `worker-server/internal/deployments/detect.go` | none | find the application, choose the recipe, package manager, output | precedence of rules, nested applications, rules that guess | recipes fit what is built |
| Image upload | `.../deployments.go`, `worker-server/internal/upload` | build directory, stored image, worker's row | build, fall back, upload, store the URL | overlapping attempts under one key, fallback after a wrong guess | a URL leads to a static image that serves |
| Event types | `server/internal/domain/events.go` | none | parse | | the fields handlers read, in `WebhookEvents` |
| Message contracts, HTTP delivery, middleware, health, configuration, client | as in `PROJECT.json` | none of their own | | | not modelled, see section 6 |

`PROJECT.json` lists the hazards of this code at their lines, and the
properties that would catch each of them going wrong.

## 2. Modules

| Module | Models |
|---|---|
| `Outbox` | the table `deployment_outbox` and the dispatchers |
| `Relay` | abstract: a job is owed, settled once and published boundedly often |
| `Builds` | webhook deliveries and manual builds with their two store transactions |
| `Ledger` | abstract: the builds of a project are a sequence that only grows, by at most one entry per push or request |
| `StatusConsumer` | `deploy.status`, the consume sessions and `ApplyStatusUpdate` |
| `Lifecycle` | abstract: only reported statuses are shown, the first outcome is final |
| `Worker` | the worker loop, `ProcessDeployment` and the worker's row |
| `Pipeline` | `Worker` composed with `Relay` (the outbox it is fed by) and `Lifecycle` (the server it reports to) |
| `Service` | abstract: what the owner of a deployment is promised, whoever builds it |
| `Topology` | the two `SetUpQueues` against one broker |
| `WebhookEvents` | the payloads of GitHub events in the fields the server reads |
| `Installations` | the tables `github_installations` and `projects` under the requests and events that change them |
| `Connections` | abstract: an installation has one owner, a user at most one connection, an own one |
| `Lists` | repository lists of an installation: single flight, Redis, invalidation |
| `Sessions` | the sessions of a GitHub user: rows, cookie jars, overlapping requests |
| `Recipes` | the rules of `detect.go` as operators over what they read of a directory |
| `Images` | the attempts to build one commit by those rules, down to the stored image and URL |
| `MCBuilds`, `MCTopology`, `MCInstallations`, `MCSessions`, `MCImages` | symmetry sets, tuples and commits for TLC |
| `OutboxProofs`, `BuildsProofs`, `StatusProofs`, `PipelineProofs`, `InstallationsProofs`, `SessionsProofs`, `ImagesProofs` | inductive invariants, theorems and TLAPS proofs about the module each is named after |
| `ServicesProofs` | the same for `Topology` and `Lists`: what the processes keep on RabbitMQ and Redis |

`Pipeline` instantiates `Relay` and `Lifecycle` instead of the detailed modules.
That is justified by the refinements `ImplementsRelay` and `ImplementsLifecycle`,
both checked and proved. In `Pipeline` a report may be applied at any
time after it was published and in any order, which is what redelivery allows.
`Images` takes apart the steps "building" to "success" of `Worker`; `Builds` uses
of installations and projects only what decides about a build (existence,
eligibility, counters), `Installations` has the rest.

### Outbox

One record per row: `state`, `attempts` (attempt_count) and `elapsed`. Clocks
are abstracted to that bit: it says that available_at, the 30 s claim lease
(`outboxClaimLease` and `defaultStuckLease` have the same value), or the
retention has passed, and `TimePasses` may set it at any moment, so a
dispatcher may be slower than its lease. A dispatcher's `phase` is its position
in `Run`: `idle` (in the select), `busy` (between events of a batch), `awaiting`
(a confirmation), `acked`/`rejected` (before the UPDATE that records it),
`reconciling` (between the two statements of `reconcile`). A claim is one
atomic statement; `SKIP LOCKED` is a choice of any non-empty part of the claimable
rows. A closed channel is never reopened by the code, and so it is here; only a
restarted process gets a channel. The order of `RETURNING` is not defined by
SQL, so a batch is a set. `failed` and `pending` rows with attempts left are
claimed alike, as in the WHERE clause. A shutdown cancels every statement and
publish in flight and is therefore the same step as a crash.

### Builds

`Store` is either store transaction: the UPDATE of the counters holds the
project's row lock until commit, so it is atomic, and a unique violation rolls
the counters back. `StoreFails` is any other error, including a commit whose
answer is lost. `hook` holds webhook requests between their database calls:
`received` (row inserted), `checked` (installation read), `building` (the
fan-out), `failing` (about to run markDeliveryFailed). `todo` is the listed
projects that pass the skip rules; the rules use the listed row only and not
the current one. `click` holds a manual request between its reads and its
transaction. The code takes the projects of a push by creation time; the model
takes any order. `delivery = "none"` is "no row". Deleting a project sets
project_id of its builds to NULL, which removes them from every index, and here
from `builds`. The branch that swallows ErrConflict in triggerBuildForProject
cannot be reached, as TryInsertDelivery lets each delivery through once; the
model keeps it (`Store`). An installation is `connected` (and active), `disconnected`
or `inactive`: when its row cannot be read, a push is let through on the status
alone, so a disconnected one may build (`CheckInstallation`), while a manual
request needs a connected one. Not repeated in the transaction and hence no
property: the installation check (the worker's credential request repeats it).
Numbers start at 2, as the transactions return the incremented counter;
`NumbersAreContiguous` says nothing of the first one, `NumbersStartAtOne` does.

`Ledger` forgets requests, rows and numbers. The build numbered *n* + 1 is entry
*n* of its project (the first has number 2); a delivery is *new* without a row, *open* while a request
handles it and *closed* afterwards, whatever the row says then. So the refinement
says that no rollback, lost answer or late mark of a row ever takes back, moves or
repeats what was recorded, and that a delivery nobody handles records
nothing more.

### StatusConsumer

Messages are positions in `log`. `queue` and `unacked` are the broker's side: a
lost session puts its unacknowledged messages back in front, in order. A
report in hand is handled to its end even if its channel is gone; then neither
Ack nor Nack has an effect. `ApplyError` includes a commit whose answer is
lost. `Applicable` gathers what decides between commit and permanent error:
the decoding checks, the row's existence and the terminal-status guard, all
evaluated under the row lock.

### Worker and Pipeline

`worker[w].at` names the call ProcessDeployment or StartWorker is about to make.
`open` is the worker's channel; jobs, reports and acknowledgements all use it, so
after its loss none of them has an effect, and the broker has given the job to
somebody else. Every call may fail (`Fail`); a failed call to the worker's
database inside markFailed and MarkCanceled is ignored, as in the code. Cloning,
detection, image build (with its SSR fallback) and upload are one step each that
succeeds or fails. Jobs that fail validation (worker.go:68-80) are not modelled,
because the dispatcher only publishes what passes the same validation.
The nack-with-requeue after a failed republish (worker.go:131-135) can only run
on a closed channel and then changes nothing, so `Retry` covers it.

A credential takes two steps. `GetCredential` is the server's look at the status of
the deployment; `ReceiveCredential` is all that follows (the installation's row,
GitHub's token, the answer), during which an outcome may be shown that nobody looks at
again.

`Service` is the whole of it seen by the owner of a deployment: which workers
were let in to fetch and build it, which attempts finished or failed, what
is shown. Queues, copies, reports and the order they arrive in are gone.
`Trying` maps a worker to an attempt from the approval of its credential request until
it reports, fails, or loses the process. So `Service` says that an attempt is *let
in* only while no outcome is shown, and not that it ends before one is. A worker
whose channel is gone is still trying, since its build goes on.

### Topology

Each process goes through the exchange and, per queue, the dead-letter queue,
its binding and the queue. The server checks for the dead-letter queue and skips
the binding with it; the worker always binds. `Stop` interrupts any process.

### Installations and WebhookEvents

A row is named by GitHub's installation id. A request in progress is a record
in `request`, `at` its next statement; one statement or transaction is one step.
`row` is the database id a request holds: when the row is deleted it becomes
`None`, because a new row for the same installation has a new id.
`StoreInstallation` is one transaction per installation the callback found;
`Connect` and `Disconnect` are the two transactions of UpdateConnectionStatus,
after the read in `ReadForConnection`. Events: one UPDATE of the status, or, for
"created" and "reinstalled", a look-up, the external id and the UPDATE. An
`installation_repositories` event reads the availability of the projects on a
row, and writes the whole map in `Sync`. When two projects select one
repository the read may give either of their values (`AvailabilityMaps`).
`removed` is a history of reported removals and forgets a row that is deleted.
The store of an event delivery is in `Builds`; here a delivery is only its
effect. UpdateInstallationStatus of the repository has no caller and is left out.

### Lists

One installation, one server process. A *page* is a cache key; GitHub's list
is a version number. `flight` is `repoListCalls`, with its two critical
sections (join, delete) apart, so that a request may join a call that is done
and not deleted. The leader wakes the waiters in the step that ends the call,
as `wg.Done` does; the failure of a call is theirs too. `floor` is a history:
the version an undisturbed, complete invalidation started from.

### Sessions

A token is named by its account and the second it was issued in: the claims
hold no more, so two logins in one second give the same text. `Send` starts a
request with the cookies the browser has at that moment; several of one
browser are its tabs. `solo`, `overtaken`, `writer` and `sure` are histories.
`Create` can make two rows for one GitHub user, as no unique index covers
provider_id. Signatures, expiry claims and OAuth are the libraries' concern: an
expired token is a cookie the browser no longer sends (`Expire`).

### Recipes and Images

A directory is a record of what the rules ask: config files, dependencies by
the builder they betray, the state of package.json, lock files, a Dockerfile, a
start script. `ssr` and `outDir` are the truth the rules try to guess: whether the
application needs a server, and where its build writes. `Installs` is what
the rendered Dockerfile needs of the directory. `Images` runs attempts over a
commit: each has its own build directory, while the row of the worker's database
and the key of the stored image are shared. `Mismatch` may follow any static
build: the sentinel that marks a wrong guess is in the text of the
Dockerfile, which buildah prints, so a later failure is taken for one too.
Credentials, retries and reports of failure are in `Worker`.

## 3. Runs

| Run | Question | Instance | Result |
|---|---|---|---|
| `Outbox_rows` | Can overlapping, crashing dispatchers mark, publish or reopen wrongly, and does every accepted row settle or exhaust? | 2 dispatchers, one good and one poison event, 2 attempts, 2 faults, failing calls | holds |
| `Outbox_reset` | Does the normal retry policy apply after a reset? | 1 dispatcher, 5 attempts, 5 crashes | violated |
| `Builds_safety` | Are builds unique, densely numbered, ordered and never taken back when requests overlap and fail? | 2 projects, 2 deliveries, 1 key, 2+1 requests, 1 change, 1 fault | holds |
| `Builds_answered` | Is a push built once GitHub was told so? | 1 project, 1 delivery, 1 fault | violated |
| `Builds_first` | Do build numbers start at 1? | 1 project, 1 delivery, 1 manual request | violated |
| `Status_reports` | Are reports handled, kept and never allowed to change an outcome? | 1 deployment, 1 unknown id, 2 servers, 2 reports, 2 attempts, 2 faults | holds |
| `Pipeline_jobs` | Does every published job keep existing until an outcome is reported, is what is shown earned, and does its owner get what was promised? | 1 deployment, 2 workers, 2 retries, 2 faults | holds |
| `Topology_repair` | Does a worker find, and repair, the dead-letter routes? | 1 server, 1 worker, 2 queues, 2 stops | holds |
| `Installations_rows` | Do rows keep their owner, users one connection, projects their owner and a true availability when callbacks, switches, deletions, events and project requests overlap? | 2 users, 2 installations, 1 repository, 2 projects, 2 requests | holds |
| `Lists_cache` | Do evicted lists stay away, is every request answered, do stale lists go? | 2 pages, 3 requests, 1 change | holds |
| `Sessions_tokens` | Are browsers in step with the row, and does a logout last? | 2 accounts, 2 browsers, 2 requests, 2 seconds | holds |
| `Images_recipes` | Does a URL always lead to a static image of an application that needs no server? | 46 commits, 3 settings of the working directory, 2 overlapping attempts | holds |

Bounds. Two processes of a kind produce every overlap of a pair, and no
handler here looks at more than its own row and the shared one. Attempt limits
(5 publish attempts, 3 apply attempts, 3 retries in the code) are 2 each, where
the limit is reached together with two faults, one attempt is retried and one is
the last; `Outbox_reset` uses the code's own number. `MaxFaults` counts crashes,
outages, lost channels, failing statements: two of them meet in every order (a crash during the recovery from an
outage, a second worker losing its channel after the first). Two reports are enough
for a redelivered one to come back behind a later one. `MaxChanges`, `MaxReports`,
`MaxCopies` and `MaxStops` bound counters that the code does not bound. In
`Pipeline_jobs` the outbox publishes once; the second copy of a job, which makes
two workers build the same deployment, comes from the broker, which returns the
job of a lost channel while its worker goes on.

In `Builds_safety` there is one manual request at a time: with one key at most one of
several is recorded, so a second one at the same time only repeats what a later one
with that key does, and what it reads may be stale behind the pushes of two
webhook requests. The theorems have any number.

In `Installations_rows` two requests are enough for every read-then-write pair
to be split by one other request, and deletions of rows and projects happen in
between without a request of their own. Of the actions of an installation event,
"deleted" differs from "suspend" only in the status it writes, and the
left-out names of "active" take the path of "unsuspend" or "created". Two projects on
one repository are what makes an availability map ambiguous. In `Lists_cache`
three requests are a leader, a waiter and one that comes between the end of a
call and its removal, or an invalidation; one change makes a list old. In
`Sessions_tokens` two requests of one browser overlap each other or those of
the other browser; two seconds make tokens equal or different. The commits of
`Images_recipes` are one for every way the rules can go, at the root, one or two
levels down, beside another application and above another one. More
repositories, pages, projects or accounts add independent copies.

`Status_reports` and `Topology_repair` switch deadlock checking off: with no
more reports, or with every process ready and no stop left, the system is at
rest. In the other passing runs no state without successor exists.

Every property of a passing run comes with a mutant in `PROJECT.json`: a variant
of one modelled definition, kept in the module next to it ("Mistaken
variant of ..."), with which the run finds the property violated.

### Fairness

* `Outbox`: time passes, the broker comes back, a stopped process is restarted
  by its supervisor, and a batch or reconciliation once started goes on (weak
  fairness: the code is sequential and every call has an outcome). Polling and
  reconciling are strongly fair: both tickers keep firing and Go's select chooses
  among ready cases at random, so each is chosen infinitely often although the
  other disables it in between. Calls that fail only finitely often are *not*
  assumed; a row whose calls all fail uses up its attempts.
* `StatusConsumer`: restart of a stopped process, reopening of a channel on a
  live connection, delivery and handling are weakly fair. Nothing reopens a lost
  connection, so `EventuallyHandled` promises nothing once all servers have lost
  theirs.
* `Pipeline`: workers restart, take jobs and go on with them. Nothing is assumed of
  the server, which may dead-letter a report after three failed calls or lose its
  connection for good: `JobsConclude` reaches to the report of an outcome, and a
  deployment whose report is never applied stays as it is shown.
* `Topology`: a process is started and its set-up continues.
* `Lists`: the steps of a request are weakly fair, for the code is sequential.
  That includes the call of GitHub: the client has no timeout, so that the call
  ends is an assumption about the network. A time to live runs out.

### Where code and documentation disagree

1. `ResetStuckPublishing` makes a row with no attempts left pending; no claim
   takes it and nothing dead-letters it (`Outbox_reset`).
2. A redelivery of a push whose handling failed is answered as a success and
   dropped (`Builds_answered`).
3. The first build of a project has number 2, and the first one after the migration
   skips a number: `pgsql_deployment.go:152` returns the incremented counter, which
   is seeded with the next free number, while `domain/deployment.go:37` says
   "(1, 2, 3, ...)" (`Builds_first`).

Seen while modelling, without a run of their own. In the server:

* the dispatcher's channel is opened once per process (`outbox_dispatcher.go:157`):
  after an outage every row uses up its attempts unpublished, though
  `docs/projected-direction.md:185` lets the outbox survive one;
* the status consumer reopens channels, never the connection
  (`deployment_ucase.go:187`), against its comment at 141-144;
* the server takes an existing dead-letter queue to be bound (`queue.go:85`);
* nothing consumes `deploy.status.dlq`, although the comment at
  `deployment_ucase.go:249-253` counts on a replay;
* a report that failed three times is dead-lettered, and its deployment stays
  "building" (`deployment_ucase.go:329`);
* a push is let through for a disconnected installation when its row cannot be
  read but its status can (`webhook.go:211-218`);
* CreateProject verifies the repository against one read of the installation
  and stores the project under a second one, whose status is not looked at;
* UpdateProject and overlapping repositories events write back an availability
  read before; what they restore is old, never invented
  (`UnavailableWasRemoved`);
* of the occasions the comment at `github_ucase.go:311-313` names, only
  disconnections and repositories events invalidate the lists;
* `webhook.go:145-147` treats ErrNotFound as a success, but the repository
  answers "weird behavior" for a missing row; so a repositories event of an
  unknown installation fails too;
* deleting two installations of a user succeeds and reports an error, as it
  expects one affected row;
* the caller whose request leads a shared call lends it its context: when its
  browser goes away, all waiters fail.

In the worker:

* retries run without the worker's row when attempt 0 failed before inserting
  it (`deployments.go:430`), against `docs/deployment-pipeline.md:49-51`;
* "building" is announced on every attempt (`deployments.go:442`), though
  `docs/deployment-pipeline.md:53-56` says once per job;
* a static build that fails after the look for index.html has the sentinel in its
  captured output and is built again as a server (`deployments.go:602-607`);
* detection may return the recipe of an application further down, whose package
  manager and Dockerfile are then looked for at the top (`detect.go:588-609`);
* a package.json with scripts only makes a directory an application, for which
  detection then finds no recipe;
* a Vite application recognised by its dependencies alone is checked for no
  server framework; a Node project without a lock file cannot be installed;
  a Python project with a Node lock file gets a Node package manager;
* two workers on one host share the build directory of a deployment; `Images`
  assumes one each (a host or a `BUILD_ROOT` of its own, `deployments.go:105`).

## 4. Proofs

Each theorem holds for every value of the constants that satisfies the
assumptions stated in the modules: `OutboxAssumption`, `BuildsAssumption`,
`StatusConsumerAssumption`, `WorkerAssumption` with `PipelineAssumption`,
`TopologyAssumption`, `ListsAssumption`, `InstallationsAssumption` with `ActionsAssumption`,
`SessionsAssumption`, and `ImagesAssumption`. They say that limits and bounds are natural numbers (the
retry limits positive), that constant sets do not overlap where the
code cannot confuse their members, and, where cardinalities or tuples are
used, that sets are finite and the queues are listed; `ImagesAssumption` says
that commits are trees with a root, of directories as `Recipes` describes them. Every module proves
`Init => IInv` and `IInv /\ [Next]_vars => IInv'`, and its theorem `Inductive`.

| Module | Theorem | Statement |
|---|---|---|
| `OutboxProofs` | `TypeCorrect` | `Spec => []TypeOK` |
| | `SentRowsAreConfirmed` | `Spec => []SentIsConfirmed` |
| | `PublicationsAreBounded` | `Spec => []CopiesArePaidFor` |
| | `BudgetRespected` | `Spec => []RetryBudget` |
| | `SettledForGood` | `Spec => SettledStaysSettled` |
| | `OutboxImplementsRelay` | `Spec => ImplementsRelay` |
| `BuildsProofs` | `TypeCorrect` | `Spec => []TypeOK` |
| | `RequestsBuildOnce` | `Spec => []OneBuildPerRequest` |
| | `NumbersStayContiguous` | `Spec => []NumbersAreContiguous` |
| | `GenerationsStayExact` | `Spec => []GenerationsCountPushes` |
| | `NumbersOrderRevisions` | `Spec => []NumbersFollowGenerations` |
| | `AcceptedMeansBuilt` | `Spec => []AcceptedIsComplete` |
| | `BuildsImplementLedger` | `Spec => ImplementsLedger` |
| `StatusProofs` | `TypeCorrect` | `Spec => []TypeOK` |
| | `ReportsAreKept` | `Spec => []NothingIsLost` |
| | `RefusalsStand` | `Spec => []DeadLettersAreUnfit` |
| | `OutcomesAreFinal` | `Spec => OutcomeIsFinal` |
| | `ConsumerImplementsLifecycle` | `Spec => ImplementsLifecycle` |
| `PipelineProofs` | `TypeCorrect` | `Spec => []TypeOK` |
| | `JobsKept` | `Spec => []JobsAreKept` |
| | `OutcomesEarned` | `Spec => []OutcomeIsEarned` |
| | `DeadReported` | `Spec => []DeadJobsAreReported` |
| | `PipelineImplementsService` | `Spec => ImplementsService` |
| `ServicesProofs` | `TypeCorrect` | `Spec => []TypeOK` |
| | `RoutesFound` | `Spec => []WorkersFindRoutes` |
| | `ListsTypeCorrect` | `ListsSpec => []ListsTypeOK` |
| | `EvictedListsStayAway` | `ListsSpec => []NothingOlderReturns` |
| `InstallationsProofs` | `TypeCorrect` | `Spec => []TypeOK` |
| | `ProjectsStayWithOwner` | `Spec => []ProjectsOnOwnInstallation` |
| | `UnavailableOnlyIfRemoved` | `Spec => []UnavailableWasRemoved` |
| | `SwitchesAreAtomic` | `Spec => SwitchIsAtomic` |
| | `RowsImplementConnections` | `Spec => ImplementsConnections` |
| `SessionsProofs` | `TypeCorrect` | `Spec => []TypeOK` |
| | `BrowsersInStep` | `Spec => []InStep` |
| | `LogoutLasts` | `Spec => LoggedOutStaysOut` |
| `ImagesProofs` | `TypeCorrect` | `Spec => []TypeOK` |
| | `URLsLeadToStaticImages` | `Spec => []URLsServe` |

**Outbox.** `CopiesArePaidFor` needs to know that a claim was counted before it
was published and that a dispatcher which publishes holds one; `SentIsConfirmed`
needs that a dispatcher in phase `acked` works on a confirmed event. `IInv` is
`TypeOK`, the three properties, `LoopInv` (a dispatcher outside a batch holds
none of its events; one that awaits or has an answer has a current event; an
`acked` event is confirmed, an awaited one has a copy) and `PublishedInv` (what is
confirmed was copied, an absent row has no attempts). The main lemma counts
`Holders`: a step that adds or removes one dispatcher changes the cardinality
by one, and a claim adds at most one holder and exactly one attempt. The
refinement splits every step into those that map to a step of `Relay` and those
that leave its variables alone.

**Builds.** The five properties depend on each other and on two more parts:
`RowsInv` (build rows lie below the counters of their project, and so does the
generation a manual request has read) and `HookInv` (a delivery has at most one
handler; every project it was found to build is still to do, built or gone;
a delivery without a row or a project list is wanted for nothing).
Contiguity follows from `CountersInv`, which says which numbers are in use, 2 up to
the counter: a transaction adds one row with the next number or none. The order
of numbers and generations holds because a build takes a number above all others
together with a generation that its row lock makes current, or, for a manual
build, one read earlier that is not greater than the current one.

For `ImplementsLedger` numbers must *name* builds: `NumberInv` says they do, so that
`Numbered` has one build to choose (`ListingOf`), an addition appends to the
listing (`ListingGrows`), and every other step leaves it alone. That the unique
index lets a build pass means that the ledger has no entry of its origin. A
delivery changes its phase once, because a request that has one has it to itself
(`Holders`), and what it has yet to build is among what was listed.

**Status consumer.** `HandInv` says that the report in hand is the oldest one its
channel has not answered, so an acknowledgement or rejection settles the report
that was applied or refused and no other. `VerdictInv` says that a verdict, once
reached, stays justified, because a refusal rests on a terminal status or on
the message itself, and neither changes. With them each step either leaves a report
with the broker or moves it to where its verdict says.

**Pipeline.** `WorkerOK` counts: a job with RetryCount *n* follows *n* failed
attempts (`QueueInv` for those on the queue), and a worker about to cancel has
seen the last. `ReportsInv` ties every report to what preceded it. `KeptInv`
strengthens `JobsAreKept`: the worker that has a job in hand and an open channel has
yet to decide what becomes of it (`Pending` leaves out the steps `done` and
`dead`), which is what makes the acknowledgement harmless. The refinement of
`Service` adds `AcceptedInv`: every job, message and report is of an accepted
deployment. `AttemptSteps` sorts what a worker does by what it means to the attempt it is in,
and `AttemptsOf` says that no other attempt is touched; that what is shown was
earned is then `ReportsInv` once more.

**Topology.** The invariant says which queues are routed when a worker has got so
far, and that nothing removes a route.

**Lists.** `NothingOlderReturns` speaks of the cache, but what enters the cache comes
from requests and shared calls, and what the floor becomes is decided when an
invalidation begins. So `NoneOlder(b, todo)` says of every holder of a list, of the
cached pages outside of `todo` too, that its list is not older than *b*; the
invariant has it for the floor (with no page left out) and for the *base* of each
invalidation under way (without the pages it has yet to delete). `HeldBefore` and
`KeptBefore` show that a step makes no list but GitHub's present one. When an
invalidation begins and no request fetches, no shared call holds a list either,
because a call that is not deleted has a leader at `fetch` or `forget` (`LedInv`).

**Installations.** `RequestOK` says what survives between the statements of a
request: the row it holds is there, or known to be gone, and has the owner it had
when it was read; what a pending `Sync` or `WriteProject` would make unavailable
was reported removed. Most steps keep rows and extend histories (`RowsStay`,
`ProjectsFollow`), and one lemma says that requests survive them; deletion,
which does neither, has its own. `OneConnection` makes a disconnection a
disconnection of the abstract table, and `Kinds` sorts all steps by what they
do to owners and connections, for the refinement and for `SwitchIsAtomic`.

**Sessions.** A browser is trusted (`sure`) as long as its requests did not
overlap. `SoloInv`: a trusted browser has one request at most. `JarInv`: until it
writes the row, jar and row agree, or another browser wrote last. `AnswerInv`:
afterwards the answer under way is what the row keeps. `OvertakenInv`: a
refresh past its comparison finds the account logged in, unless a logout
overtook it.

**Images.** `AttemptOK` carries, per attempt, the directory from `Resolve`, the
recipe from detection, and the evidence of a build that succeeded. No image but a
static one is ever uploaded, so overlapping attempts overwrite like with like.
`TypeCorrect` rests on lemmas about the rules: `FirstIs` (a list of
candidates gives one that matches), `DetectType`, `ResolveType`.

No run repeats the type invariants of `Topology`, `Sessions` and `Images`, which are
proved for every size; every other property of a run that is not about liveness
has its theorem.

Only model-checked: all liveness (`EventuallySettled`, `EventuallyHandled`,
`JobsConclude`, `RoutesAppear`, `Answered`, `StaleListsGo`), which tlapm cannot
prove under fairness, and the violations, which are about instances.

## 5. Plan

1. Outbox, its abstraction, its proofs - done.
2. Builds, status consumer, worker, pipeline, topology - modelled, checked and proved.
3. Installations with projects and its abstraction, repository lists, sessions -
   modelled, checked and proved.
4. Detection as operators, and the attempts that use it - modelled, checked and
   proved.
5. Left: the dispatcher's backoff and the path
   filter as functions against reference definitions; `Images` composed with
   `Pipeline`, so that the retries of a job and the steps of an attempt are one
   state machine.

## 6. Not modelled

* Message contracts (`schemas/`, validation of jobs): the dispatcher and the
  worker apply the same checks; a message that fails them is dropped or dead-lettered
  without further state.
* HTTP delivery beyond the requests above, middleware, health, logging and
  configuration: they keep no state that outlives a request.
* Cloning with git and its askpass file, templates, buildah and S3: one step
  each that succeeds or fails.
* The token provider: a call that succeeds or fails inside those that need it.
* OAuth state, signatures and JSON: libraries.
* Payloads of events no handler takes apart.
* The client: it shows what the server answers.

## 7. Running

```
tlc -workers 2 -config Outbox_rows.cfg Outbox
tlapm OutboxProofs.tla     # likewise the other modules named ...Proofs
```
Each run's module and configuration are listed in `PROJECT.json`.
