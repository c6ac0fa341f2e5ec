------------------------------- MODULE Builds -------------------------------
(***************************************************************************)
(* How builds come to be recorded: GitHub push deliveries handled by       *)
(*   server/internal/integrations/scm/webhook/github/webhook.go            *)
(* and manual builds requested through CreateProjectBuild, both ending in  *)
(* a transaction of pgsql_deployment.go that numbers the build, stamps it  *)
(* with the project's revision generation and inserts it together with     *)
(* its outbox row (the Accept step of module Outbox).                      *)
(*                                                                         *)
(* All projects stand for projects of one repository under one GitHub      *)
(* installation: the set a push of that repository fans out to.            *)
(***************************************************************************)
EXTENDS Integers, FiniteSets

CONSTANTS
    Projects,       \* projects of the repository
    Deliveries,     \* X-GitHub-Delivery ids of its pushes
    Keys,           \* idempotency keys of manual builds
    Hooks,          \* webhook requests served at a time
    Clicks,         \* manual build requests served at a time
    MaxChanges,     \* bound of the model: changes of projects and installation
    MaxFaults,      \* bound of the model: failed statements and lost requests
    None            \* "no delivery", "no project", "no key"

ASSUME BuildsAssumption ==
    /\ IsFiniteSet(Projects)
    /\ Deliveries \cap Keys = {}
    /\ MaxChanges \in Nat
    /\ MaxFaults \in Nat
    /\ None \notin Projects \cup Deliveries \cup Keys

VARIABLES
    project,        \* the projects table
    installation,   \* the installation row of the projects
    builds,         \* the deployments table: rows that belong to a project
    delivery,       \* webhook_deliveries.processing_status
    hook,           \* webhook requests in progress
    click,          \* manual build requests in progress
    wanted,         \* projects each delivery was found to build
    answered,       \* deliveries GitHub got a success response for
    changes,        \* changes of projects and installation so far
    faults          \* failures so far

vars == <<project, installation, builds, delivery, hook, click, wanted,
          answered, changes, faults>>

ProjectRows == [exists: BOOLEAN,    \* not deleted
                eligible: BOOLEAN,  \* available, webhook enabled, and the
                                    \* branch and paths match the pushes
                generation: Nat,    \* desired_revision_generation
                next: Nat]          \* next_build_number

BuildRows == [project: Projects,
              trigger: {"webhook_push", "manual"},
              origin: Deliveries \cup Keys,
              generation: Nat,
              number: Nat]

HookStates == [at: {"idle", "received", "checked", "building", "failing"},
               delivery: Deliveries \cup {None},
               todo: SUBSET Projects]

\* Active and connected; active only; suspended, uninstalled or gone.
InstallationStates == {"connected", "disconnected", "inactive"}

ClickStates == [project: Projects \cup {None}, key: Keys \cup {None},
                generation: Nat]

TypeOK ==
    /\ project \in [Projects -> ProjectRows]
    /\ installation \in InstallationStates
    /\ builds \subseteq BuildRows
    /\ delivery \in [Deliveries -> {"none", "received", "accepted", "failed"}]
    /\ hook \in [Hooks -> HookStates]
    /\ click \in [Clicks -> ClickStates]
    /\ wanted \in [Deliveries -> SUBSET Projects]
    /\ answered \subseteq Deliveries
    /\ changes \in 0..MaxChanges
    /\ faults \in 0..MaxFaults

NoHook == [at |-> "idle", delivery |-> None, todo |-> {}]
NoClick == [project |-> None, key |-> None, generation |-> 0]

Init ==
    /\ project = [p \in Projects |-> [exists |-> TRUE, eligible |-> TRUE,
                                      generation |-> 0, next |-> 1]]
    /\ installation = "connected"
    /\ builds = {}
    /\ delivery = [dl \in Deliveries |-> "none"]
    /\ hook = [h \in Hooks |-> NoHook]
    /\ click = [c \in Clicks |-> NoClick]
    /\ wanted = [dl \in Deliveries |-> {}]
    /\ answered = {}
    /\ changes = 0
    /\ faults = 0

Fault == faults < MaxFaults /\ faults' = faults + 1

-----------------------------------------------------------------------------
(* The two store transactions.                                             *)

\* The projects row after StoreWebhookBuildWithOutbox, and the build stored.
Pushed(row) == [row EXCEPT !.generation = @ + 1, !.next = @ + 1]
PushBuild(p, dl) ==
    [project |-> p, trigger |-> "webhook_push", origin |-> dl,
     generation |-> Pushed(project[p]).generation,
     number |-> Pushed(project[p]).next]

\* Mistaken variants of the manual build below: it advances the generation,
\* it foresees the next generation, its key is not stored.
ClickedAdvances(row) == Pushed(row)
ForeseeingClickBuild(r) ==
    [project |-> r.project, trigger |-> "manual", origin |-> r.key,
     generation |-> project[r.project].generation + 1,
     number |-> project[r.project].next + 1]
KeylessClickBuild(r) ==
    [project |-> r.project, trigger |-> "manual", origin |-> None,
     generation |-> r.generation, number |-> project[r.project].next + 1]

\* The same for StoreProjectBuildWithOutbox: only a number is consumed, the
\* generation is the one the request read before.
Clicked(row) == [row EXCEPT !.next = @ + 1]
ClickBuild(r) ==
    [project |-> r.project, trigger |-> "manual", origin |-> r.key,
     generation |-> r.generation, number |-> Clicked(project[r.project]).next]

\* The unique indexes (project_id, webhook_delivery_id) and
\* (project_id, manual_idempotency_key).
Conflict(p, origin) == \E b \in builds : b.project = p /\ b.origin = origin

\* Mistaken variant of Store: no unique index.
StoreTwice(p, build, row) ==
    /\ project' = [project EXCEPT ![p] = row]
    /\ builds' = builds \cup {build}

\* One of those transactions: a unique violation rolls the counters back.
Store(p, build, row) ==
    IF Conflict(p, build.origin)
    THEN UNCHANGED <<project, builds>>
    ELSE /\ project' = [project EXCEPT ![p] = row]
         /\ builds' = builds \cup {build}

\* Mistaken variant of StoreFails: the counters are not part of the
\* transaction.
StoreFailsBurning(p, build, row) ==
    \/ project' = [project EXCEPT ![p] = row] /\ UNCHANGED builds
    \/ Store(p, build, row)

\* It fails: it is rolled back, or only the answer of its commit is lost.
StoreFails(p, build, row) ==
    \/ UNCHANGED <<project, builds>>
    \/ Store(p, build, row)

-----------------------------------------------------------------------------
(* A push delivery, HandleGithubWebhook and handlePushEvent.               *)

\* Mistaken variant of Receive: a delivery that was not accepted is handled
\* again, though another request may still handle it.
ReceiveUnlessAccepted(h, dl) ==
    /\ hook[h].at = "idle"
    /\ delivery[dl] # "accepted"
    /\ delivery' = [delivery EXCEPT ![dl] = "received"]
    /\ hook' = [hook EXCEPT ![h].at = "received", ![h].delivery = dl]
    /\ UNCHANGED <<project, installation, builds, click, wanted, answered,
                   changes, faults>>

\* TryInsertDelivery inserts the delivery.
Receive(h, dl) ==
    /\ hook[h].at = "idle"
    /\ delivery[dl] = "none"
    /\ delivery' = [delivery EXCEPT ![dl] = "received"]
    /\ hook' = [hook EXCEPT ![h].at = "received", ![h].delivery = dl]
    /\ UNCHANGED <<project, installation, builds, click, wanted, answered,
                   changes, faults>>

\* The delivery id is known: the request is answered as a success at once.
Redelivered(h, dl) ==
    /\ hook[h].at = "idle"
    /\ delivery[dl] # "none"
    /\ answered' = answered \cup {dl}
    /\ UNCHANGED <<project, installation, builds, delivery, hook, click,
                   wanted, changes, faults>>

\* TryInsertDelivery reports an error after the insert took place, or another
\* request's had; markDeliveryFailed marks the row, whoever inserted it, or
\* fails as well.
ReceiveFails(h, dl) ==
    /\ Fault
    /\ hook[h].at = "idle"
    /\ \E st \in {"failed", IF delivery[dl] = "none" THEN "received"
                                                     ELSE delivery[dl]} :
           delivery' = [delivery EXCEPT ![dl] = st]
    /\ UNCHANGED <<project, installation, builds, hook, click, wanted,
                   answered, changes>>

\* isInstallationActiveAndConnected.  When the row cannot be read, its status
\* is read alone, and the connection is not looked at.
CheckInstallation(h) ==
    LET Answer(ok) == hook' = [hook EXCEPT ![h].at = IF ok THEN "checked"
                                                           ELSE "building"]
    IN  /\ hook[h].at = "received"
        /\ \/ Answer(installation = "connected") /\ UNCHANGED faults
           \/ Fault /\ Answer(installation # "inactive")
        /\ UNCHANGED <<project, installation, builds, delivery, click, wanted,
                       answered, changes>>

\* ListByInstallationAndRepositoryID, and the skip rules of
\* triggerBuildForProject, which look at the listed rows only.
ListProjects(h) ==
    /\ hook[h].at = "checked"
    /\ LET eligible == {p \in Projects : project[p].exists /\ project[p].eligible}
       IN  /\ hook' = [hook EXCEPT ![h].at = "building", ![h].todo = eligible]
           /\ wanted' = [wanted EXCEPT ![hook[h].delivery] = eligible]
    /\ UNCHANGED <<project, installation, builds, delivery, click, answered,
                   changes, faults>>

\* triggerBuildForProject for the next project.  A new build, or ErrConflict:
\* the handler goes on with the others.
StoreWebhookBuild(h, p) ==
    /\ hook[h].at = "building"
    /\ p \in hook[h].todo
    /\ project[p].exists
    /\ Store(p, PushBuild(p, hook[h].delivery), Pushed(project[p]))
    /\ hook' = [hook EXCEPT ![h].todo = @ \ {p}]
    /\ UNCHANGED <<installation, delivery, click, wanted, answered, changes,
                   faults>>

\* Mistaken variant of StoreWebhookBuildFails: the error is only logged.
StoreWebhookBuildSkips(h, p) ==
    /\ hook[h].at = "building"
    /\ p \in hook[h].todo
    /\ project[p].exists
    /\ Fault
    /\ StoreFails(p, PushBuild(p, hook[h].delivery), Pushed(project[p]))
    /\ hook' = [hook EXCEPT ![h].todo = @ \ {p}]
    /\ UNCHANGED <<installation, delivery, click, wanted, answered, changes>>

\* Any other error, ErrNotFound for a project deleted since it was listed
\* among them: handlePushEvent returns and the other projects are not built.
StoreWebhookBuildFails(h, p) ==
    /\ hook[h].at = "building"
    /\ p \in hook[h].todo
    /\ \/ ~project[p].exists /\ UNCHANGED <<project, builds, faults>>
       \/ /\ project[p].exists
          /\ Fault
          /\ StoreFails(p, PushBuild(p, hook[h].delivery), Pushed(project[p]))
    /\ hook' = [hook EXCEPT ![h].at = "failing", ![h].todo = {}]
    /\ UNCHANGED <<installation, delivery, click, wanted, answered, changes>>

\* One of the reads before the builds fails.
ReadFails(h) ==
    /\ Fault
    /\ hook[h].at \in {"received", "checked"}
    /\ hook' = [hook EXCEPT ![h].at = "failing"]
    /\ UNCHANGED <<project, installation, builds, delivery, click, wanted,
                   answered, changes>>

\* The handler returns nil: UpdateDeliveryStatus(accepted), and 200 to GitHub.
Finish(h) ==
    /\ hook[h].at = "building"
    /\ hook[h].todo = {}
    /\ delivery' = [delivery EXCEPT ![hook[h].delivery] = "accepted"]
    /\ answered' = answered \cup {hook[h].delivery}
    /\ hook' = [hook EXCEPT ![h] = NoHook]
    /\ UNCHANGED <<project, installation, builds, click, wanted, changes,
                   faults>>

\* That update fails: an error response, and the row is left as it is.
FinishFails(h) ==
    /\ Fault
    /\ hook[h].at = "building"
    /\ hook[h].todo = {}
    /\ hook' = [hook EXCEPT ![h] = NoHook]
    /\ UNCHANGED <<project, installation, builds, delivery, click, wanted,
                   answered, changes>>

\* markDeliveryFailed, whose own failure is only logged; an error response.
MarkDeliveryFailed(h) ==
    /\ hook[h].at = "failing"
    /\ \/ /\ delivery' = [delivery EXCEPT ![hook[h].delivery] = "failed"]
          /\ UNCHANGED faults
       \/ Fault /\ UNCHANGED delivery
    /\ hook' = [hook EXCEPT ![h] = NoHook]
    /\ UNCHANGED <<project, installation, builds, click, wanted, answered,
                   changes>>

\* The server stops while it handles the request.
HookLost(h) ==
    /\ Fault
    /\ hook[h].at # "idle"
    /\ hook' = [hook EXCEPT ![h] = NoHook]
    /\ UNCHANGED <<project, installation, builds, delivery, click, wanted,
                   answered, changes>>

-----------------------------------------------------------------------------
(* A manual build, CreateProjectBuild.                                     *)

\* The project and the installation are read, the commit is resolved.  A
\* request that fails its checks has changed nothing.
ReadProject(c, p, k) ==
    /\ click[c] = NoClick
    /\ project[p].exists
    /\ installation = "connected"
    /\ click' = [click EXCEPT ![c] = [project |-> p, key |-> k,
                                      generation |-> project[p].generation]]
    /\ UNCHANGED <<project, installation, builds, delivery, hook, wanted,
                   answered, changes, faults>>

\* The transaction; ErrConflict answers a request that was recorded before.
StoreManualBuild(c) ==
    LET p == click[c].project IN
    /\ p # None
    /\ project[p].exists
    /\ Store(p, ClickBuild(click[c]), Clicked(project[p]))
    /\ click' = [click EXCEPT ![c] = NoClick]
    /\ UNCHANGED <<installation, delivery, hook, wanted, answered, changes,
                   faults>>

\* The project is gone, the transaction fails or the server stops.
ManualBuildFails(c) ==
    LET p == click[c].project IN
    /\ p # None
    /\ \/ ~project[p].exists /\ UNCHANGED <<project, builds, faults>>
       \/ /\ project[p].exists
          /\ Fault
          /\ StoreFails(p, ClickBuild(click[c]), Clicked(project[p]))
    /\ click' = [click EXCEPT ![c] = NoClick]
    /\ UNCHANGED <<installation, delivery, hook, wanted, answered, changes>>

-----------------------------------------------------------------------------
(* What changes under the requests.                                        *)

Change == changes < MaxChanges /\ changes' = changes + 1

\* The project is edited, or its repository becomes (un)available.
ChangeProject(p) ==
    /\ Change
    /\ project[p].exists
    /\ project' = [project EXCEPT ![p].eligible = ~@]
    /\ UNCHANGED <<installation, builds, delivery, hook, click, wanted,
                   answered, faults>>

\* The project is deleted: its builds stay, with a project_id that is NULL,
\* and no index or counter applies to them any more.
DeleteProject(p) ==
    /\ Change
    /\ project[p].exists
    /\ project' = [project EXCEPT ![p].exists = FALSE]
    /\ builds' = {b \in builds : b.project # p}
    /\ UNCHANGED <<installation, delivery, hook, click, wanted, answered,
                   faults>>

\* The installation is suspended or resumed, disconnected or reconnected.
ChangeInstallation ==
    /\ Change
    /\ installation' \in InstallationStates \ {installation}
    /\ UNCHANGED <<project, builds, delivery, hook, click, wanted, answered,
                   faults>>

-----------------------------------------------------------------------------

HookStep(h) ==
    \/ \E dl \in Deliveries :
          Receive(h, dl) \/ Redelivered(h, dl) \/ ReceiveFails(h, dl)
    \/ CheckInstallation(h) \/ ListProjects(h) \/ ReadFails(h)
    \/ \E p \in Projects : StoreWebhookBuild(h, p) \/ StoreWebhookBuildFails(h, p)
    \/ Finish(h) \/ FinishFails(h) \/ MarkDeliveryFailed(h) \/ HookLost(h)

ClickStep(c) ==
    \/ \E p \in Projects, k \in Keys : ReadProject(c, p, k)
    \/ StoreManualBuild(c) \/ ManualBuildFails(c)

Next ==
    \/ \E h \in Hooks : HookStep(h)
    \/ \E c \in Clicks : ClickStep(c)
    \/ \E p \in Projects : ChangeProject(p) \/ DeleteProject(p)
    \/ ChangeInstallation

Spec == Init /\ [][Next]_vars

-----------------------------------------------------------------------------
(* Properties.                                                             *)

BuildsOf(p) == {b \in builds : b.project = p}
PushesOf(p) == {b \in BuildsOf(p) : b.trigger = "webhook_push"}

\* "A replayed delivery produces no additional build", and neither does a
\* retried manual request: a project has at most one build per delivery and
\* per idempotency key, whatever requests overlap or fail half way.
OneBuildPerRequest ==
    \A b1, b2 \in builds :
        b1.project = b2.project /\ b1.origin = b2.origin => b1 = b2

\* Pushes and manual builds share one sequence of numbers without gaps or
\* repetitions: a failed or rolled back build never burns a number.
NumbersAreContiguous ==
    \A p \in Projects : \A b1, b2 \in BuildsOf(p) :
        /\ b1.number = b2.number => b1 = b2
        /\ \A n \in b1.number..b2.number : \E b \in BuildsOf(p) : b.number = n

\* The comment on Deployment.BuildNumber: the builds of a project are numbered
\* "(1, 2, 3, ...)".
NumbersStartAtOne ==
    \A p \in Projects :
        BuildsOf(p) # {} => \E b \in BuildsOf(p) : b.number = 1

\* Each push advances the desired revision by exactly one, and no failed or
\* repeated one does, so the newest push is the current generation.
GenerationsCountPushes ==
    \A p \in Projects : project[p].exists =>
        /\ {b.generation : b \in PushesOf(p)} = 1..project[p].generation
        /\ Cardinality(PushesOf(p)) = project[p].generation

\* Numbers tell the order of the revisions: a build that carries the
\* generation of a push, or a later one, has a greater number than the push.
\* The manual build's generation is read outside its transaction, so this
\* is about the reads and commits of different requests.
NumbersFollowGenerations ==
    \A p \in Projects : \A w \in PushesOf(p), b \in BuildsOf(p) :
        b # w /\ b.generation >= w.generation => b.number > w.number

\* A delivery is marked accepted only when every project it was found to
\* build has its build, whatever failed or was changed meanwhile.
AcceptedIsComplete ==
    \A dl \in Deliveries : delivery[dl] = "accepted" =>
        \A p \in wanted[dl] : project[p].exists => Conflict(p, dl)

\* The tables keep the ledger of module Ledger: the build with number n + 1
\* is entry n of its project, and a delivery is open while a request handles
\* it.  What a user saw recorded stays as it was, whatever is recorded, rolled
\* back or answered with an error later, and a closed delivery adds nothing.
Numbered(p, n) == CHOOSE b \in BuildsOf(p) : b.number = n
Entry(b) == [origin |-> b.origin, generation |-> b.generation]
Entries(p) == IF project[p].exists
              THEN [n \in 1..project[p].next - 1 |-> Entry(Numbered(p, n + 1))]
              ELSE <<>>
Phase(dl) ==
    IF delivery[dl] = "none" THEN "new"
    ELSE IF \E h \in Hooks : hook[h].delivery = dl THEN "open" ELSE "closed"
Kept == {p \in Projects : project[p].exists}

Record == INSTANCE Ledger WITH
              kept <- Kept,
              ledger <- [p \in Projects |-> Entries(p)],
              revision <- [p \in Projects |-> project[p].generation],
              phase <- [dl \in Deliveries |-> Phase(dl)],
              listed <- wanted
ImplementsLedger == Record!Spec

\* "A signed push webhook produces exactly one build": once GitHub has its
\* success response and no request is under way, the build is there.
AnsweredIsBuilt ==
    \A dl \in answered :
        (\A h \in Hooks : hook[h].delivery # dl) =>
            \A p \in Projects :
                project[p].exists /\ project[p].eligible => Conflict(p, dl)

=============================================================================
