---------------------------- MODULE BuildsProofs ----------------------------
(***************************************************************************)
(* Proofs about Builds for any projects, deliveries, keys and requests.    *)
(* Three invariants carry them: RowsInv, that the rows of a project agree  *)
(* with its counters, HookInv, that a webhook request in progress has its  *)
(* delivery to itself and has built what it no longer lists, and           *)
(* NumberInv, that a number names one build, which makes the builds of a   *)
(* project the ledger of module Ledger.                                    *)
(***************************************************************************)
EXTENDS Builds, FiniteSetTheorems, SequenceTheorems, TLAPS

USE BuildsAssumption

\* The counters of a project bound what its builds and the requests that have
\* read it carry.
RowsInv ==
    /\ IsFiniteSet(builds)
    /\ \A b \in builds : /\ project[b.project].exists
                         /\ b.generation <= project[b.project].generation
                         /\ b.number <= project[b.project].next
    /\ \A c \in Clicks : click[c] # NoClick =>
           /\ click[c].project \in Projects
           /\ click[c].key \in Keys
           /\ click[c].generation <= project[click[c].project].generation

\* What a webhook request knows of its delivery.
HookOK(h) ==
    LET dl == hook[h].delivery IN
    /\ hook[h].at = "idle" <=> dl = None
    /\ hook[h].at # "building" => hook[h].todo = {}
    /\ hook[h].at \in {"received", "checked"} => wanted[dl] = {}
    /\ hook[h].at # "idle" => delivery[dl] \in {"received", "failed"}
    /\ hook[h].at # "idle" => hook[h].todo \subseteq wanted[dl]
    /\ hook[h].at = "building" =>
           \A p \in wanted[dl] \ hook[h].todo :
               project[p].exists => Conflict(p, dl)

HookInv ==
    /\ \A h \in Hooks : HookOK(h)
    /\ \A h1, h2 \in Hooks :
          hook[h1].delivery = hook[h2].delivery /\ hook[h1].at # "idle" =>
              h1 = h2
    /\ \A dl \in Deliveries : delivery[dl] = "none" => wanted[dl] = {}

\* Within a project the number tells the build.
NumberInv ==
    \A b1, b2 \in builds :
        b1.project = b2.project /\ b1.number = b2.number => b1 = b2

\* A project has as many builds as its counter has moved, and has given them
\* every number the counter has taken since.
CountersInv ==
    \A p \in Projects : project[p].exists =>
        /\ {b.number : b \in BuildsOf(p)} = 2..project[p].next
        /\ Cardinality(BuildsOf(p)) = project[p].next - 1

IInv == /\ TypeOK /\ RowsInv /\ HookInv /\ NumberInv
        /\ OneBuildPerRequest /\ CountersInv /\ GenerationsCountPushes
        /\ NumbersFollowGenerations /\ AcceptedIsComplete

-----------------------------------------------------------------------------
(* What a step does to the two tables.                                     *)

\* A transaction committed a push build, or a manual one.
PushStored(p, dl) ==
    /\ project[p].exists
    /\ ~Conflict(p, dl)
    /\ project' = [project EXCEPT ![p] = Pushed(project[p])]
    /\ builds' = builds \cup {PushBuild(p, dl)}

ClickStored(c) ==
    LET p == click[c].project IN
    /\ p # None
    /\ project[p].exists
    /\ ~Conflict(p, click[c].key)
    /\ project' = [project EXCEPT ![p] = Clicked(project[p])]
    /\ builds' = builds \cup {ClickBuild(click[c])}

LEMMA TableSteps ==
    ASSUME [Next]_vars
    PROVE  \/ UNCHANGED <<project, builds>>
           \/ \E h \in Hooks, p \in Projects :
                  /\ hook[h].at = "building" /\ p \in hook[h].todo
                  /\ PushStored(p, hook[h].delivery)
           \/ \E c \in Clicks : ClickStored(c) /\ UNCHANGED hook
           \/ \E p \in Projects : ChangeProject(p) \/ DeleteProject(p)
<1>1. CASE UNCHANGED vars
    BY <1>1 DEF vars
<1>2. ASSUME NEW h \in Hooks, HookStep(h)
      PROVE  \/ UNCHANGED <<project, builds>>
             \/ \E p \in Projects :
                  /\ hook[h].at = "building" /\ p \in hook[h].todo
                  /\ PushStored(p, hook[h].delivery)
    <2>1. ASSUME NEW p \in Projects, StoreWebhookBuild(h, p)
          PROVE  UNCHANGED <<project, builds>> \/ PushStored(p, hook[h].delivery)
        BY <2>1 DEF StoreWebhookBuild, Store, PushStored, PushBuild
    <2>2. ASSUME NEW p \in Projects, StoreWebhookBuildFails(h, p)
          PROVE  UNCHANGED <<project, builds>> \/ PushStored(p, hook[h].delivery)
        BY <2>2 DEF StoreWebhookBuildFails, StoreFails, Store, PushStored,
           PushBuild
    <2> QED BY <1>2, <2>1, <2>2 DEF HookStep, Receive, Redelivered,
            ReceiveFails, CheckInstallation, ListProjects, ReadFails, Finish,
            FinishFails, MarkDeliveryFailed, HookLost, StoreWebhookBuild,
            StoreWebhookBuildFails
<1>3. ASSUME NEW c \in Clicks, ClickStep(c)
      PROVE  \/ UNCHANGED <<project, builds>>
             \/ ClickStored(c) /\ UNCHANGED hook
    <2>1. CASE StoreManualBuild(c)
        BY <2>1 DEF StoreManualBuild, Store, ClickStored, ClickBuild
    <2>2. CASE ManualBuildFails(c)
        BY <2>2 DEF ManualBuildFails, StoreFails, Store, ClickStored, ClickBuild
    <2> QED BY <1>3, <2>1, <2>2 DEF ClickStep, ReadProject
<1>4. CASE ChangeInstallation
    BY <1>4 DEF ChangeInstallation
<1> QED BY <1>1, <1>2, <1>3, <1>4 DEF Next

\* Generations never go back, and a project once deleted stays deleted.
LEMMA CountersGrow ==
    ASSUME TypeOK, RowsInv, HookInv, [Next]_vars, NEW p \in Projects
    PROVE  /\ project[p].generation <= project'[p].generation
           /\ project'[p].exists => project[p].exists
<1> USE DEF TypeOK, ProjectRows
<1>1. ASSUME NEW q \in Projects, NEW dl, PushStored(q, dl)
      PROVE  /\ project[p].generation <= project'[p].generation
             /\ project'[p].exists => project[p].exists
    BY <1>1 DEF PushStored, Pushed
<1>2. ASSUME NEW c \in Clicks, ClickStored(c)
      PROVE  /\ project[p].generation <= project'[p].generation
             /\ project'[p].exists => project[p].exists
    BY <1>2 DEF ClickStored, Clicked
<1>3. ASSUME NEW q \in Projects, ChangeProject(q) \/ DeleteProject(q)
      PROVE  /\ project[p].generation <= project'[p].generation
             /\ project'[p].exists => project[p].exists
    BY <1>3 DEF ChangeProject, DeleteProject
<1>4. CASE UNCHANGED <<project, builds>>
    BY <1>4
<1> QED BY <1>1, <1>2, <1>3, <1>4, TableSteps

-----------------------------------------------------------------------------
(* Types.                                                                  *)

\* The counters of a row after a transaction.
LEMMA RowUpdates ==
    ASSUME NEW r \in ProjectRows
    PROVE  /\ Pushed(r) \in ProjectRows /\ Clicked(r) \in ProjectRows
           /\ Pushed(r).exists = r.exists /\ Clicked(r).exists = r.exists
           /\ Pushed(r).generation = r.generation + 1
           /\ Clicked(r).generation = r.generation
           /\ Pushed(r).next = r.next + 1 /\ Clicked(r).next = r.next + 1
           /\ [r EXCEPT !.eligible = ~r.eligible] \in ProjectRows
           /\ [r EXCEPT !.exists = FALSE] \in ProjectRows
<1>1. \A x \in ProjectRows :
          /\ [x EXCEPT !.next = x.next + 1] \in ProjectRows
          /\ [x EXCEPT !.generation = x.generation + 1] \in ProjectRows
    BY DEF ProjectRows
<1>2. Pushed(r) \in ProjectRows
    <2> DEFINE a == [r EXCEPT !.generation = r.generation + 1]
    <2>1. a \in ProjectRows /\ Pushed(r) = [a EXCEPT !.next = a.next + 1]
        BY <1>1 DEF Pushed
    <2> HIDE DEF a
    <2> QED BY <1>1, <2>1
<1>3. Clicked(r) \in ProjectRows
    BY <1>1 DEF Clicked
<1>4. Pushed(r).exists = r.exists /\ Clicked(r).exists = r.exists
    BY DEF ProjectRows, Pushed, Clicked
<1>5. Pushed(r).generation = r.generation + 1 /\ Pushed(r).next = r.next + 1
    BY DEF ProjectRows, Pushed
<1>6. Clicked(r).generation = r.generation /\ Clicked(r).next = r.next + 1
    BY DEF ProjectRows, Clicked
<1>7. [r EXCEPT !.eligible = ~r.eligible] \in ProjectRows
    <2>1. (~r.eligible) \in BOOLEAN
        OBVIOUS
    <2> QED BY <2>1 DEF ProjectRows
<1>8. [r EXCEPT !.exists = FALSE] \in ProjectRows
    BY DEF ProjectRows
<1> QED BY <1>2, <1>3, <1>4, <1>5, <1>6, <1>7, <1>8

LEMMA TypeTables ==
    TypeOK /\ RowsInv /\ HookInv /\ [Next]_vars =>
        project' \in [Projects -> ProjectRows] /\ builds' \subseteq BuildRows
<1> SUFFICES ASSUME TypeOK, RowsInv, HookInv, [Next]_vars
             PROVE  /\ project' \in [Projects -> ProjectRows]
                    /\ builds' \subseteq BuildRows
    OBVIOUS
<1>1. \A p \in Projects : project[p] \in ProjectRows
    BY DEF TypeOK
<1>2. ASSUME NEW h \in Hooks, NEW p \in Projects, hook[h].at = "building",
             PushStored(p, hook[h].delivery)
      PROVE  /\ project' \in [Projects -> ProjectRows]
             /\ builds' \subseteq BuildRows
    <2>1. hook[h].delivery \in Deliveries
        BY <1>2 DEF TypeOK, HookStates, HookInv, HookOK
    <2>2. Pushed(project[p]).generation \in Nat /\ Pushed(project[p]).next \in Nat
        BY <1>1, RowUpdates DEF ProjectRows
    <2>3. PushBuild(p, hook[h].delivery) \in BuildRows
        BY <2>1, <2>2 DEF PushBuild, BuildRows
    <2> QED BY <1>1, <1>2, <2>3, RowUpdates DEF TypeOK, PushStored
<1>3. ASSUME NEW c \in Clicks, ClickStored(c)
      PROVE  /\ project' \in [Projects -> ProjectRows]
             /\ builds' \subseteq BuildRows
    <2>1. click[c] # NoClick
        BY <1>3 DEF ClickStored, NoClick
    <2>2. click[c].project \in Projects /\ click[c].key \in Keys
        BY <2>1 DEF RowsInv
    <2>3. click[c].generation \in Nat
        BY DEF TypeOK, ClickStates
    <2>4. ClickBuild(click[c]) \in BuildRows
        <3>1. Clicked(project[click[c].project]) \in ProjectRows
            BY <1>1, <2>2, RowUpdates
        <3>2. Clicked(project[click[c].project]).next \in Nat
            BY <3>1 DEF ProjectRows
        <3> QED BY <2>2, <2>3, <3>2 DEF ClickBuild, BuildRows
    <2> QED BY <1>1, <1>3, <2>2, <2>4, RowUpdates DEF TypeOK, ClickStored
<1>4. ASSUME NEW p \in Projects, ChangeProject(p) \/ DeleteProject(p)
      PROVE  /\ project' \in [Projects -> ProjectRows]
             /\ builds' \subseteq BuildRows
    <2>1. CASE ChangeProject(p)
        <3>1. project' = [project EXCEPT ![p] = [project[p] EXCEPT
                              !.eligible = ~project[p].eligible]]
            BY <2>1 DEF ChangeProject
        <3> DEFINE row == [project[p] EXCEPT !.eligible = ~project[p].eligible]
        <3>2. row \in ProjectRows
            BY <1>1, RowUpdates
        <3> HIDE DEF row
        <3>3. project' = [project EXCEPT ![p] = row]
            BY <3>1, Zenon DEF row
        <3>4. builds' = builds
            BY <2>1 DEF ChangeProject
        <3> QED BY <3>2, <3>3, <3>4 DEF TypeOK
    <2>2. CASE DeleteProject(p)
        BY <1>1, <2>2, RowUpdates DEF TypeOK, DeleteProject
    <2> QED BY <1>4, <2>1, <2>2
<1>5. CASE UNCHANGED <<project, builds>>
    BY <1>5 DEF TypeOK
<1> QED BY <1>2, <1>3, <1>4, <1>5, TableSteps

LEMMA TypeStep == TypeOK /\ RowsInv /\ HookInv /\ [Next]_vars => TypeOK'
<1> SUFFICES ASSUME TypeOK, RowsInv, HookInv, [Next]_vars
             PROVE  /\ installation' \in InstallationStates
                    /\ delivery' \in [Deliveries -> {"none", "received",
                                                     "accepted", "failed"}]
                    /\ hook' \in [Hooks -> HookStates]
                    /\ click' \in [Clicks -> ClickStates]
                    /\ wanted' \in [Deliveries -> SUBSET Projects]
                    /\ answered' \subseteq Deliveries
                    /\ changes' \in 0..MaxChanges
                    /\ faults' \in 0..MaxFaults
    BY TypeTables DEF TypeOK
<1> DEFINE Goal == /\ installation' \in InstallationStates
                   /\ delivery' \in [Deliveries -> {"none", "received",
                                                    "accepted", "failed"}]
                   /\ hook' \in [Hooks -> HookStates]
                   /\ click' \in [Clicks -> ClickStates]
                   /\ wanted' \in [Deliveries -> SUBSET Projects]
                   /\ answered' \subseteq Deliveries
                   /\ changes' \in 0..MaxChanges
                   /\ faults' \in 0..MaxFaults
<1> USE DEF TypeOK
<1>1. NoHook \in HookStates /\ NoClick \in ClickStates
    BY DEF NoHook, HookStates, NoClick, ClickStates
<1>2. Fault => faults' \in 0..MaxFaults
    BY DEF Fault
<1>3. ASSUME NEW h \in Hooks, HookStep(h) PROVE Goal
    <2>2. hook[h] \in HookStates
        OBVIOUS
    <2>3. hook[h].at # "idle" => hook[h].delivery \in Deliveries
        BY <2>2 DEF HookInv, HookOK, HookStates
    <2>4. ASSUME NEW dl \in Deliveries,
                 Receive(h, dl) \/ Redelivered(h, dl) \/ ReceiveFails(h, dl)
          PROVE  Goal
        <3>1. CASE Receive(h, dl)
            <4> DEFINE a == [hook[h] EXCEPT !.at = "received"]
            <4>1. \A x \in HookStates : [x EXCEPT !.delivery = dl] \in HookStates
                BY DEF HookStates
            <4>2. a \in HookStates
                BY <2>2 DEF HookStates
            <4>3. hook' = [hook EXCEPT ![h] = [a EXCEPT !.delivery = dl]]
                BY <3>1 DEF Receive
            <4> HIDE DEF a
            <4>4. [a EXCEPT !.delivery = dl] \in HookStates
                BY <4>1, <4>2
            <4>5. hook' \in [Hooks -> HookStates]
                BY <4>3, <4>4
            <4> QED BY <3>1, <4>5 DEF Receive
        <3>2. CASE Redelivered(h, dl)
            BY <3>2 DEF Redelivered
        <3>3. CASE ReceiveFails(h, dl)
            BY <3>3, <1>2 DEF ReceiveFails
        <3> QED BY <2>4, <3>1, <3>2, <3>3
    <2>5. CASE CheckInstallation(h)
        <3>1. PICK to \in {"checked", "building"} :
                  hook' = [hook EXCEPT ![h].at = to]
            BY <2>5 DEF CheckInstallation
        <3>2. hook' \in [Hooks -> HookStates]
            BY <2>2, <3>1 DEF HookStates
        <3>3. faults' \in 0..MaxFaults
            BY <1>2, <2>5 DEF CheckInstallation
        <3> QED BY <2>5, <3>2, <3>3 DEF CheckInstallation
    <2>6. CASE ListProjects(h)
        <3> DEFINE E == {p \in Projects : project[p].exists /\ project[p].eligible}
        <3>1. hook' = [hook EXCEPT ![h] = [hook[h] EXCEPT !.at = "building",
                                                          !.todo = E]]
            BY <2>6 DEF ListProjects
        <3>2. [hook[h] EXCEPT !.at = "building", !.todo = E] \in HookStates
            BY <2>2 DEF HookStates
        <3>3. wanted' = [wanted EXCEPT ![hook[h].delivery] = E]
            BY <2>6 DEF ListProjects
        <3>4. E \in SUBSET Projects
            OBVIOUS
        <3> HIDE DEF E
        <3>5. hook' \in [Hooks -> HookStates]
            BY <3>1, <3>2
        <3>6. wanted' \in [Deliveries -> SUBSET Projects]
            BY <3>3, <3>4
        <3> QED BY <2>6, <3>5, <3>6 DEF ListProjects
    <2>7. CASE ReadFails(h)
        BY <2>7, <2>2, <1>2 DEF ReadFails, HookStates
    <2>8. ASSUME NEW p \in Projects, StoreWebhookBuild(h, p) PROVE Goal
        <3>1. [hook[h] EXCEPT !.todo = @ \ {p}] \in HookStates
            BY <2>2 DEF HookStates
        <3> QED BY <2>8, <3>1 DEF StoreWebhookBuild
    <2>9. ASSUME NEW p \in Projects, StoreWebhookBuildFails(h, p) PROVE Goal
        BY <2>9, <2>2, <1>2 DEF StoreWebhookBuildFails, HookStates
    <2>10. CASE Finish(h)
        BY <2>10, <2>3, <1>1 DEF Finish
    <2>11. CASE FinishFails(h) \/ HookLost(h)
        BY <2>11, <1>1, <1>2 DEF FinishFails, HookLost
    <2>12. CASE MarkDeliveryFailed(h)
        BY <2>12, <1>1, <1>2 DEF MarkDeliveryFailed
    <2> QED BY <1>3, <2>4, <2>5, <2>6, <2>7, <2>8, <2>9, <2>10, <2>11, <2>12
            DEF HookStep
<1>4. ASSUME NEW c \in Clicks, ClickStep(c) PROVE Goal
    <2>1. ASSUME NEW p \in Projects, NEW k \in Keys, ReadProject(c, p, k)
          PROVE  Goal
        <3>1. [project |-> p, key |-> k, generation |-> project[p].generation]
                  \in ClickStates
            BY DEF ClickStates, ProjectRows
        <3> QED BY <2>1, <3>1 DEF ReadProject
    <2>2. CASE StoreManualBuild(c)
        BY <2>2, <1>1 DEF StoreManualBuild
    <2>3. CASE ManualBuildFails(c)
        BY <2>3, <1>1, <1>2 DEF ManualBuildFails
    <2> QED BY <1>4, <2>1, <2>2, <2>3 DEF ClickStep
<1>5. ASSUME NEW p \in Projects, ChangeProject(p) \/ DeleteProject(p)
      PROVE  Goal
    BY <1>5 DEF ChangeProject, DeleteProject, Change
<1>6. CASE ChangeInstallation
    BY <1>6 DEF ChangeInstallation, Change
<1>7. CASE UNCHANGED vars
    BY <1>7 DEF vars
<1> QED BY <1>3, <1>4, <1>5, <1>6, <1>7 DEF Next

-----------------------------------------------------------------------------
(* Rows and counters.                                                      *)

\* What both transactions have in common: a build b with the next number is
\* added to project p, whose row becomes r.
Added(p, b, r) ==
    /\ project[p].exists
    /\ ~Conflict(p, b.origin)
    /\ b \in BuildRows /\ b.project = p /\ b.number = r.next
    /\ r \in ProjectRows /\ r.exists = project[p].exists
    /\ r.next = project[p].next + 1
    /\ project' = [project EXCEPT ![p] = r]
    /\ builds' = builds \cup {b}

\* A push build carries the new generation.
PushAdded(p, b, r) ==
    /\ Added(p, b, r)
    /\ b.trigger = "webhook_push"
    /\ b.generation = r.generation
    /\ r.generation = project[p].generation + 1

\* A manual one carries a generation that was the project's at some time.
ClickAdded(p, b, r) ==
    /\ Added(p, b, r)
    /\ b.trigger = "manual"
    /\ b.generation <= project[p].generation
    /\ r.generation = project[p].generation

LEMMA PushIsAdded ==
    ASSUME TypeOK, TypeOK', NEW p \in Projects, NEW dl, PushStored(p, dl)
    PROVE  /\ PushBuild(p, dl) \in BuildRows /\ Pushed(project[p]) \in ProjectRows
           /\ PushAdded(p, PushBuild(p, dl), Pushed(project[p]))
<1> DEFINE b == PushBuild(p, dl)
           r == Pushed(project[p])
<1>1. project[p] \in ProjectRows
    BY DEF TypeOK
<1>2. b \in BuildRows /\ r \in ProjectRows
    BY <1>1, RowUpdates DEF PushStored, TypeOK
<1>3. /\ b.project = p /\ b.origin = dl
      /\ b.trigger = "webhook_push"
      /\ b.number = r.next /\ b.generation = r.generation
    BY DEF PushBuild
<1>4. PushAdded(p, b, r)
    BY <1>1, <1>2, <1>3, RowUpdates DEF PushStored, PushAdded, Added
<1> QED BY <1>2, <1>4

LEMMA ClickIsAdded ==
    ASSUME TypeOK, TypeOK', RowsInv, NEW c \in Clicks, ClickStored(c)
    PROVE  LET p == click[c].project
               b == ClickBuild(click[c])
               r == Clicked(project[p])
           IN  /\ p \in Projects /\ b \in BuildRows /\ r \in ProjectRows
               /\ ClickAdded(p, b, r)
<1> DEFINE p == click[c].project
           b == ClickBuild(click[c])
           r == Clicked(project[p])
<1>1. click[c] # NoClick
    BY DEF ClickStored, NoClick
<1>2. p \in Projects /\ click[c].generation <= project[p].generation
    BY <1>1 DEF RowsInv
<1>3. project[p] \in ProjectRows
    BY <1>2 DEF TypeOK
<1>4. b \in BuildRows /\ r \in ProjectRows
    BY <1>3, RowUpdates DEF ClickStored, TypeOK
<1>5. /\ b.project = p /\ b.origin = click[c].key
      /\ b.trigger = "manual"
      /\ b.number = r.next /\ b.generation = click[c].generation
    BY DEF ClickBuild
<1>6. ClickAdded(p, b, r)
    BY <1>2, <1>3, <1>4, <1>5, RowUpdates DEF ClickStored, ClickAdded, Added
<1> QED BY <1>2, <1>4, <1>6

LEMMA TableChanges ==
    ASSUME TypeOK, RowsInv, HookInv, [Next]_vars
    PROVE  \/ UNCHANGED <<project, builds>>
           \/ \E p \in Projects, b \in BuildRows, r \in ProjectRows :
                  PushAdded(p, b, r) \/ ClickAdded(p, b, r)
           \/ \E p \in Projects : ChangeProject(p) \/ DeleteProject(p)
<1>1. TypeOK'
    BY TypeStep
<1> QED BY <1>1, PushIsAdded, ClickIsAdded, TableSteps

\* What an addition does to the builds and the row of each project.
LEMMA Additions ==
    ASSUME TypeOK, RowsInv, NEW p \in Projects, NEW b \in BuildRows,
           NEW r \in ProjectRows, Added(p, b, r)
    PROVE  /\ project'[p] = r /\ BuildsOf(p)' = BuildsOf(p) \cup {b}
           /\ \A q \in Projects \ {p} :
                  project'[q] = project[q] /\ BuildsOf(q)' = BuildsOf(q)
           /\ b \notin builds
           /\ project[p].next \in Nat /\ project[p].generation \in Nat
           /\ r.next \in Nat /\ r.generation \in Nat
<1>1. project'[p] = r /\ \A q \in Projects \ {p} : project'[q] = project[q]
    BY DEF TypeOK, Added
<1>2. BuildsOf(p)' = BuildsOf(p) \cup {b}
    BY DEF BuildsOf, Added
<1>3. \A q \in Projects \ {p} : BuildsOf(q)' = BuildsOf(q)
    BY DEF BuildsOf, Added
<1>4. project[p] \in ProjectRows
    BY DEF TypeOK
<1>5. project[p].next \in Nat /\ project[p].generation \in Nat
      /\ r.next \in Nat /\ r.generation \in Nat
    BY <1>4 DEF ProjectRows
<1>6. b \notin builds
    BY <1>5 DEF RowsInv, Added
<1> QED BY <1>1, <1>2, <1>3, <1>5, <1>6

LEMMA BuildsFinite ==
    ASSUME RowsInv, NEW p
    PROVE  /\ IsFiniteSet(BuildsOf(p)) /\ Cardinality(BuildsOf(p)) \in Nat
           /\ IsFiniteSet(PushesOf(p)) /\ Cardinality(PushesOf(p)) \in Nat
<1>1. BuildsOf(p) \subseteq builds /\ PushesOf(p) \subseteq builds
    BY DEF BuildsOf, PushesOf
<1> QED BY <1>1, FS_Subset, FS_CardinalityType DEF RowsInv

LEMMA NumbersStep ==
    TypeOK /\ RowsInv /\ HookInv /\ CountersInv /\ [Next]_vars
        => CountersInv'
<1> SUFFICES ASSUME TypeOK, RowsInv, HookInv, CountersInv, [Next]_vars,
                    NEW q \in Projects, project'[q].exists
             PROVE  /\ {x.number : x \in BuildsOf(q)'} = 2..project'[q].next
                    /\ Cardinality(BuildsOf(q)') = project'[q].next - 1
    BY DEF CountersInv
<1>1. CASE project'[q].next = project[q].next /\ project[q].exists
           /\ BuildsOf(q)' = BuildsOf(q)
    BY <1>1 DEF CountersInv
<1>2. ASSUME NEW p \in Projects, NEW b \in BuildRows, NEW r \in ProjectRows,
             Added(p, b, r)
      PROVE  /\ {x.number : x \in BuildsOf(q)'} = 2..project'[q].next
             /\ Cardinality(BuildsOf(q)') = project'[q].next - 1
    <2>1. CASE p # q
        <3>1. project'[q] = project[q] /\ BuildsOf(q)' = BuildsOf(q)
            BY <1>2, <2>1, Additions
        <3> QED BY <1>1, <3>1
    <2>2. CASE p = q
        <3>1. /\ BuildsOf(q)' = BuildsOf(q) \cup {b} /\ b \notin BuildsOf(q)
              /\ project'[q] = r /\ r.next = project[q].next + 1
              /\ b.number = r.next /\ project[q].exists
              /\ project[q].next \in Nat
            BY <1>2, <2>2, Additions DEF Added, BuildsOf
        <3>2. /\ {x.number : x \in BuildsOf(q)} = 2..project[q].next
              /\ Cardinality(BuildsOf(q)) = project[q].next - 1
            BY <3>1 DEF CountersInv
        <3>3. project[q].next >= 1
            BY <3>1, <3>2, BuildsFinite
        <3>4. {x.number : x \in BuildsOf(q)'}
                  = {x.number : x \in BuildsOf(q)} \cup {b.number}
            BY <3>1
        <3>5. 2..(project[q].next + 1)
                  = (2..project[q].next) \cup {project[q].next + 1}
            BY <3>1, <3>3
        <3>6. Cardinality(BuildsOf(q)') = Cardinality(BuildsOf(q)) + 1
            <4>1. IsFiniteSet(BuildsOf(q))
                BY BuildsFinite
            <4>2. Cardinality(BuildsOf(q) \cup {b})
                      = Cardinality(BuildsOf(q)) + 1
                BY <3>1, <4>1, FS_AddElement
            <4> QED BY <3>1, <4>2
        <3> QED BY <3>1, <3>2, <3>4, <3>5, <3>6
    <2> QED BY <2>1, <2>2
<1>3. ASSUME NEW p \in Projects, ChangeProject(p)
      PROVE  project'[q].next = project[q].next /\ project[q].exists
             /\ BuildsOf(q)' = BuildsOf(q)
    <2>1. BuildsOf(q)' = BuildsOf(q)
        BY <1>3 DEF ChangeProject, BuildsOf
    <2> QED BY <1>3, <2>1 DEF ChangeProject, TypeOK, ProjectRows
<1>4. ASSUME NEW p \in Projects, DeleteProject(p)
      PROVE  project'[q].next = project[q].next /\ project[q].exists
             /\ BuildsOf(q)' = BuildsOf(q)
    <2>1. p # q /\ project'[q] = project[q]
        BY <1>4 DEF DeleteProject, TypeOK, ProjectRows
    <2>2. BuildsOf(q)' = BuildsOf(q)
        BY <1>4, <2>1 DEF DeleteProject, BuildsOf
    <2> QED BY <2>1, <2>2
<1>5. CASE UNCHANGED <<project, builds>>
    BY <1>1, <1>5 DEF BuildsOf
<1> QED BY <1>1, <1>2, <1>3, <1>4, <1>5, TableChanges
        DEF PushAdded, ClickAdded

LEMMA GenerationsStep ==
    TypeOK /\ RowsInv /\ HookInv /\ GenerationsCountPushes /\ [Next]_vars
        => GenerationsCountPushes'
<1> SUFFICES ASSUME TypeOK, RowsInv, HookInv, GenerationsCountPushes,
                    [Next]_vars, NEW q \in Projects, project'[q].exists
             PROVE  /\ {x.generation : x \in PushesOf(q)'}
                           = 1..project'[q].generation
                    /\ Cardinality(PushesOf(q)') = project'[q].generation
    BY DEF GenerationsCountPushes
<1>1. CASE project'[q].generation = project[q].generation /\ project[q].exists
           /\ PushesOf(q)' = PushesOf(q)
    BY <1>1 DEF GenerationsCountPushes
<1>2. ASSUME NEW p \in Projects, NEW b \in BuildRows, NEW r \in ProjectRows,
             PushAdded(p, b, r) \/ ClickAdded(p, b, r)
      PROVE  /\ {x.generation : x \in PushesOf(q)'}
                    = 1..project'[q].generation
             /\ Cardinality(PushesOf(q)') = project'[q].generation
    <2> Added(p, b, r)
        BY <1>2 DEF PushAdded, ClickAdded
    <2>1. CASE p # q
        <3>1. project'[q] = project[q] /\ BuildsOf(q)' = BuildsOf(q)
            BY <2>1, Additions
        <3>2. PushesOf(q)' = PushesOf(q)
            BY <3>1 DEF PushesOf
        <3> QED BY <1>1, <3>1, <3>2
    <2>2. CASE p = q /\ ClickAdded(p, b, r)
        <3>1. project'[q] = r /\ BuildsOf(q)' = BuildsOf(q) \cup {b}
            BY <2>2, Additions
        <3>2. PushesOf(q)' = PushesOf(q)
            BY <2>2, <3>1 DEF PushesOf, ClickAdded
        <3> QED BY <1>1, <2>2, <3>1, <3>2 DEF ClickAdded, Added
    <2>3. CASE p = q /\ PushAdded(p, b, r)
        <3>1. /\ BuildsOf(q)' = BuildsOf(q) \cup {b} /\ b \notin BuildsOf(q)
              /\ project'[q] = r /\ r.generation = project[q].generation + 1
              /\ b.generation = r.generation /\ project[q].exists
              /\ project[q].generation \in Nat
            <4>1. project'[q] = r /\ BuildsOf(q)' = BuildsOf(q) \cup {b}
                  /\ b \notin builds /\ project[q].generation \in Nat
                BY <2>3, Additions
            <4> QED BY <2>3, <4>1 DEF Added, PushAdded, BuildsOf
        <3>2. PushesOf(q)' = PushesOf(q) \cup {b} /\ b \notin PushesOf(q)
            BY <2>3, <3>1 DEF PushesOf, PushAdded
        <3>3. /\ {x.generation : x \in PushesOf(q)} = 1..project[q].generation
              /\ Cardinality(PushesOf(q)) = project[q].generation
            BY <3>1 DEF GenerationsCountPushes
        <3>4. {x.generation : x \in PushesOf(q)'}
                  = {x.generation : x \in PushesOf(q)} \cup {b.generation}
            BY <3>2
        <3>5. 1..(project[q].generation + 1)
                  = (1..project[q].generation) \cup {project[q].generation + 1}
            BY <3>1
        <3>6. Cardinality(PushesOf(q)') = Cardinality(PushesOf(q)) + 1
            <4>1. IsFiniteSet(PushesOf(q))
                BY BuildsFinite
            <4>2. Cardinality(PushesOf(q) \cup {b})
                      = Cardinality(PushesOf(q)) + 1
                BY <3>2, <4>1, FS_AddElement
            <4> QED BY <3>2, <4>2
        <3> QED BY <3>1, <3>3, <3>4, <3>5, <3>6
    <2> QED BY <1>2, <2>1, <2>2, <2>3
<1>3. ASSUME NEW p \in Projects, ChangeProject(p)
      PROVE  project'[q].generation = project[q].generation
             /\ project[q].exists /\ PushesOf(q)' = PushesOf(q)
    <2>1. PushesOf(q)' = PushesOf(q)
        BY <1>3 DEF ChangeProject, BuildsOf, PushesOf
    <2> QED BY <1>3, <2>1 DEF ChangeProject, TypeOK, ProjectRows
<1>4. ASSUME NEW p \in Projects, DeleteProject(p)
      PROVE  project'[q].generation = project[q].generation
             /\ project[q].exists /\ PushesOf(q)' = PushesOf(q)
    <2>1. p # q /\ project'[q] = project[q]
        BY <1>4 DEF DeleteProject, TypeOK, ProjectRows
    <2>2. PushesOf(q)' = PushesOf(q)
        BY <1>4, <2>1 DEF DeleteProject, BuildsOf, PushesOf
    <2> QED BY <2>1, <2>2
<1>5. CASE UNCHANGED <<project, builds>>
    BY <1>1, <1>5 DEF BuildsOf, PushesOf
<1> QED BY <1>1, <1>2, <1>3, <1>4, <1>5, TableChanges

\* Nothing but an addition gives a project a new build.
LEMMA NewBuilds ==
    ASSUME TypeOK, RowsInv, HookInv, [Next]_vars
    PROVE  \/ builds' \subseteq builds
           \/ \E p \in Projects, b \in BuildRows, r \in ProjectRows :
                  PushAdded(p, b, r) \/ ClickAdded(p, b, r)
BY TableChanges DEF ChangeProject, DeleteProject

LEMMA OneStep ==
    TypeOK /\ RowsInv /\ HookInv /\ OneBuildPerRequest /\ [Next]_vars
        => OneBuildPerRequest'
<1> SUFFICES ASSUME TypeOK, RowsInv, HookInv, OneBuildPerRequest, [Next]_vars
             PROVE  OneBuildPerRequest'
    OBVIOUS
<1>1. ASSUME NEW p \in Projects, NEW b \in BuildRows, NEW r \in ProjectRows,
             Added(p, b, r)
      PROVE  OneBuildPerRequest'
    <2>1. \A x \in builds : ~(x.project = b.project /\ x.origin = b.origin)
        BY <1>1 DEF Added, Conflict
    <2> QED BY <1>1, <2>1 DEF OneBuildPerRequest, Added
<1>2. CASE builds' \subseteq builds
    BY <1>2 DEF OneBuildPerRequest
<1> QED BY <1>1, <1>2, NewBuilds DEF PushAdded, ClickAdded

LEMMA NumberStep ==
    TypeOK /\ RowsInv /\ HookInv /\ NumberInv /\ [Next]_vars => NumberInv'
<1> SUFFICES ASSUME TypeOK, RowsInv, HookInv, NumberInv, [Next]_vars
             PROVE  NumberInv'
    OBVIOUS
<1>1. ASSUME NEW p \in Projects, NEW b \in BuildRows, NEW r \in ProjectRows,
             Added(p, b, r)
      PROVE  NumberInv'
    <2>1. b.number = project[p].next + 1 /\ project[p].next \in Nat
        BY <1>1, Additions DEF Added
    <2>2. \A x \in builds : x.project = p =>
              x.number \in Nat /\ x.number <= project[p].next
        BY DEF RowsInv, TypeOK, BuildRows
    <2> QED BY <1>1, <2>1, <2>2 DEF NumberInv, Added
<1>2. CASE builds' \subseteq builds
    BY <1>2 DEF NumberInv
<1> QED BY <1>1, <1>2, NewBuilds DEF PushAdded, ClickAdded

\* A new push has a generation no build carried; any new build has a number
\* greater than all others.
LEMMA OrderStep ==
    TypeOK /\ RowsInv /\ HookInv /\ NumbersFollowGenerations /\ [Next]_vars
        => NumbersFollowGenerations'
<1> SUFFICES ASSUME TypeOK, RowsInv, HookInv, NumbersFollowGenerations,
                    [Next]_vars, NEW q \in Projects,
                    NEW w \in PushesOf(q)', NEW x \in BuildsOf(q)',
                    x # w, x.generation >= w.generation
             PROVE  x.number > w.number
    BY DEF NumbersFollowGenerations
<1>1. CASE w \in builds /\ x \in builds
    BY <1>1 DEF NumbersFollowGenerations, PushesOf, BuildsOf
<1>2. ASSUME NEW p \in Projects, NEW b \in BuildRows, NEW r \in ProjectRows,
             PushAdded(p, b, r) \/ ClickAdded(p, b, r),
             ~(w \in builds /\ x \in builds)
      PROVE  x.number > w.number
    <2> Added(p, b, r)
        BY <1>2 DEF PushAdded, ClickAdded
    <2>1. /\ w \in builds \cup {b} /\ x \in builds \cup {b}
          /\ w.project = q /\ x.project = q /\ w.trigger = "webhook_push"
        BY DEF PushesOf, BuildsOf, Added
    <2>2. p = q
        BY <1>2, <2>1 DEF Added
    <2>3. /\ project[p].next \in Nat /\ project[p].generation \in Nat
          /\ b.number = project[p].next + 1
        BY Additions DEF Added
    <2>4. \A y \in builds : y.project = p =>
              /\ y.number \in Nat /\ y.generation \in Nat
              /\ y.generation <= project[p].generation
              /\ y.number <= project[p].next
        BY DEF RowsInv, TypeOK, BuildRows
    <2>5. CASE w = b
        <3>1. w.generation = project[p].generation + 1
            BY <1>2, <2>1, <2>5 DEF PushAdded, ClickAdded
        <3>2. x \in builds
            BY <2>1, <2>5
        <3> QED BY <2>1, <2>2, <2>3, <2>4, <3>1, <3>2
    <2>6. CASE w # b
        <3>1. x = b /\ w \in builds
            BY <1>2, <2>1, <2>6
        <3> QED BY <2>1, <2>2, <2>3, <2>4, <3>1
    <2> QED BY <2>5, <2>6
<1>3. CASE builds' \subseteq builds
    BY <1>1, <1>3 DEF PushesOf, BuildsOf
<1> QED BY <1>1, <1>2, <1>3, NewBuilds

LEMMA RowsStep == TypeOK /\ RowsInv /\ HookInv /\ [Next]_vars => RowsInv'
<1> SUFFICES ASSUME TypeOK, RowsInv, HookInv, [Next]_vars PROVE RowsInv'
    OBVIOUS
<1> TypeOK'
    BY TypeStep
<1>1. IsFiniteSet(builds')
    <2>1. \A b : IsFiniteSet(builds \cup {b})
        BY FS_AddElement DEF RowsInv
    <2> QED BY <2>1, NewBuilds, FS_Subset
            DEF RowsInv, PushAdded, ClickAdded, Added
<1>2. ASSUME NEW x \in builds'
      PROVE  /\ project'[x.project].exists
             /\ x.generation <= project'[x.project].generation
             /\ x.number <= project'[x.project].next
    <2>1. ASSUME NEW p \in Projects, NEW b \in BuildRows,
                 NEW r \in ProjectRows, PushAdded(p, b, r) \/ ClickAdded(p, b, r)
          PROVE  /\ project'[x.project].exists
                 /\ x.generation <= project'[x.project].generation
                 /\ x.number <= project'[x.project].next
        <3> Added(p, b, r)
            BY <2>1 DEF PushAdded, ClickAdded
        <3>1. /\ project'[p] = r
              /\ \A q \in Projects \ {p} : project'[q] = project[q]
              /\ project[p].next \in Nat /\ project[p].generation \in Nat
              /\ r.next \in Nat /\ r.generation \in Nat
            BY Additions
        <3>2. r.exists /\ r.next = project[p].next + 1
              /\ r.generation \in {project[p].generation,
                                   project[p].generation + 1}
            BY <2>1 DEF PushAdded, ClickAdded, Added
        <3>3. CASE x = b
            <4>1. b.project = p /\ b.number = r.next /\ b.generation \in Nat
                  /\ b.generation <= r.generation
                BY <2>1, <3>1 DEF PushAdded, ClickAdded, Added, BuildRows
            <4> QED BY <3>1, <3>2, <3>3, <4>1
        <3>4. CASE x \in builds
            <4>1. /\ x.project \in Projects
                  /\ x.generation \in Nat /\ x.number \in Nat
                  /\ project[x.project].exists
                  /\ x.generation <= project[x.project].generation
                  /\ x.number <= project[x.project].next
                BY <3>4 DEF TypeOK, BuildRows, RowsInv
            <4>2. CASE x.project = p
                BY <3>1, <3>2, <4>1, <4>2
            <4>3. CASE x.project # p
                BY <3>1, <4>1, <4>3
            <4> QED BY <4>2, <4>3
        <3> QED BY <3>3, <3>4 DEF Added
    <2>2. ASSUME NEW p \in Projects, ChangeProject(p) \/ DeleteProject(p)
          PROVE  /\ project'[x.project].exists
                 /\ x.generation <= project'[x.project].generation
                 /\ x.number <= project'[x.project].next
        <3>1. x \in builds /\ x.project \in Projects
            BY <2>2 DEF ChangeProject, DeleteProject, TypeOK, BuildRows
        <3>2. CASE ChangeProject(p)
            BY <3>1, <3>2 DEF ChangeProject, RowsInv, TypeOK, ProjectRows
        <3>3. CASE DeleteProject(p)
            BY <3>1, <3>3 DEF DeleteProject, RowsInv, TypeOK, ProjectRows
        <3> QED BY <2>2, <3>2, <3>3
    <2>3. CASE UNCHANGED <<project, builds>>
        BY <2>3 DEF RowsInv
    <2> QED BY <2>1, <2>2, <2>3, TableChanges
<1>3. ASSUME NEW c \in Clicks, click'[c] # NoClick
      PROVE  /\ click'[c].project \in Projects
             /\ click'[c].key \in Keys
             /\ click'[c].generation <= project'[click'[c].project].generation
    <2>1. CASE click'[c] = click[c]
        <3>1. /\ click[c].project \in Projects
              /\ click[c].key \in Keys /\ click[c].generation \in Nat
              /\ click[c].generation <= project[click[c].project].generation
            BY <1>3, <2>1 DEF RowsInv, TypeOK, ClickStates
        <3>2. \A p \in Projects : /\ project[p].generation \in Nat
                                  /\ project'[p].generation \in Nat
            BY DEF TypeOK, ProjectRows
        <3>3. project[click[c].project].generation
                  <= project'[click[c].project].generation
            BY <3>1, CountersGrow
        <3> QED BY <2>1, <3>1, <3>2, <3>3
    <2>2. CASE click'[c] # click[c]
        <3>1. ~UNCHANGED click
            BY <2>2
        <3>2. PICK d \in Clicks : ClickStep(d)
            BY <3>1 DEF Next, vars, HookStep, Receive, Redelivered,
               ReceiveFails, CheckInstallation, ListProjects, ReadFails,
               StoreWebhookBuild, StoreWebhookBuildFails, Finish, FinishFails,
               MarkDeliveryFailed, HookLost, ChangeProject, DeleteProject,
               ChangeInstallation
        <3>3. d = c
            BY <2>2, <3>2 DEF ClickStep, ReadProject, StoreManualBuild,
               ManualBuildFails, TypeOK
        <3>4. PICK p \in Projects, k \in Keys : ReadProject(c, p, k)
            BY <1>3, <3>2, <3>3 DEF ClickStep, StoreManualBuild,
               ManualBuildFails, TypeOK
        <3>5. click'[c] = [project |-> p, key |-> k,
                           generation |-> project[p].generation]
              /\ project' = project
            BY <3>4 DEF ReadProject, TypeOK
        <3>6. project[p].generation \in Nat
            BY DEF TypeOK, ProjectRows
        <3> QED BY <3>5, <3>6
    <2> QED BY <2>1, <2>2
<1> QED BY <1>1, <1>2, <1>3 DEF RowsInv

-----------------------------------------------------------------------------
(* Webhook requests.                                                       *)

\* A build stays as long as its project does.
LEMMA ConflictStays ==
    ASSUME TypeOK, RowsInv, HookInv, [Next]_vars, NEW p \in Projects, NEW o,
           project'[p].exists, Conflict(p, o)
    PROVE  Conflict(p, o)'
<1>1. PICK b \in builds : b.project = p /\ b.origin = o
    BY DEF Conflict
<1>2. ASSUME NEW q \in Projects, DeleteProject(q)
      PROVE  b \in builds'
    <2>1. q # p
        BY <1>2 DEF DeleteProject, TypeOK, ProjectRows
    <2> QED BY <1>1, <1>2, <2>1 DEF DeleteProject
<1>3. b \in builds'
    BY <1>2, TableChanges DEF PushAdded, ClickAdded, Added, ChangeProject
<1> QED BY <1>1, <1>3 DEF Conflict

\* A request nobody interferes with keeps what it knows.
LEMMA HookUndisturbed ==
    ASSUME TypeOK, RowsInv, HookInv, [Next]_vars, NEW c \in Hooks,
           hook'[c] = hook[c],
           wanted' = wanted
               \/ \A dl \in Deliveries :
                      dl = hook[c].delivery => wanted'[dl] = wanted[dl],
           hook[c].at # "idle" =>
               delivery'[hook[c].delivery] \in {"received", "failed"}
    PROVE  HookOK(c)'
<1>1. HookOK(c)
    BY DEF HookInv
<1>2. hook[c].at # "idle" => hook[c].delivery \in Deliveries
    BY <1>1 DEF HookOK, TypeOK, HookStates
<1>3. hook[c].at # "idle" =>
          wanted'[hook[c].delivery] = wanted[hook[c].delivery]
    BY <1>2
<1>4. ASSUME hook[c].at = "building",
             NEW p \in wanted[hook[c].delivery] \ hook[c].todo,
             project'[p].exists
      PROVE  Conflict(p, hook[c].delivery)'
    <2>1. p \in Projects
        BY <1>2, <1>4 DEF TypeOK
    <2>2. Conflict(p, hook[c].delivery)
        BY <1>1, <1>4, <2>1, CountersGrow DEF HookOK
    <2> QED BY <1>4, <2>1, <2>2, ConflictStays
<1>5. hook[c].at = "building" =>
          \A p \in wanted'[hook'[c].delivery] \ hook'[c].todo :
              project'[p].exists => Conflict(p, hook[c].delivery)'
    BY <1>3, <1>4
<1>6. \A p : Conflict(p, hook[c].delivery)' <=> Conflict(p, hook[c].delivery)'
    OBVIOUS
<1> QED BY <1>1, <1>3, <1>5 DEF HookOK, Conflict

LEMMA HooksStep == TypeOK /\ RowsInv /\ HookInv /\ [Next]_vars => HookInv'
<1> SUFFICES ASSUME TypeOK, RowsInv, HookInv, [Next]_vars PROVE HookInv'
    OBVIOUS
<1>1. CASE UNCHANGED <<hook, delivery, wanted>>
    <2>1. \A h \in Hooks : HookOK(h)'
        <3> TAKE c \in Hooks
        <3>1. hook[c].at # "idle" =>
                  delivery'[hook[c].delivery] \in {"received", "failed"}
            BY <1>1 DEF HookInv, HookOK
        <3> QED BY <1>1, <3>1, HookUndisturbed
    <2> QED BY <1>1, <2>1 DEF HookInv
<1>2. ASSUME NEW h \in Hooks, HookStep(h) PROVE HookInv'
    <2> DEFINE d == hook[h].delivery
    <2>1. /\ HookOK(h) /\ hook[h] \in HookStates
          /\ hook[h].at # "idle" => d \in Deliveries /\ d # None
        BY DEF HookInv, HookOK, TypeOK, HookStates
    \* The delivery of another request is another one.
    <2>2. ASSUME NEW c \in Hooks, c # h, hook[c].at # "idle"
          PROVE  /\ hook[c].delivery \in Deliveries /\ hook[c].delivery # d
                 /\ delivery[hook[c].delivery] \in {"received", "failed"}
        BY <2>2 DEF HookInv, HookOK, TypeOK, HookStates
    \* It suffices to look at h and at the delivery it changes.
    <2>3. ASSUME NEW x \in Deliveries,
                 \A c \in Hooks \ {h} :
                     /\ hook'[c] = hook[c]
                     /\ hook[c].at # "idle" => hook[c].delivery # x,
                 \A y \in Deliveries \ {x} :
                     delivery'[y] = delivery[y] /\ wanted'[y] = wanted[y],
                 delivery'[x] = "none" => wanted'[x] = {},
                 HookOK(h)', hook'[h].delivery \in {x, None}
          PROVE  HookInv'
        <3>1. ASSUME NEW c \in Hooks PROVE HookOK(c)'
            <4>1. CASE c = h
                BY <2>3, <4>1
            <4>2. CASE c # h
                <5>1. hook[c].at # "idle" =>
                          /\ hook[c].delivery \in Deliveries \ {x}
                          /\ delivery[hook[c].delivery] \in {"received", "failed"}
                    BY <2>2, <2>3, <4>2
                <5>2. hook[c].at # "idle" =>
                          delivery'[hook[c].delivery] \in {"received", "failed"}
                    BY <2>3, <5>1
                <5>3. hook[c].at = "idle" => hook[c].delivery \notin Deliveries
                    BY DEF HookInv, HookOK
                <5>4. \A y \in Deliveries :
                          y = hook[c].delivery => wanted'[y] = wanted[y]
                    BY <2>3, <5>1, <5>3
                <5> QED BY <2>3, <4>2, <5>2, <5>4, HookUndisturbed
            <4> QED BY <4>1, <4>2
        <3>2. ASSUME NEW h1 \in Hooks, NEW h2 \in Hooks,
                     hook'[h1].delivery = hook'[h2].delivery,
                     hook'[h1].at # "idle"
              PROVE  h1 = h2
            <4>1. hook'[h1].delivery # None /\ hook'[h2].at # "idle"
                BY <3>1, <3>2 DEF HookOK
            <4>2. CASE h1 = h \/ h2 = h
                BY <2>3, <3>2, <4>1, <4>2
            <4>3. CASE h1 # h /\ h2 # h
                BY <2>3, <3>2, <4>3 DEF HookInv
            <4> QED BY <4>2, <4>3
        <3>3. \A dl \in Deliveries : delivery'[dl] = "none" => wanted'[dl] = {}
            BY <2>3 DEF HookInv
        <3> QED BY <3>1, <3>2, <3>3 DEF HookInv
    <2>4. ASSUME NEW dl \in Deliveries, Receive(h, dl) PROVE HookInv'
        <3>1. /\ hook'[h].at = "received" /\ hook'[h].delivery = dl
              /\ hook'[h].todo = {} /\ delivery'[dl] = "received"
              /\ wanted'[dl] = {} /\ dl # None
            BY <2>1, <2>4 DEF Receive, HookOK, HookInv, HookStates, TypeOK
        <3>2. HookOK(h)'
            BY <3>1 DEF HookOK
        <3>3. \A c \in Hooks \ {h} : /\ hook'[c] = hook[c]
                                     /\ hook[c].at # "idle" =>
                                            hook[c].delivery # dl
            BY <2>2, <2>4 DEF Receive, TypeOK
        <3>4. \A y \in Deliveries \ {dl} :
                  delivery'[y] = delivery[y] /\ wanted'[y] = wanted[y]
            BY <2>4 DEF Receive, TypeOK
        <3> QED BY <2>3, <3>1, <3>2, <3>3, <3>4
    <2>5. ASSUME NEW dl \in Deliveries, Redelivered(h, dl) PROVE HookInv'
        BY <1>1, <2>5 DEF Redelivered
    <2>6. ASSUME NEW dl \in Deliveries, ReceiveFails(h, dl) PROVE HookInv'
        <3>1. /\ hook' = hook /\ wanted' = wanted
              /\ \A y \in Deliveries :
                     /\ delivery'[y] \in {delivery[y], "failed", "received"}
                     /\ delivery[y] # "none" =>
                            delivery'[y] \in {delivery[y], "failed"}
                     /\ delivery'[y] = "none" => delivery[y] = "none"
            BY <2>6 DEF ReceiveFails, TypeOK
        <3>2. ASSUME NEW c \in Hooks PROVE HookOK(c)'
            <4>1. hook[c].at # "idle" =>
                      delivery'[hook[c].delivery] \in {"received", "failed"}
                BY <2>1, <2>2, <3>1 DEF HookOK
            <4> QED BY <3>1, <4>1, HookUndisturbed
        <3> QED BY <3>1, <3>2 DEF HookInv
    \* From here on the request has a delivery.
    <2>7. ASSUME hook[h].at # "idle",
                 \A c \in Hooks \ {h} : hook'[c] = hook[c],
                 \A y \in Deliveries \ {d} :
                     delivery'[y] = delivery[y] /\ wanted'[y] = wanted[y],
                 delivery'[d] # "none",
                 HookOK(h)', hook'[h].delivery \in {d, None}
          PROVE  HookInv'
        BY <2>1, <2>2, <2>3, <2>7
    <2>8. ASSUME hook'[h] = NoHook PROVE HookOK(h)'
        BY <2>8 DEF HookOK, NoHook
    <2>9. CASE CheckInstallation(h)
        <3>1. /\ hook'[h].at \in {"checked", "building"}
              /\ hook'[h].delivery = d /\ hook'[h].todo = {}
              /\ delivery' = delivery /\ wanted' = wanted /\ wanted[d] = {}
              /\ hook[h].at = "received"
            BY <2>1, <2>9 DEF CheckInstallation, HookOK, HookStates, TypeOK
        <3>2. HookOK(h)'
            BY <2>1, <3>1 DEF HookOK
        <3> QED BY <2>1, <2>7, <2>9, <3>1, <3>2
                DEF CheckInstallation, HookOK, TypeOK
    <2>10. CASE ListProjects(h)
        <3> DEFINE E == {p \in Projects : project[p].exists /\ project[p].eligible}
        <3>1. /\ hook[h].at = "checked" /\ delivery' = delivery
              /\ hook' = [hook EXCEPT ![h] = [hook[h] EXCEPT !.at = "building",
                                                             !.todo = E]]
              /\ wanted' = [wanted EXCEPT ![d] = E]
            BY <2>10 DEF ListProjects
        <3> HIDE DEF E
        <3>2. hook'[h].at = "building" /\ hook'[h].delivery = d
              /\ hook'[h].todo = E
            BY <2>1, <3>1 DEF HookStates, TypeOK
        <3>3. wanted'[d] = E
            BY <2>1, <3>1 DEF TypeOK
        <3>4. HookOK(h)'
            BY <2>1, <3>1, <3>2, <3>3 DEF HookOK
        <3> QED BY <2>1, <2>7, <3>1, <3>2, <3>4 DEF HookOK, TypeOK
    <2>11. CASE ReadFails(h)
        <3>1. /\ hook[h].at \in {"received", "checked"}
              /\ hook'[h].at = "failing" /\ hook'[h].delivery = d
              /\ hook'[h].todo = {}
              /\ delivery' = delivery /\ wanted' = wanted
            BY <2>1, <2>11 DEF ReadFails, HookOK, HookStates, TypeOK
        <3>2. HookOK(h)'
            BY <2>1, <3>1 DEF HookOK
        <3> QED BY <2>1, <2>7, <2>11, <3>1, <3>2 DEF ReadFails, HookOK, TypeOK
    <2>12. ASSUME NEW p \in Projects, StoreWebhookBuild(h, p) PROVE HookInv'
        <3>1. /\ hook[h].at = "building" /\ hook'[h].at = "building"
              /\ hook'[h].delivery = d /\ hook'[h].todo = hook[h].todo \ {p}
              /\ delivery' = delivery /\ wanted' = wanted
            BY <2>1, <2>12 DEF StoreWebhookBuild, HookStates, TypeOK
        <3>2. Conflict(p, d)'
            <4>1. \/ Conflict(p, d) /\ builds' = builds
                  \/ PushBuild(p, d) \in builds'
                BY <2>12 DEF StoreWebhookBuild, Store, PushBuild
            <4>2. PushBuild(p, d).project = p /\ PushBuild(p, d).origin = d
                BY DEF PushBuild
            <4>3. \E b \in builds' : b.project = p /\ b.origin = d
                BY <4>1, <4>2 DEF Conflict
            <4> QED BY <3>1, <4>3 DEF Conflict
        <3>3. ASSUME NEW q \in wanted'[d] \ hook'[h].todo, project'[q].exists
              PROVE  Conflict(q, d)'
            <4>1. q \in Projects
                BY <2>1, <3>1, <3>3 DEF TypeOK
            <4>2. CASE q = p
                BY <3>2, <4>2
            <4>3. CASE q # p
                <5>1. Conflict(q, d)
                    BY <2>1, <3>1, <3>3, <4>1, <4>3, CountersGrow DEF HookOK
                <5> QED BY <3>1, <3>3, <4>1, <5>1, ConflictStays DEF Conflict
            <4> QED BY <4>2, <4>3
        <3>4. HookOK(h)'
            BY <2>1, <3>1, <3>3 DEF HookOK, Conflict
        <3> QED BY <2>1, <2>7, <2>12, <3>1, <3>4
                DEF StoreWebhookBuild, HookOK, TypeOK
    <2>13. ASSUME NEW p \in Projects, StoreWebhookBuildFails(h, p)
           PROVE  HookInv'
        <3>1. /\ hook[h].at = "building" /\ hook'[h].at = "failing"
              /\ hook'[h].delivery = d /\ hook'[h].todo = {}
              /\ delivery' = delivery /\ wanted' = wanted
            BY <2>1, <2>13 DEF StoreWebhookBuildFails, HookStates, TypeOK
        <3>2. HookOK(h)'
            BY <2>1, <3>1 DEF HookOK
        <3> QED BY <2>1, <2>7, <2>13, <3>1, <3>2
                DEF StoreWebhookBuildFails, HookOK, TypeOK
    <2>14. CASE Finish(h) \/ FinishFails(h) \/ MarkDeliveryFailed(h)
        <3>1. /\ hook[h].at # "idle" /\ hook' = [hook EXCEPT ![h] = NoHook]
              /\ wanted' = wanted
              /\ delivery' = delivery
                    \/ \E st \in {"accepted", "failed"} :
                           delivery' = [delivery EXCEPT ![d] = st]
            BY <2>14 DEF Finish, FinishFails, MarkDeliveryFailed
        <3>2. hook'[h] = NoHook /\ NoHook.delivery = None
            BY <3>1 DEF TypeOK, NoHook
        <3> QED BY <2>1, <2>7, <2>8, <3>1, <3>2 DEF HookOK, TypeOK
    <2>15. CASE HookLost(h)
        <3>1. /\ hook[h].at # "idle" /\ hook' = [hook EXCEPT ![h] = NoHook]
              /\ wanted' = wanted /\ delivery' = delivery
            BY <2>15 DEF HookLost
        <3>2. hook'[h] = NoHook /\ NoHook.delivery = None
            BY <3>1 DEF TypeOK, NoHook
        <3> QED BY <2>1, <2>7, <2>8, <3>1, <3>2 DEF HookOK, TypeOK
    <2> QED BY <1>2, <2>4, <2>5, <2>6, <2>9, <2>10, <2>11, <2>12, <2>13, <2>14,
            <2>15 DEF HookStep
<1>3. ASSUME NEW c \in Clicks, ClickStep(c)
      PROVE  UNCHANGED <<hook, delivery, wanted>>
    BY <1>3 DEF ClickStep, ReadProject, StoreManualBuild, ManualBuildFails
<1>4. CASE UNCHANGED vars \/ ChangeInstallation
           \/ \E p \in Projects : ChangeProject(p) \/ DeleteProject(p)
    BY <1>1, <1>4 DEF vars, ChangeInstallation, ChangeProject, DeleteProject
<1> QED BY <1>1, <1>2, <1>3, <1>4 DEF Next

\* Only Finish marks a delivery accepted, when nothing is left to build.
LEMMA AcceptedStep ==
    TypeOK /\ RowsInv /\ HookInv /\ AcceptedIsComplete /\ [Next]_vars
        => AcceptedIsComplete'
<1> SUFFICES ASSUME TypeOK, RowsInv, HookInv, AcceptedIsComplete, [Next]_vars,
                    NEW dl \in Deliveries, delivery'[dl] = "accepted",
                    NEW p \in wanted'[dl], project'[p].exists
             PROVE  Conflict(p, dl)'
    BY DEF AcceptedIsComplete, Conflict
<1> TypeOK'
    BY TypeStep
<1> p \in Projects
    BY DEF TypeOK
<1>1. CASE delivery[dl] = "accepted" /\ wanted'[dl] = wanted[dl]
    <2>1. Conflict(p, dl)
        BY <1>1, CountersGrow DEF AcceptedIsComplete
    <2> QED BY <2>1, ConflictStays
<1>2. ASSUME NEW h \in Hooks, Finish(h), hook[h].delivery = dl
      PROVE  Conflict(p, dl)'
    <2>1. p \in wanted[dl] /\ hook[h].at = "building" /\ hook[h].todo = {}
        BY <1>2 DEF Finish
    <2>2. Conflict(p, dl)
        BY <1>2, <2>1, CountersGrow DEF HookInv, HookOK
    <2> QED BY <2>2, ConflictStays
<1>3. CASE UNCHANGED <<delivery, wanted>>
    BY <1>1, <1>3
<1>4. ASSUME NEW h \in Hooks, HookStep(h)
      PROVE  Conflict(p, dl)'
    <2>1. CASE Finish(h)
        <3>1. CASE hook[h].delivery = dl
            BY <1>2, <2>1, <3>1
        <3>2. CASE hook[h].delivery # dl
            BY <1>1, <2>1, <3>2 DEF Finish, TypeOK
        <3> QED BY <3>1, <3>2
    <2>2. CASE ListProjects(h)
        <3>1. hook[h].delivery # dl
            BY <2>2 DEF ListProjects, HookInv, HookOK
        <3> QED BY <1>1, <2>2, <3>1 DEF ListProjects, TypeOK
    <2>3. ASSUME NEW x \in Deliveries,
                 Receive(h, x) \/ ReceiveFails(h, x)
          PROVE  Conflict(p, dl)'
        <3>1. delivery[dl] = "accepted" /\ wanted' = wanted
            BY <2>3 DEF Receive, ReceiveFails, TypeOK
        <3> QED BY <1>1, <3>1
    <2>4. CASE MarkDeliveryFailed(h)
        <3>1. delivery[dl] = "accepted" /\ wanted' = wanted
            BY <2>4 DEF MarkDeliveryFailed, TypeOK
        <3> QED BY <1>1, <3>1
    <2> QED BY <1>3, <1>4, <2>1, <2>2, <2>3, <2>4 DEF HookStep, Redelivered,
            CheckInstallation, ReadFails, StoreWebhookBuild,
            StoreWebhookBuildFails, FinishFails, HookLost
<1>5. ASSUME NEW c \in Clicks, ClickStep(c)
      PROVE  UNCHANGED <<delivery, wanted>>
    BY <1>5 DEF ClickStep, ReadProject, StoreManualBuild, ManualBuildFails
<1>6. CASE UNCHANGED vars \/ ChangeInstallation
           \/ \E q \in Projects : ChangeProject(q) \/ DeleteProject(q)
    BY <1>3, <1>6 DEF vars, ChangeInstallation, ChangeProject, DeleteProject
<1> QED BY <1>3, <1>4, <1>5, <1>6 DEF Next

-----------------------------------------------------------------------------

LEMMA InitIInv == Init => IInv
<1> SUFFICES ASSUME Init PROVE IInv
    OBVIOUS
<1>1. TypeOK
    BY DEF Init, TypeOK, InstallationStates, ProjectRows, NoHook, HookStates,
       NoClick, ClickStates
<1>2. RowsInv
    BY FS_EmptySet DEF Init, RowsInv
<1>3. HookInv
    BY DEF Init, HookInv, HookOK, NoHook
<1>4. \A p : BuildsOf(p) = {} /\ PushesOf(p) = {}
    BY DEF Init, BuildsOf, PushesOf
<1>5. /\ OneBuildPerRequest /\ NumberInv /\ NumbersFollowGenerations
      /\ AcceptedIsComplete
    BY <1>4 DEF Init, OneBuildPerRequest, NumberInv, NumbersFollowGenerations,
       AcceptedIsComplete
<1>6. CountersInv
    <2>1. \A p \in Projects : project[p].next = 1
        BY DEF Init
    <2>2. Cardinality({}) = 0 /\ 2..1 = {}
        BY FS_EmptySet
    <2> QED BY <1>4, <2>1, <2>2 DEF CountersInv
<1>7. GenerationsCountPushes
    <2>1. \A p \in Projects : project[p].generation = 0
        BY DEF Init
    <2>2. Cardinality({}) = 0 /\ 1..0 = {}
        BY FS_EmptySet
    <2> QED BY <1>4, <2>1, <2>2 DEF GenerationsCountPushes
<1> QED BY <1>1, <1>2, <1>3, <1>5, <1>6, <1>7 DEF IInv

LEMMA StepIInv == IInv /\ [Next]_vars => IInv'
BY TypeStep, RowsStep, HooksStep, OneStep, NumberStep, NumbersStep,
   GenerationsStep, OrderStep, AcceptedStep DEF IInv

\* The inductive invariant of the builds, for any projects, deliveries, keys
\* and numbers of requests.
THEOREM Inductive == Spec => []IInv
BY InitIInv, StepIInv, PTL DEF Spec

\* Rows, requests and counters stay within their types.
THEOREM TypeCorrect == Spec => []TypeOK
BY Inductive, PTL DEF IInv

\* The unique indexes and the delivery row keep repeated and overlapping
\* requests from building twice.
THEOREM RequestsBuildOnce == Spec => []OneBuildPerRequest
BY Inductive, PTL DEF IInv

\* The build numbers of a project have neither gaps nor repetitions.
THEOREM NumbersStayContiguous == Spec => []NumbersAreContiguous
<1>1. IInv => NumbersAreContiguous
    <2> SUFFICES ASSUME IInv, NEW p \in Projects,
                        NEW b1 \in BuildsOf(p), NEW b2 \in BuildsOf(p)
                 PROVE  /\ b1.number = b2.number => b1 = b2
                        /\ \A n \in b1.number..b2.number :
                              \E b \in BuildsOf(p) : b.number = n
        BY DEF NumbersAreContiguous
    <2>1. b1.number = b2.number => b1 = b2
        BY DEF IInv, NumberInv, BuildsOf
    <2>2. {b.number : b \in BuildsOf(p)} = 2..project[p].next
        BY DEF IInv, RowsInv, CountersInv, BuildsOf
    <2>3. b1.number \in 2..project[p].next /\ b2.number \in 2..project[p].next
        BY <2>2
    <2>4. project[p].next \in Nat
        BY DEF IInv, TypeOK, ProjectRows
    <2>5. ASSUME NEW n \in b1.number..b2.number
          PROVE  \E b \in BuildsOf(p) : b.number = n
        <3>1. n \in 2..project[p].next
            BY <2>3, <2>4, <2>5
        <3> QED BY <2>2, <3>1
    <2> QED BY <2>1, <2>5
<1> QED BY <1>1, Inductive, PTL

\* The generation of a project is the number of its push builds.
THEOREM GenerationsStayExact == Spec => []GenerationsCountPushes
BY Inductive, PTL DEF IInv

\* Numbers order builds as their revisions are ordered.
THEOREM NumbersOrderRevisions == Spec => []NumbersFollowGenerations
BY Inductive, PTL DEF IInv

\* UpdateDeliveryStatus(accepted) is only reached when every listed project
\* has its build.
THEOREM AcceptedMeansBuilt == Spec => []AcceptedIsComplete
BY Inductive, PTL DEF IInv

-----------------------------------------------------------------------------
(* The tables implement module Ledger.                                     *)

\* The builds B of a project as the first m entries of its ledger.
Called(B, n) == CHOOSE b \in B : b.number = n
Listing(B, m) == [n \in 1..m |-> Entry(Called(B, n + 1))]
EntryRows == [origin: Deliveries \cup Keys, generation: Nat]

\* B has exactly one build for each of the numbers 2 to m + 1.
Complete(B, m) ==
    /\ B \subseteq BuildRows
    /\ {b.number : b \in B} = 2..m + 1
    /\ \A x, y \in B : x.number = y.number => x = y

LEMMA ListingOf ==
    ASSUME NEW B, NEW m \in Nat, Complete(B, m)
    PROVE  /\ \A b \in B : Called(B, b.number) = b
           /\ \A n \in 1..m : /\ Called(B, n + 1) \in B
                             /\ Called(B, n + 1).number = n + 1
           /\ Listing(B, m) \in [1..m -> EntryRows]
           /\ Listing(B, m) \in Seq(EntryRows)
           /\ Len(Listing(B, m)) = m
<1>1. ASSUME NEW b \in B PROVE Called(B, b.number) = b
    <2>1. \A x \in B : x.number = b.number <=> x = b
        BY DEF Complete
    <2> QED BY <2>1 DEF Called
<1>2. ASSUME NEW n \in 1..m
      PROVE  Called(B, n + 1) \in B /\ Called(B, n + 1).number = n + 1
    <2>1. n + 1 \in 2..m + 1
        OBVIOUS
    <2>2. PICK b \in B : b.number = n + 1
        BY <2>1 DEF Complete
    <2> QED BY <1>1, <2>2
<1>3. \A b \in B : Entry(b) \in EntryRows
    BY DEF Complete, BuildRows, Entry, EntryRows
<1>4. Listing(B, m) \in [1..m -> EntryRows]
    BY <1>2, <1>3 DEF Listing
<1>5. Listing(B, m) \in Seq(EntryRows)
    BY <1>4, SeqDef
<1>6. Len(Listing(B, m)) = m
    <2>1. 1..Len(Listing(B, m)) = 1..m /\ Len(Listing(B, m)) \in Nat
        BY <1>4, <1>5, LenProperties
    <2> QED BY <2>1
<1> QED BY <1>1, <1>2, <1>4, <1>5, <1>6

LEMMA ListingGrows ==
    ASSUME NEW B, NEW m \in Nat, Complete(B, m), NEW b \in BuildRows,
           b.number = m + 2, Complete(B \cup {b}, m + 1)
    PROVE  Listing(B \cup {b}, m + 1) = Append(Listing(B, m), Entry(b))
<1> DEFINE old == Listing(B, m)
           new == Listing(B \cup {b}, m + 1)
<1>1. new \in Seq(EntryRows) /\ Len(new) = m + 1
    BY ListingOf
<1>2. /\ old \in Seq(EntryRows) /\ Len(old) = m
      /\ \A n \in 1..m : Called(B, n + 1) \in B /\ Called(B, n + 1).number = n + 1
    BY ListingOf
<1>3. \A x \in B \cup {b} : Called(B \cup {b}, x.number) = x
    BY ListingOf
<1>4. Entry(b) \in EntryRows
    BY DEF BuildRows, Entry, EntryRows
<1>5. /\ Append(old, Entry(b)) \in Seq(EntryRows)
      /\ Len(Append(old, Entry(b))) = m + 1
      /\ \A n \in 1..m : Append(old, Entry(b))[n] = old[n]
      /\ Append(old, Entry(b))[m + 1] = Entry(b)
    BY <1>2, <1>4, AppendProperties
<1>6. ASSUME NEW n \in 1..m + 1
      PROVE  new[n] = Append(old, Entry(b))[n]
    <2>1. new[n] = Entry(Called(B \cup {b}, n + 1))
        BY DEF Listing
    <2>2. CASE n = m + 1
        <3>1. n + 1 = b.number
            BY <2>2
        <3>2. Called(B \cup {b}, b.number) = b
            BY <1>3
        <3> QED BY <1>5, <2>1, <2>2, <3>1, <3>2
    <2>3. CASE n # m + 1
        <3>1. n \in 1..m
            BY <2>3
        <3>2. Called(B \cup {b}, n + 1) = Called(B, n + 1)
            BY <1>2, <1>3, <3>1
        <3>3. old[n] = Entry(Called(B, n + 1))
            BY <3>1 DEF Listing
        <3> QED BY <1>5, <2>1, <3>1, <3>2, <3>3
    <2> QED BY <2>2, <2>3
<1> HIDE DEF old, new
<1>7. new = Append(old, Entry(b))
    BY <1>1, <1>5, <1>6, SeqEqual
<1> QED BY <1>7 DEF old, new

Book == [p \in Projects |-> Entries(p)]
Revisions == [p \in Projects |-> project[p].generation]
Phases == [dl \in Deliveries |-> Phase(dl)]

LEMMA BuildsAreComplete ==
    ASSUME IInv, NEW p \in Projects, project[p].exists
    PROVE  /\ project[p].next - 1 \in Nat
           /\ Complete(BuildsOf(p), project[p].next - 1)
           /\ Entries(p) = Listing(BuildsOf(p), project[p].next - 1)
<1> USE DEF IInv
<1>1. project[p].next \in Nat
    BY DEF TypeOK, ProjectRows
<1>2. project[p].next - 1 \in Nat
    BY BuildsFinite DEF CountersInv
<1>3. {b.number : b \in BuildsOf(p)} = 2..(project[p].next - 1) + 1
    BY <1>1 DEF CountersInv
<1>4. BuildsOf(p) \subseteq BuildRows
    BY DEF TypeOK, BuildsOf
<1>5. \A x, y \in BuildsOf(p) : x.number = y.number => x = y
    BY DEF NumberInv, BuildsOf
<1> QED BY <1>2, <1>3, <1>4, <1>5
        DEF Complete, Entries, Listing, Called, Numbered

LEMMA EntriesOf ==
    ASSUME IInv, NEW p \in Projects
    PROVE  /\ Entries(p) \in Seq(EntryRows)
           /\ \A n \in 1..Len(Entries(p)) :
                  \E b \in BuildsOf(p) : Entries(p)[n] = Entry(b)
<1>1. CASE project[p].exists
    <2> DEFINE m == project[p].next - 1
               B == BuildsOf(p)
    <2>1. m \in Nat /\ Complete(B, m) /\ Entries(p) = Listing(B, m)
        BY <1>1, BuildsAreComplete
    <2> HIDE DEF m, B
    <2>2. /\ Listing(B, m) \in Seq(EntryRows) /\ Len(Listing(B, m)) = m
          /\ \A n \in 1..m : Called(B, n + 1) \in B
        BY <2>1, ListingOf
    <2>3. \A n \in 1..m : Listing(B, m)[n] = Entry(Called(B, n + 1))
        BY DEF Listing
    <2> QED BY <2>1, <2>2, <2>3 DEF B
<1>2. CASE ~project[p].exists
    BY <1>2, EmptySeq DEF Entries
<1> QED BY <1>1, <1>2

LEMMA EntriesStay ==
    ASSUME NEW p, project'[p].exists = project[p].exists,
           project'[p].next = project[p].next, BuildsOf(p)' = BuildsOf(p)
    PROVE  Entries(p)' = Entries(p)
<1>1. Entries(p) = IF project[p].exists
                   THEN Listing(BuildsOf(p), project[p].next - 1) ELSE <<>>
    BY DEF Entries, Numbered, Listing, Called
<1>2. Entries(p)' = IF project'[p].exists
                    THEN Listing(BuildsOf(p)', project'[p].next - 1) ELSE <<>>
    BY DEF Entries, Numbered, Listing, Called
<1> QED BY <1>1, <1>2

\* A build that no unique index refuses has an origin the ledger lacks, and
\* becomes its next entry.
LEMMA BookAdded ==
    ASSUME IInv, IInv', NEW p \in Projects, NEW b \in BuildRows,
           NEW r \in ProjectRows, Added(p, b, r)
    PROVE  /\ Book' = [Book EXCEPT ![p] = Append(@, Entry(b))]
           /\ Kept' = Kept /\ p \in Kept
           /\ \A n \in 1..Len(Book[p]) : Book[p][n].origin # b.origin
<1> USE DEF IInv
<1>1. /\ project'[p] = r /\ BuildsOf(p)' = BuildsOf(p) \cup {b}
      /\ \A q \in Projects \ {p} :
             project'[q] = project[q] /\ BuildsOf(q)' = BuildsOf(q)
    BY Additions
<1>2. /\ project[p].exists /\ r.exists = project[p].exists
      /\ ~Conflict(p, b.origin) /\ b.number = r.next
      /\ r.next = project[p].next + 1
    BY DEF Added
<1>3. Kept' = Kept /\ p \in Kept
    BY <1>1, <1>2 DEF Kept
<1>4. ASSUME NEW n \in 1..Len(Book[p])
      PROVE  Book[p][n].origin # b.origin
    <2>1. Book[p] = Entries(p)
        BY DEF Book
    <2>2. PICK x \in BuildsOf(p) : Book[p][n] = Entry(x)
        BY <2>1, EntriesOf
    <2>3. x.origin # b.origin
        BY <1>2 DEF Conflict, BuildsOf
    <2> QED BY <2>2, <2>3 DEF Entry
<1>5. ASSUME NEW q \in Projects \ {p}
      PROVE  Entries(q)' = Entries(q)
    BY <1>1, EntriesStay
<1>6. Entries(p)' = Append(Entries(p), Entry(b))
    <2> DEFINE m == project[p].next - 1
    <2>1. /\ m \in Nat /\ Complete(BuildsOf(p), m)
          /\ Entries(p) = Listing(BuildsOf(p), m)
        BY <1>2, BuildsAreComplete
    <2>2. b.number = m + 2 /\ r.next = m + 2 /\ r.next - 1 = m + 1
        <3>1. project[p].next \in Nat
            BY Additions
        <3> QED BY <1>2, <3>1
    <2>3. Entries(p)' = Listing(BuildsOf(p) \cup {b}, m + 1)
        <3>1. Entries(p)' = Listing(BuildsOf(p)', project'[p].next - 1)
            BY <1>1, <1>2 DEF Entries, Numbered, Listing, Called
        <3> QED BY <1>1, <2>2, <3>1
    <2>4. Complete(BuildsOf(p) \cup {b}, m + 1)
        <3>1. \A x, y \in BuildsOf(p)' : x.number = y.number => x = y
            BY DEF NumberInv, BuildsOf
        <3>2. {x.number : x \in BuildsOf(p)'} = 2..(m + 1) + 1
            <4>1. {x.number : x \in BuildsOf(p)'} = 2..project'[p].next
                BY <1>1, <1>2 DEF CountersInv
            <4>2. project'[p].next = (m + 1) + 1
                BY <1>1, <2>1, <2>2
            <4> QED BY <4>1, <4>2
        <3>3. BuildsOf(p) \cup {b} \subseteq BuildRows
            BY <2>1 DEF Complete
        <3> QED BY <1>1, <3>1, <3>2, <3>3 DEF Complete
    <2> HIDE DEF m
    <2> QED BY <2>1, <2>2, <2>3, <2>4, ListingGrows
<1>7. Book' = [Book EXCEPT ![p] = Append(@, Entry(b))]
    BY <1>5, <1>6 DEF Book
<1> QED BY <1>3, <1>4, <1>7

LEMMA TablesStay ==
    ASSUME UNCHANGED <<project, builds>>
    PROVE  UNCHANGED <<Book, Revisions, Kept>>
<1>1. \A p \in Projects : Entries(p)' = Entries(p)
    BY EntriesStay DEF BuildsOf
<1> QED BY <1>1 DEF Book, Revisions, Kept

LEMMA PhasesStay ==
    ASSUME delivery' = delivery,
           \A h \in Hooks : hook'[h].delivery = hook[h].delivery
    PROVE  Phases' = Phases
BY DEF Phases, Phase

\* A delivery changes its phase when one request takes it or lets it go.
LEMMA PhaseMoves ==
    ASSUME NEW dl \in Deliveries,
           \A y \in Deliveries \ {dl} :
               /\ delivery'[y] = "none" <=> delivery[y] = "none"
               /\ \A h \in Hooks :
                      hook'[h].delivery = y <=> hook[h].delivery = y
    PROVE  Phases' = [Phases EXCEPT ![dl] = Phase(dl)']
<1>1. \A y \in Deliveries \ {dl} : Phase(y)' = Phase(y)
    BY DEF Phase
<1> QED BY <1>1 DEF Phases

LEMMA InitRecord == Init => Record!Init
<1> SUFFICES ASSUME Init PROVE Record!Init
    OBVIOUS
<1>1. Kept = Projects
    BY DEF Init, Kept
<1>2. Book = [p \in Projects |-> <<>>]
    <2>1. ASSUME NEW p \in Projects PROVE Entries(p) = <<>>
        <3>1. project[p].exists /\ project[p].next - 1 = 0
            BY DEF Init
        <3>2. Entries(p) = [n \in 1..0 |-> Entry(Numbered(p, n + 1))]
            BY <3>1 DEF Entries
        <3> QED BY <3>2, EmptySeq
    <2> QED BY <2>1 DEF Book
<1>3. Revisions = [p \in Projects |-> 0]
    BY DEF Init, Revisions
<1>4. Phases = [dl \in Deliveries |-> "new"]
    BY DEF Init, Phases, Phase
<1> QED BY <1>1, <1>2, <1>3, <1>4
        DEF Init, Record!Init, Book, Revisions, Phases

\* What is between a delivery and the request that handles it.
LEMMA Holders ==
    ASSUME IInv, NEW h \in Hooks
    PROVE  LET d == hook[h].delivery IN
           /\ hook[h] \in HookStates
           /\ hook[h].at = "idle" <=> d = None
           /\ hook[h].at # "idle" =>
                  /\ d \in Deliveries /\ delivery[d] # "none" /\ d # None
                  /\ Phase(d) = "open" /\ hook[h].todo \subseteq wanted[d]
                  /\ \A c \in Hooks : hook[c].delivery = d => c = h
<1> DEFINE d == hook[h].delivery
<1>1. hook[h] \in HookStates
    BY DEF IInv, TypeOK
<1>2. hook[h].at = "idle" <=> d = None
    BY DEF IInv, HookInv, HookOK
<1>3. ASSUME hook[h].at # "idle"
      PROVE  /\ d \in Deliveries /\ delivery[d] # "none" /\ d # None
             /\ hook[h].todo \subseteq wanted[d]
             /\ \A c \in Hooks : hook[c].delivery = d => c = h
    BY <1>1, <1>2, <1>3 DEF IInv, HookInv, HookOK, HookStates
<1> QED BY <1>1, <1>2, <1>3 DEF Phase

LEMMA HooksKeepRecord ==
    ASSUME IInv, IInv', NEW h \in Hooks, HookStep(h)
    PROVE  [Record!Next]_Record!vars
<1> DEFINE d == hook[h].delivery
<1>1. /\ hook \in [Hooks -> HookStates]
      /\ delivery \in [Deliveries -> {"none", "received", "accepted", "failed"}]
    BY DEF IInv, TypeOK
<1>2. ASSUME UNCHANGED <<project, builds, wanted>>, Phases' = Phases
      PROVE  UNCHANGED Record!vars
    BY <1>2, TablesStay DEF Record!vars, Book, Revisions, Phases
<1>3. ASSUME UNCHANGED <<project, builds, wanted>>, NEW dl \in Deliveries,
             Phase(dl) # "closed", Phase(dl)' = "closed",
             Phases' = [Phases EXCEPT ![dl] = Phase(dl)']
      PROVE  Record!Next
    <2>1. Record!Close(dl)
        BY <1>3, TablesStay DEF Record!Close, Book, Revisions, Phases
    <2> QED BY <2>1 DEF Record!Next
\* The request takes or keeps its delivery.
<1>4. ASSUME NEW dl \in Deliveries, Receive(h, dl)
      PROVE  Record!Next
    <2>1. /\ delivery[dl] = "none" /\ hook[h].at = "idle"
          /\ delivery' = [delivery EXCEPT ![dl] = "received"]
          /\ hook'[h].delivery = dl
          /\ \A c \in Hooks \ {h} : hook'[c] = hook[c]
          /\ UNCHANGED <<project, builds, wanted>>
        BY <1>1, <1>4 DEF Receive, HookStates
    <2>2. d \notin Deliveries
        BY <2>1, Holders
    <2>3. Phases' = [Phases EXCEPT ![dl] = Phase(dl)']
        BY <1>1, <2>1, <2>2, PhaseMoves
    <2>4. Phase(dl) = "new" /\ Phase(dl)' = "open"
        BY <1>1, <2>1 DEF Phase
    <2>5. Record!Open(dl)
        BY <2>1, <2>3, <2>4, TablesStay
           DEF Record!Open, Book, Revisions, Phases
    <2> QED BY <2>5 DEF Record!Next
<1>5. ASSUME NEW dl \in Deliveries, Redelivered(h, dl)
      PROVE  UNCHANGED Record!vars
    BY <1>2, <1>5, PhasesStay DEF Redelivered
<1>6. ASSUME NEW dl \in Deliveries, ReceiveFails(h, dl)
      PROVE  [Record!Next]_Record!vars
    <2>1. /\ delivery'[dl] # "none" /\ hook' = hook
          /\ \A y \in Deliveries \ {dl} : delivery'[y] = delivery[y]
          /\ UNCHANGED <<project, builds, wanted>>
        BY <1>1, <1>6 DEF ReceiveFails
    <2>2. Phases' = [Phases EXCEPT ![dl] = Phase(dl)']
        BY <2>1, PhaseMoves
    <2>3. CASE delivery[dl] = "none"
        <3>1. \A c \in Hooks : hook[c].delivery # dl
            BY <2>3, Holders
        <3>2. Phase(dl) = "new" /\ Phase(dl)' = "closed"
            BY <2>1, <2>3, <3>1 DEF Phase
        <3> QED BY <1>3, <2>1, <2>2, <3>2
    <2>4. CASE delivery[dl] # "none"
        <3>1. Phase(dl)' = Phase(dl)
            BY <2>1, <2>4 DEF Phase
        <3>2. Phases' = Phases
            BY <2>2, <3>1 DEF Phases
        <3> QED BY <1>2, <2>1, <3>2
    <2> QED BY <2>3, <2>4
<1>7. CASE CheckInstallation(h) \/ ReadFails(h)
    <2>1. /\ \A c \in Hooks : hook'[c].delivery = hook[c].delivery
          /\ delivery' = delivery /\ UNCHANGED <<project, builds, wanted>>
        BY <1>1, <1>7 DEF CheckInstallation, ReadFails, HookStates
    <2> QED BY <1>2, <2>1, PhasesStay
<1>8. CASE ListProjects(h)
    <2> DEFINE E == {p \in Projects : project[p].exists /\ project[p].eligible}
    <2>1. /\ hook[h].at = "checked" /\ delivery' = delivery
          /\ hook' = [hook EXCEPT ![h] = [hook[h] EXCEPT !.at = "building",
                                                         !.todo = E]]
          /\ wanted' = [wanted EXCEPT ![d] = E]
          /\ UNCHANGED <<project, builds>>
        BY <1>8 DEF ListProjects
    <2>2. E \in SUBSET Kept
        BY DEF Kept
    <2> HIDE DEF E
    <2>3. \A c \in Hooks : hook'[c].delivery = hook[c].delivery
        BY <1>1, <2>1 DEF HookStates
    <2>4. d \in Deliveries /\ Phase(d) = "open" /\ wanted[d] = {}
        BY <2>1, Holders DEF IInv, HookInv, HookOK
    <2>5. Record!List(d)
        BY <2>1, <2>2, <2>3, <2>4, TablesStay, PhasesStay
           DEF Record!List, Book, Revisions, Phases
    <2> QED BY <2>4, <2>5 DEF Record!Next
\* It lets the delivery go.
<1>9. CASE Finish(h) \/ FinishFails(h) \/ MarkDeliveryFailed(h) \/ HookLost(h)
    <2>1. /\ hook[h].at # "idle" /\ hook' = [hook EXCEPT ![h] = NoHook]
          /\ delivery' = delivery
                \/ \E st \in {"accepted", "failed"} :
                       delivery' = [delivery EXCEPT ![d] = st]
          /\ UNCHANGED <<project, builds, wanted>>
        BY <1>9 DEF Finish, FinishFails, MarkDeliveryFailed, HookLost
    <2>2. PICK dl \in Deliveries : dl = d
        BY <2>1, Holders
    <2>3. /\ delivery[dl] # "none" /\ Phase(dl) = "open" /\ dl # None
          /\ \A c \in Hooks : hook[c].delivery = dl => c = h
        BY <2>1, <2>2, Holders
    <2>4. /\ hook'[h].delivery = None /\ delivery'[dl] # "none"
          /\ \A c \in Hooks \ {h} : hook'[c] = hook[c]
          /\ \A y \in Deliveries \ {dl} : delivery'[y] = delivery[y]
        BY <1>1, <2>1, <2>2, <2>3 DEF NoHook
    <2>5. Phase(dl)' = "closed"
        BY <2>3, <2>4 DEF Phase
    <2>6. Phases' = [Phases EXCEPT ![dl] = Phase(dl)']
        BY <2>2, <2>3, <2>4, PhaseMoves
    <2> QED BY <1>3, <2>1, <2>3, <2>5, <2>6
\* It stores a build, or tries to.
<1>10. ASSUME NEW p \in Projects,
              StoreWebhookBuild(h, p) \/ StoreWebhookBuildFails(h, p)
       PROVE  [Record!Next]_Record!vars
    <2>1. /\ hook[h].at = "building" /\ p \in hook[h].todo
          /\ \A c \in Hooks : hook'[c].delivery = hook[c].delivery
          /\ delivery' = delivery /\ wanted' = wanted
        BY <1>1, <1>10
           DEF StoreWebhookBuild, StoreWebhookBuildFails, HookStates
    <2>2. Phases' = Phases
        BY <2>1, PhasesStay
    <2>3. UNCHANGED <<project, builds>> \/ PushStored(p, d)
        BY <1>10 DEF StoreWebhookBuild, StoreWebhookBuildFails, StoreFails,
           Store, PushStored, PushBuild
    <2>4. CASE UNCHANGED <<project, builds>>
        BY <1>2, <2>1, <2>2, <2>4
    <2>5. CASE PushStored(p, d)
        <3>1. PICK dl \in Deliveries : dl = d
            BY <2>1, Holders
        <3> DEFINE b == PushBuild(p, dl)
                   r == Pushed(project[p])
        <3>2. b \in BuildRows /\ r \in ProjectRows /\ PushAdded(p, b, r)
            BY <2>5, <3>1, PushIsAdded DEF IInv
        <3>3. b.origin = dl
            BY DEF PushBuild
        <3> HIDE DEF b, r
        <3>4. /\ Added(p, b, r) /\ b.generation = Revisions[p] + 1
              /\ r.generation = Revisions[p] + 1
            BY <3>2 DEF PushAdded, Revisions
        <3>5. /\ Book' = [Book EXCEPT ![p] = Append(@, Entry(b))]
              /\ Kept' = Kept /\ p \in Kept
              /\ \A n \in 1..Len(Book[p]) : Book[p][n].origin # dl
            BY <3>2, <3>3, <3>4, BookAdded
        <3>6. Entry(b) = [origin |-> dl, generation |-> Revisions[p] + 1]
            BY <3>3, <3>4 DEF Entry
        <3>7. Revisions' = [Revisions EXCEPT ![p] = @ + 1]
            <4>1. /\ project'[p] = r
                  /\ \A q \in Projects \ {p} : project'[q] = project[q]
                BY <3>2, <3>4, Additions DEF IInv
            <4> QED BY <3>4, <4>1 DEF Revisions
        <3>8. Phase(dl) = "open" /\ p \in wanted[dl]
            BY <2>1, <3>1, Holders
        <3>9. Record!Push(p, dl)
            BY <2>1, <2>2, <3>5, <3>6, <3>7, <3>8
               DEF Record!Push, Record!Record, Book, Revisions, Phases
        <3>10. Record!Next
            BY <3>9 DEF Record!Next
        <3> QED BY <3>10
    <2> QED BY <2>3, <2>4, <2>5
<1> QED BY <1>4, <1>5, <1>6, <1>7, <1>8, <1>9, <1>10 DEF HookStep

LEMMA ClicksKeepRecord ==
    ASSUME IInv, IInv', NEW c \in Clicks, ClickStep(c)
    PROVE  [Record!Next]_Record!vars
<1>1. /\ UNCHANGED <<delivery, hook, wanted>>
      /\ UNCHANGED <<project, builds>> \/ ClickStored(c)
    BY DEF ClickStep, ReadProject, StoreManualBuild, ManualBuildFails,
       StoreFails, Store, ClickStored, ClickBuild
<1>2. Phases' = Phases
    BY <1>1, PhasesStay
<1>3. CASE UNCHANGED <<project, builds>>
    BY <1>1, <1>2, <1>3, TablesStay DEF Record!vars, Book, Revisions, Phases
<1>4. CASE ClickStored(c)
    <2>1. click[c] # NoClick
        BY <1>4 DEF ClickStored, NoClick
    <2>2. PICK p \in Projects, k \in Keys :
              click[c].project = p /\ click[c].key = k
        BY <2>1 DEF IInv, RowsInv
    <2> DEFINE b == ClickBuild(click[c])
               r == Clicked(project[p])
    <2>3. b \in BuildRows /\ r \in ProjectRows /\ ClickAdded(p, b, r)
        BY <1>4, <2>2, ClickIsAdded DEF IInv
    <2>4. b.origin = k
        BY <2>2 DEF ClickBuild
    <2> HIDE DEF b, r
    <2>5. /\ Added(p, b, r) /\ b.generation \in 0..Revisions[p]
          /\ r.generation = Revisions[p]
        <3>1. b.generation \in Nat /\ project[p].generation \in Nat
            BY <2>3, Additions DEF BuildRows, IInv, ClickAdded
        <3> QED BY <2>3, <3>1 DEF ClickAdded, Revisions
    <2>6. /\ Book' = [Book EXCEPT ![p] = Append(@, Entry(b))]
          /\ Kept' = Kept /\ p \in Kept
          /\ \A n \in 1..Len(Book[p]) : Book[p][n].origin # k
        BY <2>3, <2>4, <2>5, BookAdded
    <2>7. Entry(b) = [origin |-> k, generation |-> b.generation]
        BY <2>4 DEF Entry
    <2>8. Revisions' = Revisions
        <3>1. /\ project'[p] = r
              /\ \A q \in Projects \ {p} : project'[q] = project[q]
            BY <2>3, <2>5, Additions DEF IInv
        <3> QED BY <2>5, <3>1 DEF Revisions
    <2>9. Record!Click(p, k)
        BY <1>1, <1>2, <2>5, <2>6, <2>7, <2>8
           DEF Record!Click, Record!Record, Book, Revisions, Phases
    <2>10. Record!Next
        BY <2>9 DEF Record!Next
    <2> QED BY <2>10
<1> QED BY <1>1, <1>3, <1>4

LEMMA ChangesKeepRecord ==
    ASSUME IInv, IInv', NEW p \in Projects, ChangeProject(p) \/ DeleteProject(p)
    PROVE  [Record!Next]_Record!vars
<1>1. UNCHANGED <<delivery, hook, wanted>>
    BY DEF ChangeProject, DeleteProject
<1>2. Phases' = Phases
    BY <1>1, PhasesStay
<1>3. \A q \in Projects : project[q] \in ProjectRows
    BY DEF IInv, TypeOK
<1>4. CASE ChangeProject(p)
    <2>1. /\ builds' = builds
          /\ project' = [project EXCEPT ![p] = [project[p] EXCEPT
                             !.eligible = ~project[p].eligible]]
        BY <1>4 DEF ChangeProject
    <2>2. \A q \in Projects : /\ project'[q].exists = project[q].exists
                             /\ project'[q].next = project[q].next
                             /\ project'[q].generation = project[q].generation
        BY <1>3, <2>1 DEF IInv, TypeOK, ProjectRows
    <2>3. \A q \in Projects : Entries(q)' = Entries(q)
        BY <2>1, <2>2, EntriesStay DEF BuildsOf
    <2>4. UNCHANGED <<Book, Revisions, Kept>>
        BY <2>2, <2>3 DEF Book, Revisions, Kept
    <2> QED BY <1>1, <1>2, <2>4 DEF Record!vars, Book, Revisions, Phases
<1>5. CASE DeleteProject(p)
    <2>1. /\ project' = [project EXCEPT ![p] = [project[p] EXCEPT
                             !.exists = FALSE]]
          /\ builds' = {b \in builds : b.project # p}
        BY <1>5 DEF DeleteProject
    <2>2. /\ \A q \in Projects \ {p} : project'[q] = project[q]
          /\ ~project'[p].exists
          /\ project'[p].generation = project[p].generation
        BY <1>3, <2>1 DEF IInv, TypeOK, ProjectRows
    <2>3. ASSUME NEW q \in Projects \ {p} PROVE Entries(q)' = Entries(q)
        <3>1. BuildsOf(q)' = BuildsOf(q)
            BY <2>1 DEF BuildsOf
        <3> QED BY <2>2, <3>1, EntriesStay
    <2>4. Entries(p)' = <<>>
        BY <2>2 DEF Entries
    <2>5. Book' = [Book EXCEPT ![p] = <<>>]
        BY <2>3, <2>4 DEF Book
    <2>6. Revisions' = Revisions /\ Kept' = Kept \ {p}
        BY <2>2 DEF Revisions, Kept
    <2>7. Record!Delete(p)
        BY <1>1, <1>2, <2>5, <2>6 DEF Record!Delete, Book, Revisions, Phases
    <2>8. Record!Next
        BY <2>7 DEF Record!Next
    <2> QED BY <2>8
<1> QED BY <1>4, <1>5

LEMMA NextRecord == IInv /\ IInv' /\ [Next]_vars => [Record!Next]_Record!vars
<1> SUFFICES ASSUME IInv, IInv', [Next]_vars PROVE [Record!Next]_Record!vars
    OBVIOUS
<1>1. CASE UNCHANGED vars \/ ChangeInstallation
    <2>1. UNCHANGED <<project, builds, delivery, hook, wanted>>
        BY <1>1 DEF vars, ChangeInstallation
    <2> QED BY <2>1, TablesStay, PhasesStay
            DEF Record!vars, Book, Revisions, Phases
<1> QED BY <1>1, HooksKeepRecord, ClicksKeepRecord, ChangesKeepRecord DEF Next

\* For any projects, deliveries, keys and requests the tables keep a ledger:
\* a build once recorded stays where it is until its project is deleted, an
\* origin is recorded once, and a delivery that no request handles any more,
\* whether it was accepted, failed or lost, records nothing ever after.
THEOREM BuildsImplementLedger == Spec => ImplementsLedger
BY InitRecord, NextRecord, Inductive, PTL
   DEF Spec, ImplementsLedger, Record!Spec

=============================================================================
