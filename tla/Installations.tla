--------------------------- MODULE Installations ---------------------------
(***************************************************************************)
(* GitHub installations, the connection of a user to one of them, and the  *)
(* projects selected on them: the tables github_installations and projects *)
(* under the requests that change them,                                    *)
(*   server/internal/integrations/scm/github (install callback, connection *)
(*     status, deletion) and its repository/pgsql,                         *)
(*   server/internal/integrations/scm/webhook/github/webhook.go            *)
(*     (installation and installation_repositories events), and            *)
(*   server/internal/project (create, update, delete).                     *)
(*                                                                         *)
(* A handler runs one request at a time; every statement or transaction of *)
(* the request is a step, and requests interleave between them.  A row is  *)
(* named by GitHub's id of the installation.  A request that holds the     *)
(* database id of a row since deleted holds None: a new row for the same   *)
(* installation has a new id.                                              *)
(***************************************************************************)
EXTENDS WebhookEvents

CONSTANTS
    Users,
    Handlers,       \* HTTP requests served at a time
    ProjectIds,     \* ids of projects, never used twice
    None            \* no user, no row, no repository, no project

ASSUME InstallationsAssumption ==
    None \notin Users \cup Installations \cup Repositories \cup ProjectIds

VARIABLES
    owner,          \* github_installations.user_id; None: no such row
    status,         \* github_installations.status
    connected,      \* rows with connection_status = 'connected'
    project,        \* the projects table
    request,        \* requests in progress
    removed         \* history: repositories reported removed from a row

vars == <<owner, status, connected, project, request, removed>>

Rows == {i \in Installations : owner[i] # None}
Mine(u) == {i \in Rows : owner[i] = u}

ProjectRows == [at: {"none", "stored", "deleted"},
                user: Users \cup {None},
                installation: Installations \cup {None},
                repository: Repositories \cup {None},
                available: BOOLEAN]

\* "todo" holds the installations a request still works on, "known" the
\* repositories of the availability map it read, "available" those true in it.
Requests == [at: {"free", "store", "connect", "disconnect", "external",
                  "activate", "sync", "verified", "chosen", "edit"},
             user: Users \cup {None},
             row: Installations \cup {None},
             todo: SUBSET Installations,
             repository: Repositories \cup {None},
             project: ProjectIds \cup {None},
             known: SUBSET Repositories,
             available: SUBSET Repositories]

NoProject == [at |-> "none", user |-> None, installation |-> None,
              repository |-> None, available |-> FALSE]
Deleted == [NoProject EXCEPT !.at = "deleted"]

Free == [at |-> "free", user |-> None, row |-> None, todo |-> {},
         repository |-> None, project |-> None, known |-> {}, available |-> {}]

TypeOK ==
    /\ owner \in [Installations -> Users \cup {None}]
    /\ status \in [Installations ->
                      {"none", "active", "suspended", "uninstalled"}]
    /\ \A i \in Installations : status[i] = "none" <=> owner[i] = None
    /\ connected \subseteq Rows
    /\ project \in [ProjectIds -> ProjectRows]
    /\ request \in [Handlers -> Requests]
    /\ removed \subseteq Installations \X Repositories

Init ==
    /\ owner = [i \in Installations |-> None]
    /\ status = [i \in Installations |-> "none"]
    /\ connected = {}
    /\ project = [p \in ProjectIds |-> NoProject]
    /\ request = [h \in Handlers |-> Free]
    /\ removed = {}

\* A free handler takes a request; a handler is done with its request.
Begin(h, r) ==
    /\ request[h] = Free
    /\ request' = [request EXCEPT ![h] = r]

End(h) == request' = [request EXCEPT ![h] = Free]

-----------------------------------------------------------------------------
(* Installing the app, choosing an installation, giving installations up.  *)

\* Mistaken variant of Switched: the user's other connection is kept.
SwitchedBeside(u, i) == connected \cup {i}

\* The connections once user u works with installation i.
Switched(u, i) == (connected \ Mine(u)) \cup {i}

\* What GitHub may tell the callback, for the code it brings: the
\* installations the user can see.
Found == SUBSET Installations

\* InstallGithubApp stores them one after the other; none is an error.
InstallCallback(h, u) ==
    /\ \E found \in Found \ {{}} :
          Begin(h, [Free EXCEPT !.at = "store", !.user = u, !.todo = found])
    /\ UNCHANGED <<owner, status, connected, project, removed>>

\* StoreInstallation of one of them, a transaction.  One that belongs to
\* another user ends the request with a conflict.
StoreInstallation(h) ==
    LET u == request[h].user
    IN  /\ request[h].at = "store"
        /\ \E i \in request[h].todo :
              IF owner[i] \in {None, u}
              THEN /\ owner' = [owner EXCEPT ![i] = u]
                   /\ status' = [status EXCEPT ![i] = "active"]
                   /\ connected' = Switched(u, i)
                   /\ IF request[h].todo = {i}
                      THEN End(h)
                      ELSE request' = [request EXCEPT ![h].todo = @ \ {i}]
              ELSE End(h) /\ UNCHANGED <<owner, status, connected>>
        /\ UNCHANGED <<project, removed>>

\* UpdateConnectionStatus reads the row, given by its id or the user's best;
\* a row that is not active cannot be connected.
ReadForConnection(h, u) ==
    /\ \E i \in Mine(u) :
          \/ Begin(h, [Free EXCEPT !.at = "disconnect", !.user = u, !.row = i])
          \/ /\ status[i] = "active"
             /\ Begin(h, [Free EXCEPT !.at = "connect", !.user = u, !.row = i])
    /\ UNCHANGED <<owner, status, connected, project, removed>>

\* Mistaken variant of Connect: the other connection is dropped although the
\* row to connect was not found.
ConnectGone(h) ==
    /\ request[h].at = "connect"
    /\ connected' = (connected \ Mine(request[h].user))
                        \cup ({request[h].row} \ {None})
    /\ End(h)
    /\ UNCHANGED <<owner, status, project, removed>>

\* The transaction that connects: nothing changes when the row is gone.
Connect(h) ==
    /\ request[h].at = "connect"
    /\ connected' = IF request[h].row = None
                    THEN connected
                    ELSE Switched(request[h].user, request[h].row)
    /\ End(h)
    /\ UNCHANGED <<owner, status, project, removed>>

Disconnect(h) ==
    /\ request[h].at = "disconnect"
    /\ connected' = connected \ {request[h].row}
    /\ End(h)
    /\ UNCHANGED <<owner, status, project, removed>>

\* Mistaken variant of Cascaded: projects outlive their installation.
NotCascaded(gone) == project

\* The projects once the rows of installations "gone" are deleted.
Cascaded(gone) ==
    [p \in ProjectIds |-> IF project[p].at = "stored"
                              /\ project[p].installation \in gone
                          THEN Deleted
                          ELSE project[p]]

\* DeleteInstallationByUserID: all rows of the user, whatever their number.
DeleteInstallations(u) ==
    LET gone == Mine(u)
    IN  /\ gone # {}
        /\ owner' = [i \in Installations |-> IF i \in gone THEN None
                                                           ELSE owner[i]]
        /\ status' = [i \in Installations |-> IF i \in gone THEN "none"
                                                            ELSE status[i]]
        /\ connected' = connected \ gone
        /\ project' = Cascaded(gone)
        /\ request' = [h \in Handlers |->
                          IF request[h].row \in gone
                          THEN [request[h] EXCEPT !.row = None]
                          ELSE request[h]]
        /\ removed' = {ir \in removed : ir[1] \notin gone}

-----------------------------------------------------------------------------
(* Webhook events about installations.                                     *)

\* Mistaken variant of SetStatus: it makes the row it does not find.
Upsert(i, s) == status' = [status EXCEPT ![i] = s]

\* UpdateInstallationStatusByGithubInstallationID: an error without the row.
SetStatus(i, s) ==
    status' = IF i \in Rows THEN [status EXCEPT ![i] = s] ELSE status

\* handleInstallationEvent: one UPDATE of the status, except that "created"
\* and "reinstalled" first look the row up to write its external id again.
InstallationEvent(h, e) ==
    LET i == e.installation
        s == StatusOf[e.action]
    IN  /\ IF e.action \in {"created", "reinstalled"}
           THEN /\ Begin(h, [Free EXCEPT
                                !.at = IF i \in Rows THEN "external"
                                                     ELSE "activate",
                                !.row = IF i \in Rows THEN i ELSE None,
                                !.todo = {i}])
                /\ UNCHANGED status
           ELSE /\ request[h] = Free
                /\ IF s = "none" THEN UNCHANGED status ELSE SetStatus(i, s)
                /\ UNCHANGED request
        /\ UNCHANGED <<owner, connected, project, removed>>

\* UpdateInstallationExternalIDByID writes the id the row already has; it
\* fails when the row is gone, and the event with it.
ExternalID(h) ==
    /\ request[h].at = "external"
    /\ IF request[h].row = None
       THEN End(h)
       ELSE request' = [request EXCEPT ![h].at = "activate"]
    /\ UNCHANGED <<owner, status, connected, project, removed>>

Activate(h) ==
    /\ request[h].at = "activate"
    /\ \E i \in request[h].todo : SetStatus(i, "active")
    /\ End(h)
    /\ UNCHANGED <<owner, connected, project, removed>>

\* GetProjectRepoAvailability: the repositories selected on installation i,
\* and the maps its rows can give when rows of one repository differ.
Selected(i) ==
    {project[p].repository :
        p \in {q \in ProjectIds : /\ project[q].at = "stored"
                                  /\ project[q].installation = i}}

AvailabilityMaps(i) ==
    {a \in SUBSET Selected(i) :
        \A r \in Selected(i) :
            \E p \in ProjectIds :
                /\ project[p].at = "stored"
                /\ project[p].installation = i
                /\ project[p].repository = r
                /\ project[p].available = (r \in a)}

\* Mistaken variant of Synced: only what was added is available.
SyncedAnew(a, selected, e) == e.added \cap selected

\* The map "a" after an event: what was added is available, what was removed
\* is not, the rest stays.
Synced(a, selected, e) == (a \cup (e.added \cap selected)) \ e.removed

\* handleInstallationRepositoriesEvent, up to its UPDATE.  An event of an
\* installation without a row fails.
RepositoriesEvent(h, e) ==
    LET i == e.installation
    IN  /\ i \in Rows
        /\ \E a \in AvailabilityMaps(i) :
              Begin(h, [Free EXCEPT !.at = "sync", !.row = i,
                                    !.known = Selected(i),
                                    !.available = Synced(a, Selected(i), e)])
        /\ removed' = removed \cup ({i} \X e.removed)
        /\ UNCHANGED <<owner, status, connected, project>>

\* UpdateProjectRepoAvailability writes the whole map.
Sync(h) ==
    /\ request[h].at = "sync"
    /\ project' = [p \in ProjectIds |->
                      IF /\ project[p].at = "stored"
                         /\ project[p].installation = request[h].row
                         /\ project[p].repository \in request[h].known
                      THEN [project[p] EXCEPT !.available =
                                project[p].repository \in request[h].available]
                      ELSE project[p]]
    /\ End(h)
    /\ UNCHANGED <<owner, status, connected, removed>>

\* The other events change nothing here (module Builds has the pushes).
OtherEvent(h, e) ==
    /\ e \notin InstallationPayload \cup InstallationRepositoriesPayload
    /\ request[h] = Free
    /\ UNCHANGED vars

\* eventHandler.
Deliver(h) ==
    \/ \E e \in InstallationPayload : InstallationEvent(h, e)
    \/ \E e \in InstallationRepositoriesPayload : RepositoriesEvent(h, e)
    \/ \E e \in Payloads : OtherEvent(h, e)

-----------------------------------------------------------------------------
(* Projects.                                                               *)

\* GetInstallationByUserID: connected first, then active, then any.
Best(u) ==
    LET active == {i \in Mine(u) : status[i] = "active"}
    IN  IF connected \cap Mine(u) # {} THEN connected \cap Mine(u)
        ELSE IF active # {} THEN active ELSE Mine(u)

\* GetRepositoryDetails asks GitHub for an active, connected installation.
MayList(u) == \E i \in Best(u) : status[i] = "active" /\ i \in connected

\* CreateProject verifies that the repository is visible to the user's
\* installation, ...
VerifyRepository(h, u) ==
    /\ MayList(u)
    /\ \E r \in Repositories :
          Begin(h, [Free EXCEPT !.at = "verified", !.user = u,
                                !.repository = r])
    /\ UNCHANGED <<owner, status, connected, project, removed>>

\* ... reads the user's installation again, ...
ChooseInstallation(h) ==
    LET best == Best(request[h].user)
    IN  /\ request[h].at = "verified"
        /\ IF best = {}
           THEN End(h)
           ELSE \E i \in best :
                   request' = [request EXCEPT ![h].at = "chosen",
                                              ![h].row = i]
        /\ UNCHANGED <<owner, status, connected, project, removed>>

\* ... and inserts the project, which the foreign key refuses when the row
\* is gone.
StoreProject(h) ==
    LET r == request[h]
    IN  /\ r.at = "chosen"
        /\ IF r.row = None
           THEN UNCHANGED project
           ELSE \E p \in ProjectIds :
                   /\ project[p].at = "none"
                   /\ project' = [project EXCEPT ![p] =
                          [at |-> "stored", user |-> r.user,
                           installation |-> r.row,
                           repository |-> r.repository, available |-> TRUE]]
        /\ End(h)
        /\ UNCHANGED <<owner, status, connected, removed>>

\* UpdateProject reads the row and writes it back, its availability included.
ReadProject(h, p) ==
    /\ project[p].at = "stored"
    /\ Begin(h, [Free EXCEPT !.at = "edit", !.project = p,
                             !.available = IF project[p].available
                                           THEN {project[p].repository}
                                           ELSE {}])
    /\ UNCHANGED <<owner, status, connected, project, removed>>

WriteProject(h) ==
    LET p == request[h].project
    IN  /\ request[h].at = "edit"
        /\ IF project[p].at = "stored"
           THEN project' = [project EXCEPT ![p].available =
                               project[p].repository \in request[h].available]
           ELSE UNCHANGED project
        /\ End(h)
        /\ UNCHANGED <<owner, status, connected, removed>>

DeleteProject(p) ==
    /\ project[p].at = "stored"
    /\ project' = [project EXCEPT ![p] = Deleted]
    /\ UNCHANGED <<owner, status, connected, request, removed>>

\* A failed statement, a failed call of GitHub, a refused build command or a
\* crash ends a request before its next statement.
Abandon(h) ==
    /\ request[h].at # "free"
    /\ End(h)
    /\ UNCHANGED <<owner, status, connected, project, removed>>

-----------------------------------------------------------------------------
Next ==
    \/ \E u \in Users : DeleteInstallations(u)
    \/ \E p \in ProjectIds : DeleteProject(p)
    \/ \E h \in Handlers :
          \/ StoreInstallation(h) \/ Connect(h) \/ Disconnect(h)
          \/ Deliver(h) \/ ExternalID(h) \/ Activate(h) \/ Sync(h)
          \/ ChooseInstallation(h) \/ StoreProject(h) \/ WriteProject(h)
          \/ Abandon(h)
          \/ \E u \in Users : \/ InstallCallback(h, u)
                              \/ ReadForConnection(h, u)
                              \/ VerifyRepository(h, u)
          \/ \E p \in ProjectIds : ReadProject(h, p)

Spec == Init /\ [][Next]_vars

-----------------------------------------------------------------------------
(* Properties.                                                             *)

\* The rows behave as the abstract table of connections: an installation is
\* not taken from its owner, and whatever callbacks, switches and deletions
\* overlap, a user is connected to one installation or none, an own one.
Abstract == INSTANCE Connections
                WITH current <- [u \in Users |-> connected \cap Mine(u)]
ImplementsConnections == Abstract!Spec

\* A switch is all or nothing: a user with a connection loses it without
\* getting another only by disconnecting it or by giving up all rows, also
\* when the row to switch to was deleted after it was read.
SwitchIsAtomic ==
    [][\A u \in Users :
          \/ connected \cap Mine(u) = {}
          \/ connected' \cap Mine(u)' # {}
          \/ Mine(u)' = {}
          \/ \E h \in Handlers : /\ request[h].at = "disconnect"
                                 /\ request[h].user = u
                                 /\ request'[h] # request[h]]_vars

\* A project belongs to the user its installation belongs to: neither rows
\* deleted while it is created nor an installation that changes hands leave
\* a project on an installation of another user or of none.
ProjectsOnOwnInstallation ==
    \A p \in ProjectIds :
        project[p].at = "stored" =>
            /\ project[p].installation \in Rows
            /\ owner[project[p].installation] = project[p].user

\* A project is unavailable only if its repository was reported removed from
\* the installation since its row was stored: overlapping events and updates
\* of the project may bring back an old value, never make one up.
UnavailableWasRemoved ==
    \A p \in ProjectIds :
        project[p].at = "stored" /\ ~project[p].available =>
            <<project[p].installation, project[p].repository>> \in removed
=============================================================================
