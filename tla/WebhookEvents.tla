--------------------------- MODULE WebhookEvents ---------------------------
(***************************************************************************)
(* The GitHub events the server subscribes to and what it reads of each:   *)
(* the payload types of                                                    *)
(*   server/internal/domain/events.go                                      *)
(* as parsePayload, populateDelivery and eventHandler of                   *)
(*   server/internal/integrations/scm/webhook/github/webhook.go            *)
(* take them apart.  Fields no handler reads are left out.                 *)
(***************************************************************************)
CONSTANTS
    Installations,  \* ids of installations of the GitHub App
    Repositories,   \* ids of repositories
    Actions         \* bound of the model: actions of installation events

InstallationActions ==
    {"created", "unsuspend", "new_permissions_accepted", "reinstalled",
     "suspend", "deleted", "other"}

ASSUME ActionsAssumption == Actions \subseteq InstallationActions

InstallationPayload ==
    [event: {"installation"}, action: Actions, installation: Installations]

InstallationRepositoriesPayload ==
    [event: {"installation_repositories"}, installation: Installations,
     added: SUBSET Repositories, removed: SUBSET Repositories]

PushPayload ==
    [event: {"push"}, installation: Installations, repository: Repositories]

\* Recorded with their repository, and otherwise ignored.
CreatePayload == [event: {"create"}, repository: Repositories]
DeletePayload == [event: {"delete"}, repository: Repositories]
ReleasePayload == [event: {"release"}, repository: Repositories]
RepositoryPayload == [event: {"repository"}, repository: Repositories]

Payloads ==
    UNION {InstallationPayload, InstallationRepositoriesPayload, PushPayload,
           CreatePayload, DeletePayload, ReleasePayload, RepositoryPayload}

\* The status an installation event stands for; none for other actions.
StatusOf ==
    [a \in InstallationActions |->
        CASE a = "suspend" -> "suspended"
          [] a = "deleted" -> "uninstalled"
          [] a = "other"   -> "none"
          [] OTHER         -> "active"]
=============================================================================
