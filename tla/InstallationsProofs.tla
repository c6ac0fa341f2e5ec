------------------------ MODULE InstallationsProofs ------------------------
(***************************************************************************)
(* Proofs about Installations for any users, installations, repositories,  *)
(* projects and requests.  The invariant says what a request knows that    *)
(* was read before: a row it holds is there, and has the owner it had; an  *)
(* availability it holds as FALSE is one that was reported.                *)
(***************************************************************************)
EXTENDS Installations, TLAPS

USE InstallationsAssumption, ActionsAssumption

Reported(p) == <<p.installation, p.repository>> \in removed

RequestOK(r) ==
    /\ r.at \in {"store", "connect", "disconnect", "verified", "chosen"} =>
          r.user \in Users
    /\ r.row # None => r.row \in Rows
    /\ r.at \in {"connect", "disconnect", "chosen"} /\ r.row # None =>
          owner[r.row] = r.user
    /\ r.at = "sync" /\ r.row # None =>
          \A x \in r.known \ r.available : <<r.row, x>> \in removed
    /\ r.at \in {"verified", "chosen"} => r.repository \in Repositories
    /\ r.at = "edit" =>
          /\ r.project \in ProjectIds
          /\ project[r.project].at # "none"
          /\ \/ project[r.project].at # "stored"
             \/ project[r.project].repository \in r.available
             \/ Reported(project[r.project])

RequestInv == \A h \in Handlers : RequestOK(request[h])

ProjectOK(p) ==
    p.at = "stored" =>
        /\ p.installation \in Rows /\ owner[p.installation] = p.user
        /\ p.repository \in Repositories
        /\ p.available \/ Reported(p)

ProjectInv == \A p \in ProjectIds : ProjectOK(project[p])

OneConnection ==
    \A i, j \in connected : owner[i] = owner[j] => i = j

IInv == TypeOK /\ RequestInv /\ ProjectInv /\ OneConnection

-----------------------------------------------------------------------------
LEMMA FreeOK == Free \in Requests /\ RequestOK(Free)
BY DEF Free, Requests, RequestOK

LEMMA DeletedOK ==
    Deleted \in ProjectRows /\ Deleted.at = "deleted"
BY DEF Deleted, NoProject, ProjectRows

LEMMA Truth ==
    ASSUME NEW x, NEW S
    PROVE  (x \in S) \in BOOLEAN
OBVIOUS

LEMMA InitInv == Init => IInv
<1> SUFFICES ASSUME Init PROVE IInv
    OBVIOUS
<1>1. NoProject \in ProjectRows
    BY DEF NoProject, ProjectRows
<1>2. TypeOK
    BY <1>1, FreeOK DEF Init, TypeOK
<1>3. RequestInv
    BY FreeOK DEF Init, RequestInv
<1>4. ProjectInv
    BY DEF Init, ProjectInv, ProjectOK, NoProject
<1>5. OneConnection
    BY DEF Init, OneConnection
<1> QED BY <1>2, <1>3, <1>4, <1>5 DEF IInv

\* Rows keep their owner, and reports are not forgotten.
RowsStay ==
    /\ owner' \in [Installations -> Users \cup {None}]
    /\ \A i \in Rows : owner'[i] = owner[i]
    /\ removed \subseteq removed'

\* A project p that becomes q is what it was, or new, or deleted.
Follows(q, p) ==
    /\ p.at # "none" => q.at # "none"
    /\ q.at = "stored" =>
          \/ p.at = "none"
          \/ p.at = "stored" /\ q.installation = p.installation
                             /\ q.repository = p.repository

ProjectsFollow == \A p \in ProjectIds : Follows(project'[p], project[p])

LEMMA SameFollow == ASSUME UNCHANGED project PROVE ProjectsFollow
BY DEF ProjectsFollow, Follows

LEMMA SameRows ==
    ASSUME IInv, UNCHANGED owner, removed \subseteq removed'
    PROVE  RowsStay
BY DEF IInv, TypeOK, RowsStay

LEMMA RequestStays ==
    ASSUME IInv, RowsStay, ProjectsFollow, NEW r \in Requests, RequestOK(r)
    PROVE  RequestOK(r)'
<1>1. r.row # None => r.row \in Rows' /\ owner'[r.row] = owner[r.row]
    BY DEF RequestOK, RowsStay, Rows
<1>2. r.at = "sync" /\ r.row # None =>
          \A x \in r.known \ r.available : <<r.row, x>> \in removed'
    BY DEF RequestOK, RowsStay
<1>3. ASSUME r.at = "edit"
      PROVE  /\ r.project \in ProjectIds
             /\ project'[r.project].at # "none"
             /\ \/ project'[r.project].at # "stored"
                \/ project'[r.project].repository \in r.available
                \/ Reported(project[r.project])'
  <2>1. r.project \in ProjectIds /\ project[r.project].at # "none"
      BY <1>3 DEF RequestOK
  <2>2. Follows(project'[r.project], project[r.project])
      BY <2>1 DEF ProjectsFollow
  <2>3. \/ project[r.project].at # "stored"
        \/ project[r.project].repository \in r.available
        \/ Reported(project[r.project])
      BY <1>3 DEF RequestOK
  <2> QED BY <2>1, <2>2, <2>3 DEF Follows, Reported, RowsStay
<1> QED BY <1>1, <1>2, <1>3 DEF RequestOK

\* One request is replaced.
LEMMA Replaced ==
    ASSUME IInv, RowsStay, ProjectsFollow, NEW h \in Handlers,
           NEW r \in Requests, request' = [request EXCEPT ![h] = r],
           RequestOK(r)'
    PROVE  RequestInv' /\ request' \in [Handlers -> Requests]
<1>1. request' \in [Handlers -> Requests]
    BY DEF IInv, TypeOK
<1>2. ASSUME NEW g \in Handlers
      PROVE  RequestOK(request[g])'
  <2>1. PICK q : q = request'[g]
      OBVIOUS
  <2>2. CASE g = h
    <3>1. q = r
        BY <2>1, <2>2 DEF IInv, TypeOK
    <3> QED BY <2>1, <3>1 DEF RequestOK
  <2>3. CASE g # h
    <3>1. q = request[g] /\ q \in Requests /\ RequestOK(q)
        BY <2>1, <2>3 DEF IInv, TypeOK, RequestInv
    <3>2. RequestOK(q)'
        BY <3>1, RequestStays
    <3> QED BY <2>1, <3>2 DEF RequestOK
  <2> QED BY <2>2, <2>3
<1> QED BY <1>1, <1>2 DEF RequestInv

LEMMA ProjectsStay ==
    ASSUME IInv, RowsStay, UNCHANGED project
    PROVE  ProjectInv'
<1>1. ASSUME NEW p \in ProjectIds
      PROVE  ProjectOK(project[p])'
  <2>1. ProjectOK(project[p])
      BY DEF IInv, ProjectInv
  <2> QED BY <2>1 DEF ProjectOK, Reported, RowsStay, Rows
<1> QED BY <1>1 DEF ProjectInv

\* A step of one request that touches no table.
LEMMA OnlyRequest ==
    ASSUME IInv, NEW h \in Handlers, NEW r \in Requests, RequestOK(r),
           request' = [request EXCEPT ![h] = r],
           UNCHANGED <<owner, status, connected, project, removed>>
    PROVE  IInv'
<1>1. RowsStay /\ ProjectsFollow
    BY SameRows, SameFollow
<1>2. RequestOK(r)'
    BY <1>1, RequestStays
<1>3. RequestInv' /\ request' \in [Handlers -> Requests]
    BY <1>1, <1>2, Replaced
<1>4. ProjectInv'
    BY <1>1, ProjectsStay
<1>5. TypeOK' /\ OneConnection'
    BY <1>3 DEF IInv, TypeOK, Rows, OneConnection
<1> QED BY <1>3, <1>4, <1>5 DEF IInv

LEMMA EndInv ==
    ASSUME IInv, NEW h \in Handlers, End(h),
           UNCHANGED <<owner, status, connected, project, removed>>
    PROVE  IInv'
BY FreeOK, OnlyRequest DEF End

-----------------------------------------------------------------------------
(* The steps that only read the tables.                                    *)

LEMMA InstallCallbackInv ==
    ASSUME IInv, NEW h \in Handlers, NEW u \in Users, InstallCallback(h, u)
    PROVE  IInv'
<1>1. PICK found \in Found \ {{}} :
          Begin(h, [Free EXCEPT !.at = "store", !.user = u, !.todo = found])
    BY DEF InstallCallback
<1>2. PICK r : r = [Free EXCEPT !.at = "store", !.user = u, !.todo = found]
    OBVIOUS
<1>3. r \in Requests /\ RequestOK(r)
    BY <1>2 DEF Found, Free, Requests, RequestOK
<1> QED BY <1>1, <1>2, <1>3, OnlyRequest DEF Begin, InstallCallback

LEMMA ReadForConnectionInv ==
    ASSUME IInv, NEW h \in Handlers, NEW u \in Users, ReadForConnection(h, u)
    PROVE  IInv'
<1>1. PICK i \in Mine(u), at \in {"connect", "disconnect"} :
          Begin(h, [Free EXCEPT !.at = at, !.user = u, !.row = i])
    BY DEF ReadForConnection
<1>2. PICK r : r = [Free EXCEPT !.at = at, !.user = u, !.row = i]
    OBVIOUS
<1>3. r \in Requests /\ RequestOK(r)
    BY <1>2 DEF Free, Requests, RequestOK, Mine, Rows
<1> QED BY <1>1, <1>2, <1>3, OnlyRequest DEF Begin, ReadForConnection

LEMMA ExternalIDInv ==
    ASSUME IInv, NEW h \in Handlers, ExternalID(h)
    PROVE  IInv'
<1>1. PICK r : r = [request[h] EXCEPT !.at = "activate"]
    OBVIOUS
<1>2. request[h] \in Requests /\ RequestOK(request[h])
    BY DEF IInv, TypeOK, RequestInv
<1>3. r \in Requests /\ RequestOK(r)
    BY <1>1, <1>2 DEF Requests, RequestOK
<1>4. CASE request' = [request EXCEPT ![h].at = "activate"]
  <2>1. request' = [request EXCEPT ![h] = r]
      BY <1>1, <1>4 DEF IInv, TypeOK
  <2> QED BY <1>3, <2>1, OnlyRequest DEF ExternalID
<1> QED BY <1>4, EndInv DEF ExternalID

LEMMA BestIsMine ==
    ASSUME NEW u \in Users
    PROVE  Best(u) \subseteq Mine(u)
BY DEF Best

LEMMA VerifyRepositoryInv ==
    ASSUME IInv, NEW h \in Handlers, NEW u \in Users, VerifyRepository(h, u)
    PROVE  IInv'
<1>1. PICK x \in Repositories :
          Begin(h, [Free EXCEPT !.at = "verified", !.user = u,
                                !.repository = x])
    BY DEF VerifyRepository
<1>2. PICK r : r = [Free EXCEPT !.at = "verified", !.user = u,
                                !.repository = x]
    OBVIOUS
<1>3. r \in Requests /\ RequestOK(r)
    BY <1>2 DEF Free, Requests, RequestOK
<1> QED BY <1>1, <1>2, <1>3, OnlyRequest DEF Begin, VerifyRepository

LEMMA ChooseInstallationInv ==
    ASSUME IInv, NEW h \in Handlers, ChooseInstallation(h)
    PROVE  IInv'
<1>1. request[h] \in Requests /\ RequestOK(request[h])
      /\ request[h].at = "verified" /\ request[h].user \in Users
    BY DEF IInv, TypeOK, RequestInv, RequestOK, ChooseInstallation
<1>2. ASSUME NEW i \in Best(request[h].user),
             request' = [request EXCEPT ![h].at = "chosen", ![h].row = i]
      PROVE  IInv'
  <2>1. PICK r : r = [request[h] EXCEPT !.at = "chosen", !.row = i]
      OBVIOUS
  <2>2. request' = [request EXCEPT ![h] = r]
      BY <1>1, <1>2, <2>1 DEF IInv, TypeOK, Requests
  <2>3. i \in Rows /\ i \in Installations /\ owner[i] = request[h].user
      BY <1>1, BestIsMine DEF Mine, Rows
  <2>4. r \in Requests /\ RequestOK(r)
      BY <1>1, <2>1, <2>3 DEF Requests, RequestOK
  <2> QED BY <2>2, <2>4, OnlyRequest DEF ChooseInstallation
<1> QED BY <1>2, EndInv DEF ChooseInstallation

LEMMA ReadProjectInv ==
    ASSUME IInv, NEW h \in Handlers, NEW p \in ProjectIds, ReadProject(h, p)
    PROVE  IInv'
<1> DEFINE known == IF project[p].available THEN {project[p].repository}
                                            ELSE {}
<1>1. PICK r : r = [Free EXCEPT !.at = "edit", !.project = p,
                                !.available = known]
    OBVIOUS
<1>2. request' = [request EXCEPT ![h] = r]
    BY <1>1 DEF ReadProject, Begin
<1>3. /\ project[p] \in ProjectRows /\ ProjectOK(project[p])
      /\ project[p].at = "stored"
    BY DEF IInv, TypeOK, ProjectInv, ReadProject
<1>4. known \subseteq Repositories
    BY <1>3 DEF ProjectOK
<1>5. r \in Requests
  <2> HIDE DEF known
  <2> QED BY <1>1, <1>4, FreeOK DEF Free, Requests
<1>6. /\ r.at = "edit" /\ r.project = p /\ r.row = None
      /\ r.available = known
  <2> HIDE DEF known
  <2> QED BY <1>1 DEF Free
<1>7. project[p].repository \in known \/ Reported(project[p])
    BY <1>3 DEF ProjectOK
<1>8. RequestOK(r)
  <2> HIDE DEF known
  <2> QED BY <1>3, <1>6, <1>7 DEF RequestOK
<1> QED BY <1>2, <1>5, <1>8, OnlyRequest DEF ReadProject

LEMMA AbandonInv ==
    ASSUME IInv, NEW h \in Handlers, Abandon(h)
    PROVE  IInv'
BY EndInv DEF Abandon

-----------------------------------------------------------------------------
(* Webhook events.                                                         *)

\* A status is written, by a request that becomes r or by none.
LEMMA StatusInv ==
    ASSUME IInv, NEW i, NEW t \in {"active", "suspended", "uninstalled"},
           SetStatus(i, t),
           UNCHANGED <<owner, connected, project, removed>>,
           NEW h \in Handlers, End(h) \/ UNCHANGED request
    PROVE  IInv'
<1>1. RowsStay /\ ProjectsFollow
    BY SameRows, SameFollow
<1>2. RequestInv' /\ request' \in [Handlers -> Requests]
  <2>1. CASE End(h)
    <3>1. RequestOK(Free)'
        BY FreeOK, <1>1, RequestStays
    <3> QED BY <1>1, <2>1, <3>1, FreeOK, Replaced DEF End
  <2>2. CASE UNCHANGED request
    <3>1. ASSUME NEW g \in Handlers
          PROVE  RequestOK(request[g])'
      <4>1. PICK q : q = request[g]
          OBVIOUS
      <4>2. q \in Requests /\ RequestOK(q)
          BY <4>1 DEF IInv, TypeOK, RequestInv
      <4>3. RequestOK(q)'
          BY <1>1, <4>2, RequestStays
      <4> QED BY <2>2, <4>1, <4>3 DEF RequestOK
    <3> QED BY <2>2, <3>1 DEF RequestInv, IInv, TypeOK
  <2> QED BY <2>1, <2>2
<1>3. ProjectInv'
    BY <1>1, ProjectsStay
<1>4. /\ status' \in [Installations ->
                         {"none", "active", "suspended", "uninstalled"}]
      /\ \A j \in Installations : status'[j] = "none" <=> status[j] = "none"
  <2>1. CASE i \in Rows
    <3>1. i \in Installations /\ status[i] # "none"
        BY <2>1 DEF Rows, IInv, TypeOK
    <3>2. status' = [status EXCEPT ![i] = t]
        BY <2>1 DEF SetStatus
    <3> QED BY <3>1, <3>2 DEF IInv, TypeOK
  <2>2. CASE i \notin Rows
    <3>1. status' = status
        BY <2>2 DEF SetStatus
    <3> QED BY <3>1 DEF IInv, TypeOK
  <2> QED BY <2>1, <2>2
<1>5. TypeOK' /\ OneConnection'
    BY <1>2, <1>4 DEF IInv, TypeOK, Rows, OneConnection
<1> QED BY <1>2, <1>3, <1>5 DEF IInv

LEMMA InstallationEventInv ==
    ASSUME IInv, NEW h \in Handlers, NEW e \in InstallationPayload,
           InstallationEvent(h, e)
    PROVE  IInv'
<1> DEFINE i == e.installation
<1>1. /\ e.action \in InstallationActions /\ i \in Installations
      /\ UNCHANGED <<owner, connected, project, removed>>
    BY DEF InstallationPayload, InstallationEvent
<1>2. CASE e.action \in {"created", "reinstalled"}
  <2>1. PICK at \in {"external", "activate"}, row \in Rows \cup {None} :
            Begin(h, [Free EXCEPT !.at = at, !.row = row, !.todo = {i}])
      BY <1>2 DEF InstallationEvent
  <2>2. PICK r : r = [Free EXCEPT !.at = at, !.row = row, !.todo = {i}]
      OBVIOUS
  <2>3. r \in Requests /\ RequestOK(r)
      BY <1>1, <2>2 DEF Free, Requests, RequestOK, Rows
  <2>4. UNCHANGED status
      BY <1>2 DEF InstallationEvent
  <2> QED BY <1>1, <2>1, <2>2, <2>3, <2>4, OnlyRequest DEF Begin
<1>3. CASE e.action \notin {"created", "reinstalled"}
  <2>1. /\ UNCHANGED request
        /\ \/ UNCHANGED status
           \/ /\ StatusOf[e.action] # "none"
              /\ SetStatus(i, StatusOf[e.action])
      BY <1>3 DEF InstallationEvent
  <2>2. CASE UNCHANGED status
    <3>1. request' = [request EXCEPT ![h] = request[h]]
          /\ request[h] \in Requests /\ RequestOK(request[h])
        BY <2>1 DEF IInv, TypeOK, RequestInv
    <3> QED BY <1>1, <2>2, <3>1, OnlyRequest
  <2>3. CASE StatusOf[e.action] # "none" /\ SetStatus(i, StatusOf[e.action])
    <3>1. StatusOf[e.action] \in {"active", "suspended", "uninstalled"}
        BY <1>1, <2>3 DEF StatusOf, InstallationActions
    <3> QED BY <1>1, <2>1, <2>3, <3>1, StatusInv
  <2> QED BY <2>1, <2>2, <2>3
<1> QED BY <1>2, <1>3

LEMMA ActivateInv ==
    ASSUME IInv, NEW h \in Handlers, Activate(h)
    PROVE  IInv'
BY StatusInv DEF Activate

LEMMA RepositoriesEventInv ==
    ASSUME IInv, NEW h \in Handlers,
           NEW e \in InstallationRepositoriesPayload, RepositoriesEvent(h, e)
    PROVE  IInv'
<1> DEFINE i == e.installation
<1>1. /\ i \in Rows /\ i \in Installations
      /\ e.added \subseteq Repositories /\ e.removed \subseteq Repositories
      /\ removed' = removed \cup ({i} \X e.removed)
      /\ UNCHANGED <<owner, status, connected, project>>
    BY DEF InstallationRepositoriesPayload, RepositoriesEvent
<1>2. PICK a \in AvailabilityMaps(i) :
          Begin(h, [Free EXCEPT !.at = "sync", !.row = i,
                                !.known = Selected(i),
                                !.available = Synced(a, Selected(i), e)])
    BY DEF RepositoriesEvent
<1>3. RowsStay /\ ProjectsFollow
    BY <1>1, SameRows, SameFollow
<1>4. Selected(i) \subseteq Repositories
    BY DEF Selected, IInv, ProjectInv, ProjectOK
<1>5. a \subseteq Selected(i)
    BY DEF AvailabilityMaps
<1>6. PICK r : r = [Free EXCEPT !.at = "sync", !.row = i,
                                !.known = Selected(i),
                                !.available = Synced(a, Selected(i), e)]
    OBVIOUS
<1>7. Synced(a, Selected(i), e) \subseteq Repositories
    BY <1>1, <1>4, <1>5 DEF Synced
<1>8. r \in Requests
    BY <1>1, <1>4, <1>6, <1>7, FreeOK DEF Free, Requests
<1>9. ASSUME NEW x \in Selected(i), x \notin Synced(a, Selected(i), e)
      PROVE  <<i, x>> \in removed'
  <2>1. CASE x \in e.removed
      BY <1>1, <2>1
  <2>2. CASE x \notin e.removed
    <3>1. x \notin a
        BY <1>9, <2>2 DEF Synced
    <3>2. PICK p \in ProjectIds : /\ project[p].at = "stored"
                                  /\ project[p].installation = i
                                  /\ project[p].repository = x
                                  /\ project[p].available = (x \in a)
        BY Zenon DEF AvailabilityMaps
    <3>3. ~project[p].available
        BY <3>1, <3>2
    <3>4. Reported(project[p])
        BY <3>2, <3>3 DEF IInv, ProjectInv, ProjectOK
    <3> QED BY <1>1, <3>2, <3>4 DEF Reported
  <2> QED BY <2>1, <2>2
<1>10. /\ r.at = "sync" /\ r.row = i /\ r.known = Selected(i)
       /\ r.available = Synced(a, Selected(i), e)
    BY <1>6 DEF Free
<1>11. RequestOK(r)'
  <2>1. \A x \in r.known \ r.available : <<r.row, x>> \in removed'
      BY <1>9, <1>10
  <2>2. r.row \in Rows'
      BY <1>1, <1>10 DEF Rows
  <2> QED BY <1>10, <2>1, <2>2 DEF RequestOK
<1>12. RequestInv' /\ request' \in [Handlers -> Requests]
    BY <1>2, <1>3, <1>6, <1>8, <1>11, Replaced DEF Begin
<1>13. ProjectInv'
    BY <1>1, <1>3, ProjectsStay
<1>14. TypeOK' /\ OneConnection'
    BY <1>1, <1>12 DEF IInv, TypeOK, Rows, OneConnection
<1> QED BY <1>12, <1>13, <1>14 DEF IInv

\* A step that gives projects another availability.
LEMMA AvailabilityInv ==
    ASSUME IInv, NEW h \in Handlers, End(h),
           UNCHANGED <<owner, status, connected, removed>>,
           project' = [p \in ProjectIds |-> project'[p]],
           \A p \in ProjectIds :
               \/ project'[p] = project[p]
               \/ \E a \in BOOLEAN :
                     /\ project'[p] = [project[p] EXCEPT !.available = a]
                     /\ a \/ Reported(project[p])
    PROVE  IInv'
<1>1. ASSUME NEW p \in ProjectIds
      PROVE  /\ project'[p] \in ProjectRows
             /\ Follows(project'[p], project[p])
             /\ ProjectOK(project[p])'
  <2>1. project[p] \in ProjectRows /\ ProjectOK(project[p])
      BY DEF IInv, TypeOK, ProjectInv
  <2>2. CASE project'[p] = project[p]
      BY <2>1, <2>2 DEF Follows, ProjectOK, Reported, Rows
  <2>3. ASSUME NEW a \in BOOLEAN, a \/ Reported(project[p]),
               project'[p] = [project[p] EXCEPT !.available = a]
        PROVE  /\ project'[p] \in ProjectRows
               /\ Follows(project'[p], project[p])
               /\ ProjectOK(project[p])'
    <3>1. /\ project'[p].at = project[p].at
          /\ project'[p].user = project[p].user
          /\ project'[p].installation = project[p].installation
          /\ project'[p].repository = project[p].repository
          /\ project'[p].available = a
          /\ project'[p] \in ProjectRows
        BY <2>1, <2>3 DEF ProjectRows
    <3> QED BY <2>1, <2>3, <3>1 DEF Follows, ProjectOK, Reported, Rows
  <2> QED BY <2>2, <2>3
<1>2. RowsStay /\ ProjectsFollow
    BY <1>1, SameRows DEF ProjectsFollow
<1>3. RequestInv' /\ request' \in [Handlers -> Requests]
  <2>1. RequestOK(Free)'
      BY FreeOK, <1>2, RequestStays
  <2> QED BY <1>2, <2>1, FreeOK, Replaced DEF End
<1>4. ProjectInv' /\ project' \in [ProjectIds -> ProjectRows]
    BY <1>1 DEF ProjectInv
<1>5. TypeOK' /\ OneConnection'
    BY <1>3, <1>4 DEF IInv, TypeOK, Rows, OneConnection
<1> QED BY <1>3, <1>4, <1>5 DEF IInv

LEMMA SyncInv ==
    ASSUME IInv, NEW h \in Handlers, Sync(h)
    PROVE  IInv'
<1> DEFINE r == request[h]
<1>1. /\ r \in Requests /\ RequestOK(r) /\ r.at = "sync"
      /\ End(h) /\ UNCHANGED <<owner, status, connected, removed>>
    BY DEF IInv, TypeOK, RequestInv, Sync
<1>2. ASSUME NEW p \in ProjectIds
      PROVE  \/ project'[p] = project[p]
             \/ \E a \in BOOLEAN :
                   /\ project'[p] = [project[p] EXCEPT !.available = a]
                   /\ a \/ Reported(project[p])
  <2>1. CASE /\ project[p].at = "stored" /\ project[p].installation = r.row
             /\ project[p].repository \in r.known
    <3>1. PICK a \in BOOLEAN : a = (project[p].repository \in r.available)
        BY Truth, Zenon
    <3>2. project'[p] = [project[p] EXCEPT !.available = a]
        BY <2>1, <3>1 DEF Sync
    <3>3. r.row # None
        BY <2>1 DEF IInv, ProjectInv, ProjectOK, Rows
    <3>4. a \/ Reported(project[p])
      <4>1. CASE project[p].repository \in r.available
          BY <3>1, <4>1
      <4>2. CASE project[p].repository \notin r.available
          BY <1>1, <2>1, <3>3, <4>2 DEF RequestOK, Reported
      <4> QED BY <4>1, <4>2
    <3> QED BY <3>2, <3>4
  <2>2. CASE ~(/\ project[p].at = "stored"
               /\ project[p].installation = r.row
               /\ project[p].repository \in r.known)
      BY <2>2 DEF Sync
  <2> QED BY <2>1, <2>2
<1>3. project' = [p \in ProjectIds |-> project'[p]]
    BY DEF Sync
<1> QED BY <1>1, <1>2, <1>3, AvailabilityInv

LEMMA OtherEventInv ==
    ASSUME IInv, NEW h \in Handlers, NEW e, OtherEvent(h, e)
    PROVE  IInv'
<1>1. /\ request' = [request EXCEPT ![h] = request[h]]
      /\ request[h] \in Requests /\ RequestOK(request[h])
      /\ UNCHANGED <<owner, status, connected, project, removed>>
    BY DEF OtherEvent, vars, IInv, TypeOK, RequestInv
<1> QED BY <1>1, OnlyRequest

-----------------------------------------------------------------------------
(* Projects.                                                               *)

LEMMA WriteProjectInv ==
    ASSUME IInv, NEW h \in Handlers, WriteProject(h)
    PROVE  IInv'
<1> DEFINE r == request[h]
           q == request[h].project
<1>1. /\ r \in Requests /\ RequestOK(r) /\ r.at = "edit"
      /\ q \in ProjectIds
      /\ End(h) /\ UNCHANGED <<owner, status, connected, removed>>
      /\ project \in [ProjectIds -> ProjectRows]
    BY DEF IInv, TypeOK, RequestInv, RequestOK, WriteProject
<1>2. CASE project[q].at # "stored"
    BY <1>1, <1>2, AvailabilityInv DEF WriteProject
<1>3. CASE project[q].at = "stored"
  <2>1. PICK a \in BOOLEAN : a = (project[q].repository \in r.available)
      BY Truth, Zenon
  <2>2. project' = [project EXCEPT ![q].available = a]
      BY <1>3, <2>1 DEF WriteProject
  <2>3. a \/ Reported(project[q])
    <3>1. CASE project[q].repository \in r.available
        BY <2>1, <3>1
    <3>2. CASE project[q].repository \notin r.available
        BY <1>1, <1>3, <3>2 DEF RequestOK
    <3> QED BY <3>1, <3>2
  <2>4. ASSUME NEW p \in ProjectIds
        PROVE  \/ project'[p] = project[p]
               \/ /\ project'[p] = [project[p] EXCEPT !.available = a]
                  /\ a \/ Reported(project[p])
      BY <1>1, <2>2, <2>3
  <2>5. project' = [p \in ProjectIds |-> project'[p]]
      BY <1>1, <2>2
  <2> QED BY <1>1, <2>1, <2>4, <2>5, AvailabilityInv
<1> QED BY <1>2, <1>3

LEMMA DeleteProjectInv ==
    ASSUME IInv, NEW p \in ProjectIds, DeleteProject(p)
    PROVE  IInv'
<1>1. /\ project' = [project EXCEPT ![p] = Deleted]
      /\ UNCHANGED <<owner, status, connected, request, removed>>
      /\ project \in [ProjectIds -> ProjectRows]
    BY DEF DeleteProject, IInv, TypeOK
<1>2. RowsStay /\ ProjectsFollow
    BY <1>1, DeletedOK, SameRows DEF ProjectsFollow, Follows
<1>3. RequestInv'
  <2>1. ASSUME NEW g \in Handlers
        PROVE  RequestOK(request[g])'
    <3>1. PICK q : q = request[g]
        OBVIOUS
    <3>2. q \in Requests /\ RequestOK(q)
        BY <3>1 DEF IInv, TypeOK, RequestInv
    <3>3. RequestOK(q)'
        BY <1>2, <3>2, RequestStays
    <3> QED BY <1>1, <3>1, <3>3 DEF RequestOK
  <2> QED BY <2>1 DEF RequestInv
<1>4. ProjectInv'
    BY <1>1, DeletedOK DEF IInv, ProjectInv, ProjectOK, Reported, Rows
<1>5. TypeOK' /\ OneConnection'
    BY <1>1, DeletedOK DEF IInv, TypeOK, Rows, OneConnection
<1> QED BY <1>3, <1>4, <1>5 DEF IInv

LEMMA StoreProjectInv ==
    ASSUME IInv, NEW h \in Handlers, StoreProject(h)
    PROVE  IInv'
<1> DEFINE r == request[h]
<1>1. /\ r \in Requests /\ RequestOK(r) /\ r.at = "chosen"
      /\ r.user \in Users /\ r.repository \in Repositories
      /\ End(h) /\ UNCHANGED <<owner, status, connected, removed>>
    BY DEF IInv, TypeOK, RequestInv, RequestOK, StoreProject
<1>2. CASE r.row = None
    BY <1>1, <1>2, EndInv DEF StoreProject
<1>3. CASE r.row # None
  <2>1. PICK q : q = [at |-> "stored", user |-> r.user,
                      installation |-> r.row,
                      repository |-> r.repository, available |-> TRUE]
      OBVIOUS
  <2>2. PICK p \in ProjectIds : /\ project[p].at = "none"
                                /\ project' = [project EXCEPT ![p] = q]
      BY <1>3, <2>1 DEF StoreProject
  <2>3. r.row \in Rows /\ owner[r.row] = r.user
      BY <1>1, <1>3 DEF RequestOK
  <2>4. /\ q \in ProjectRows /\ q.at = "stored" /\ q.available
        /\ q.installation \in Rows /\ owner[q.installation] = q.user
        /\ q.repository \in Repositories
      BY <1>1, <2>1, <2>3 DEF ProjectRows, Requests
  <2>5. RowsStay /\ ProjectsFollow
      BY <1>1, <2>2, <2>4, SameRows DEF ProjectsFollow, Follows, IInv, TypeOK
  <2>6. RequestInv' /\ request' \in [Handlers -> Requests]
    <3>1. RequestOK(Free)'
        BY FreeOK, <2>5, RequestStays
    <3> QED BY <1>1, <2>5, <3>1, FreeOK, Replaced DEF End
  <2>7. ProjectInv'
    <3>1. ASSUME NEW x \in ProjectIds
          PROVE  ProjectOK(project[x])'
      <4>1. PICK y : y = project'[x]
          OBVIOUS
      <4>2. y = q \/ y = project[x]
          BY <2>2, <4>1 DEF IInv, TypeOK
      <4>3. ProjectOK(y)
          BY <2>4, <4>2 DEF IInv, ProjectInv, ProjectOK
      <4> QED BY <1>1, <4>1, <4>3 DEF ProjectOK, Reported, Rows
    <3> QED BY <3>1 DEF ProjectInv
  <2>8. project' \in [ProjectIds -> ProjectRows]
      BY <2>2, <2>4 DEF IInv, TypeOK
  <2>9. TypeOK' /\ OneConnection'
      BY <1>1, <2>6, <2>8 DEF IInv, TypeOK, Rows, OneConnection
  <2> QED BY <2>6, <2>7, <2>9 DEF IInv
<1> QED BY <1>2, <1>3

-----------------------------------------------------------------------------
(* Rows and connections.                                                   *)

\* User u works with installation i and no other.
LEMMA SwitchedOne ==
    ASSUME IInv, NEW u \in Users, NEW i \in Installations,
           owner[i] \in {None, u},
           owner' = [owner EXCEPT ![i] = u],
           connected' = Switched(u, i),
           UNCHANGED removed
    PROVE  connected' \subseteq Rows' /\ OneConnection' /\ RowsStay
<1>1. /\ owner \in [Installations -> Users \cup {None}]
      /\ connected \subseteq Rows
    BY DEF IInv, TypeOK
<1>2. owner'[i] = u /\ \A j \in Installations \ {i} : owner'[j] = owner[j]
    BY <1>1
<1>3. connected' \subseteq Rows'
    BY <1>1, <1>2 DEF Switched, Rows
<1>4. ASSUME NEW j \in connected', NEW k \in connected',
             owner'[j] = owner'[k]
      PROVE  j = k
  <2>1. \A x \in connected' \ {i} : x \in connected /\ owner[x] # u
      BY <1>1 DEF Switched, Mine
  <2>2. CASE j = i \/ k = i
      BY <1>1, <1>2, <1>4, <2>1, <2>2 DEF Rows
  <2>3. CASE j # i /\ k # i
      BY <1>1, <1>2, <1>4, <2>1, <2>3 DEF IInv, OneConnection, Rows
  <2> QED BY <2>2, <2>3
<1>5. \A j \in Rows : owner'[j] = owner[j]
    BY <1>1, <1>2 DEF Rows
<1> QED BY <1>1, <1>3, <1>4, <1>5 DEF OneConnection, RowsStay

LEMMA StoreInstallationInv ==
    ASSUME IInv, NEW h \in Handlers, StoreInstallation(h)
    PROVE  IInv'
<1> DEFINE u == request[h].user
<1>1. /\ request[h] \in Requests /\ RequestOK(request[h]) /\ u \in Users
      /\ request[h].at = "store" /\ UNCHANGED <<project, removed>>
    BY DEF IInv, TypeOK, RequestInv, RequestOK, StoreInstallation
<1>2. PICK i \in request[h].todo :
          IF owner[i] \in {None, u}
          THEN /\ owner' = [owner EXCEPT ![i] = u]
               /\ status' = [status EXCEPT ![i] = "active"]
               /\ connected' = Switched(u, i)
               /\ IF request[h].todo = {i}
                  THEN End(h)
                  ELSE request' = [request EXCEPT ![h].todo = @ \ {i}]
          ELSE End(h) /\ UNCHANGED <<owner, status, connected>>
    BY DEF StoreInstallation
<1>3. i \in Installations
    BY <1>1 DEF Requests
<1>4. CASE owner[i] \notin {None, u}
    BY <1>1, <1>2, <1>4, EndInv
<1>5. CASE owner[i] \in {None, u}
  <2>1. /\ connected' \subseteq Rows' /\ OneConnection'
        /\ RowsStay /\ ProjectsFollow
      BY <1>1, <1>2, <1>3, <1>5, SwitchedOne, SameFollow
  <2>2. PICK r : r = IF request[h].todo = {i} THEN Free
                     ELSE [request[h] EXCEPT !.todo = @ \ {i}]
      OBVIOUS
  <2>3. request' = [request EXCEPT ![h] = r]
      BY <1>2, <1>5, <2>2 DEF End, IInv, TypeOK
  <2>4. r \in Requests /\ RequestOK(r)
      BY <1>1, <2>2, FreeOK DEF Requests, RequestOK
  <2>5. RequestInv' /\ request' \in [Handlers -> Requests]
      BY <2>1, <2>3, <2>4, RequestStays, Replaced
  <2>6. ProjectInv'
      BY <1>1, <2>1, ProjectsStay
  <2>7. TypeOK'
    <3>1. /\ owner' \in [Installations -> Users \cup {None}]
          /\ status' \in [Installations ->
                             {"none", "active", "suspended", "uninstalled"}]
        BY <1>1, <1>2, <1>3, <1>5 DEF IInv, TypeOK
    <3>2. \A j \in Installations : status'[j] = "none" <=> owner'[j] = None
        BY <1>1, <1>2, <1>3, <1>5 DEF IInv, TypeOK
    <3> QED BY <1>1, <2>1, <2>5, <3>1, <3>2 DEF IInv, TypeOK
  <2> QED BY <2>1, <2>5, <2>6, <2>7 DEF IInv
<1> QED BY <1>4, <1>5

\* A request ends with another set of connected rows.
LEMMA ConnectedInv ==
    ASSUME IInv, NEW h \in Handlers, End(h),
           UNCHANGED <<owner, status, project, removed>>,
           connected' \subseteq Rows, OneConnection'
    PROVE  IInv'
<1>1. RowsStay /\ ProjectsFollow
    BY SameRows, SameFollow
<1>2. RequestInv' /\ request' \in [Handlers -> Requests]
    BY FreeOK, <1>1, RequestStays, Replaced DEF End
<1>3. ProjectInv'
    BY <1>1, ProjectsStay
<1>4. TypeOK'
    BY <1>2 DEF IInv, TypeOK, Rows
<1> QED BY <1>2, <1>3, <1>4 DEF IInv

LEMMA ConnectInv ==
    ASSUME IInv, NEW h \in Handlers, Connect(h)
    PROVE  IInv'
<1> DEFINE u == request[h].user
           i == request[h].row
<1>1. /\ RequestOK(request[h]) /\ request[h].at = "connect" /\ u \in Users
      /\ End(h) /\ UNCHANGED <<owner, status, project, removed>>
    BY DEF IInv, RequestInv, RequestOK, Connect
<1>2. CASE i = None
    BY <1>1, <1>2, EndInv DEF Connect
<1>3. CASE i # None
  <2>1. i \in Installations /\ owner[i] = u /\ i \in Rows
      BY <1>1, <1>3 DEF RequestOK, Rows
  <2>2. owner' = [owner EXCEPT ![i] = u]
      BY <1>1, <2>1 DEF IInv, TypeOK
  <2>3. connected' = Switched(u, i)
      BY <1>3 DEF Connect
  <2>4. connected' \subseteq Rows' /\ OneConnection'
    <3> HIDE DEF u, i
    <3> QED BY <1>1, <2>1, <2>2, <2>3, SwitchedOne
  <2> QED BY <1>1, <2>4, ConnectedInv DEF Rows
<1> QED BY <1>2, <1>3

LEMMA DisconnectInv ==
    ASSUME IInv, NEW h \in Handlers, Disconnect(h)
    PROVE  IInv'
<1>1. /\ End(h) /\ UNCHANGED <<owner, status, project, removed>>
      /\ connected' \subseteq connected
    BY DEF Disconnect
<1>2. connected' \subseteq Rows /\ OneConnection'
    BY <1>1 DEF IInv, TypeOK, OneConnection
<1> QED BY <1>1, <1>2, ConnectedInv

LEMMA DeleteInstallationsInv ==
    ASSUME IInv, NEW u \in Users, DeleteInstallations(u)
    PROVE  IInv'
<1> DEFINE gone == Mine(u)
<1>1. /\ owner' = [i \in Installations |-> IF i \in gone THEN None
                                                         ELSE owner[i]]
      /\ status' = [i \in Installations |-> IF i \in gone THEN "none"
                                                          ELSE status[i]]
      /\ connected' = connected \ gone
      /\ project' = [p \in ProjectIds |-> IF project[p].at = "stored"
                                              /\ project[p].installation \in gone
                                          THEN Deleted
                                          ELSE project[p]]
      /\ request' = [h \in Handlers |->
                        IF request[h].row \in gone
                        THEN [request[h] EXCEPT !.row = None]
                        ELSE request[h]]
      /\ removed' = {ir \in removed : ir[1] \notin gone}
    BY DEF DeleteInstallations, Cascaded
<1>2. gone \subseteq Installations /\ None \notin gone
    BY DEF Mine, Rows
<1> HIDE DEF gone
<1>3. /\ owner \in [Installations -> Users \cup {None}]
      /\ owner' \in [Installations -> Users \cup {None}]
      /\ \A i \in Rows \ gone : i \in Rows' /\ owner'[i] = owner[i]
      /\ \A i \in Rows' : i \in Rows /\ i \notin gone
    BY <1>1, <1>2 DEF IInv, TypeOK, Rows
<1>4. ASSUME NEW p \in ProjectIds
      PROVE  /\ project'[p] \in ProjectRows
             /\ project[p].at # "none" => project'[p].at # "none"
             /\ project'[p].at = "stored" =>
                   /\ project'[p] = project[p]
                   /\ project[p].installation \notin gone
      BY <1>1, DeletedOK DEF IInv, TypeOK
<1>5. \A i, x : <<i, x>> \in removed /\ i \notin gone => <<i, x>> \in removed'
    BY <1>1
<1>6. ProjectInv'
  <2>1. ASSUME NEW p \in ProjectIds, project'[p].at = "stored"
        PROVE  /\ project'[p].installation \in Rows'
               /\ owner'[project'[p].installation] = project'[p].user
               /\ project'[p].repository \in Repositories
               /\ project'[p].available
                  \/ <<project'[p].installation, project'[p].repository>>
                         \in removed'
    <3>1. ProjectOK(project[p]) /\ project'[p] = project[p]
          /\ project[p].installation \notin gone
        BY <1>4, <2>1 DEF IInv, ProjectInv
    <3> QED BY <1>3, <1>5, <2>1, <3>1 DEF ProjectOK, Reported
  <2> QED BY <2>1 DEF ProjectInv, ProjectOK, Reported
<1>7. ASSUME NEW h \in Handlers
      PROVE  request'[h] \in Requests /\ RequestOK(request[h])'
  <2>1. request[h] \in Requests /\ RequestOK(request[h])
      BY DEF IInv, TypeOK, RequestInv
  <2>2. PICK q : q = request'[h]
      OBVIOUS
  <2>3. /\ q \in Requests /\ q.at = request[h].at
        /\ q.user = request[h].user /\ q.repository = request[h].repository
        /\ q.project = request[h].project /\ q.known = request[h].known
        /\ q.available = request[h].available
        /\ q.row # None => q.row = request[h].row /\ q.row \notin gone
    <3>1. CASE request[h].row \in gone
      <4>1. q = [request[h] EXCEPT !.row = None]
          BY <1>1, <2>2, <3>1
      <4> QED BY <2>1, <4>1 DEF Requests
    <3>2. CASE request[h].row \notin gone
      <4>1. q = request[h]
          BY <1>1, <2>2, <3>2
      <4> QED BY <2>1, <3>2, <4>1
    <3> QED BY <3>1, <3>2
  <2>4. q.row # None => q.row \in Rows' /\ owner'[q.row] = owner[q.row]
      BY <1>3, <2>1, <2>3 DEF RequestOK
  <2>5. q.at = "sync" /\ q.row # None =>
            \A x \in q.known \ q.available : <<q.row, x>> \in removed'
      BY <1>5, <2>1, <2>3 DEF RequestOK
  <2>6. ASSUME q.at = "edit"
        PROVE  /\ q.project \in ProjectIds
               /\ project'[q.project].at # "none"
               /\ \/ project'[q.project].at # "stored"
                  \/ project'[q.project].repository \in q.available
                  \/ <<project'[q.project].installation,
                       project'[q.project].repository>> \in removed'
    <3>1. /\ q.project \in ProjectIds /\ project[q.project].at # "none"
          /\ \/ project[q.project].at # "stored"
             \/ project[q.project].repository \in q.available
             \/ Reported(project[q.project])
        BY <2>1, <2>3, <2>6 DEF RequestOK
    <3> QED BY <1>4, <1>5, <3>1 DEF Reported
  <2>7. RequestOK(q)'
      BY <2>1, <2>3, <2>4, <2>5, <2>6 DEF RequestOK, Reported
  <2> QED BY <2>2, <2>3, <2>7 DEF RequestOK
<1>8. RequestInv' /\ request' \in [Handlers -> Requests]
    BY <1>1, <1>7 DEF RequestInv
<1>9. OneConnection' /\ connected' \subseteq Rows'
    BY <1>1, <1>3 DEF IInv, TypeOK, OneConnection
<1>10. /\ status' \in [Installations ->
                          {"none", "active", "suspended", "uninstalled"}]
       /\ \A i \in Installations : status'[i] = "none" <=> owner'[i] = None
    BY <1>1 DEF IInv, TypeOK
<1>11. project' \in [ProjectIds -> ProjectRows]
    BY <1>1, <1>4
<1>12. TypeOK'
    BY <1>1, <1>3, <1>8, <1>9, <1>10, <1>11 DEF IInv, TypeOK
<1> QED BY <1>6, <1>8, <1>9, <1>12 DEF IInv

LEMMA StepInv == IInv /\ [Next]_vars => IInv'
<1> SUFFICES ASSUME IInv, [Next]_vars PROVE IInv'
    OBVIOUS
<1>1. CASE UNCHANGED vars
    BY <1>1 DEF vars, IInv, TypeOK, RequestInv, RequestOK, ProjectInv,
       ProjectOK, Reported, OneConnection, Rows
<1>2. CASE \E h \in Handlers : Deliver(h)
    BY <1>2, InstallationEventInv, RepositoriesEventInv, OtherEventInv
       DEF Deliver
<1>3. CASE Next /\ ~\E h \in Handlers : Deliver(h)
    BY <1>3, DeleteInstallationsInv, DeleteProjectInv, StoreInstallationInv,
       ConnectInv, DisconnectInv, ExternalIDInv, ActivateInv, SyncInv,
       ChooseInstallationInv, StoreProjectInv, WriteProjectInv, AbandonInv,
       InstallCallbackInv, ReadForConnectionInv, VerifyRepositoryInv,
       ReadProjectInv DEF Next
<1> QED BY <1>1, <1>2, <1>3

-----------------------------------------------------------------------------
(* What a step does to owners and connections.                             *)

WorksWith(u, i) ==
    /\ owner[i] \in {None, u}
    /\ owner' = [owner EXCEPT ![i] = u]
    /\ connected' = Switched(u, i)

LEMMA Kinds ==
    ASSUME IInv, [Next]_vars
    PROVE  \/ UNCHANGED <<owner, connected>>
           \/ \E u \in Users, i \in Installations : WorksWith(u, i)
           \/ \E h \in Handlers : Disconnect(h)
           \/ \E u \in Users : DeleteInstallations(u)
<1>1. ASSUME NEW h \in Handlers, StoreInstallation(h)
      PROVE  \/ UNCHANGED <<owner, connected>>
             \/ \E u \in Users, i \in Installations : WorksWith(u, i)
  <2>1. request[h].user \in Users /\ request[h].todo \subseteq Installations
      BY <1>1 DEF IInv, TypeOK, Requests, RequestInv, RequestOK,
         StoreInstallation
  <2> QED BY <1>1, <2>1 DEF StoreInstallation, WorksWith
<1>2. ASSUME NEW h \in Handlers, Connect(h)
      PROVE  \/ UNCHANGED <<owner, connected>>
             \/ \E u \in Users, i \in Installations : WorksWith(u, i)
  <2>1. CASE request[h].row = None
      BY <1>2, <2>1 DEF Connect
  <2>2. CASE request[h].row # None
    <3>1. PICK u \in Users, i \in Installations :
              u = request[h].user /\ i = request[h].row
        BY <1>2, <2>2 DEF Connect, IInv, RequestInv, RequestOK, Rows
    <3>2. owner[i] = u
        BY <1>2, <2>2, <3>1 DEF Connect, IInv, RequestInv, RequestOK
    <3>3. owner' = [owner EXCEPT ![i] = u]
        BY <1>2, <3>2 DEF Connect, IInv, TypeOK
    <3>4. connected' = Switched(u, i)
        BY <1>2, <2>2, <3>1 DEF Connect
    <3> QED BY <3>2, <3>3, <3>4 DEF WorksWith
  <2> QED BY <2>1, <2>2
<1>3. CASE UNCHANGED vars
    BY <1>3 DEF vars
<1>4. ASSUME NEW h \in Handlers, Deliver(h)
      PROVE  UNCHANGED <<owner, connected>>
    BY <1>4 DEF Deliver, InstallationEvent, RepositoriesEvent, OtherEvent, vars
<1>5. ASSUME NEW h \in Handlers,
             \/ ExternalID(h) \/ Activate(h) \/ Sync(h)
             \/ ChooseInstallation(h) \/ StoreProject(h) \/ WriteProject(h)
             \/ Abandon(h)
             \/ \E u \in Users : \/ InstallCallback(h, u)
                                 \/ ReadForConnection(h, u)
                                 \/ VerifyRepository(h, u)
             \/ \E p \in ProjectIds : ReadProject(h, p)
      PROVE  UNCHANGED <<owner, connected>>
    BY <1>5 DEF ExternalID, Activate, Sync, ChooseInstallation, StoreProject,
       WriteProject, Abandon, InstallCallback, ReadForConnection,
       VerifyRepository, ReadProject
<1>6. ASSUME NEW p \in ProjectIds, DeleteProject(p)
      PROVE  UNCHANGED <<owner, connected>>
    BY <1>6 DEF DeleteProject
<1> QED BY <1>1, <1>2, <1>3, <1>4, <1>5, <1>6 DEF Next

Current(u) == connected \cap Mine(u)

LEMMA WorksWithOne ==
    ASSUME IInv, NEW u \in Users, NEW i \in Installations, WorksWith(u, i)
    PROVE  /\ Current(u)' = {i}
           /\ \A v \in Users \ {u} : Current(v)' = Current(v)
<1>1. /\ owner \in [Installations -> Users \cup {None}]
      /\ connected \subseteq Rows
      /\ owner[i] \in {None, u} /\ connected' = Switched(u, i)
      /\ owner'[i] = u /\ \A j \in Installations \ {i} : owner'[j] = owner[j]
    BY DEF IInv, TypeOK, WorksWith
<1>2. Current(u)' = {i}
    BY <1>1 DEF Current, Mine, Rows, Switched
<1>3. \A v \in Users \ {u} : Current(v)' = Current(v)
    BY <1>1 DEF Current, Mine, Rows, Switched
<1> QED BY <1>2, <1>3

\* A disconnection takes the only connection of the user, or nothing.
LEMMA DisconnectsOne ==
    ASSUME IInv, NEW h \in Handlers, Disconnect(h),
           NEW u \in Users, u = request[h].user
    PROVE  /\ owner' = owner
           /\ \/ connected' = connected
              \/ /\ Current(u)' = {}
                 /\ \A v \in Users \ {u} : Current(v)' = Current(v)
<1> DEFINE i == request[h].row
<1>2. owner' = owner /\ connected' = connected \ {i}
    BY DEF Disconnect
<1>3. CASE i \notin connected
    BY <1>2, <1>3
<1>4. CASE i \in connected
  <2>1. owner[i] = u /\ i \in Rows /\ connected \subseteq Rows
      BY <1>4 DEF IInv, TypeOK, RequestInv, RequestOK, Disconnect, Rows
  <2>2. \A j \in connected : owner[j] = u => j = i
      BY <1>4, <2>1 DEF IInv, OneConnection
  <2>3. Current(u)' = {}
      BY <1>2, <2>2 DEF Current, Mine, Rows
  <2>4. \A v \in Users \ {u} : Current(v)' = Current(v)
      BY <1>2, <2>1 DEF Current, Mine, Rows
  <2> QED BY <1>2, <2>3, <2>4
<1> QED BY <1>3, <1>4

LEMMA ReleasesAll ==
    ASSUME IInv, NEW u \in Users, DeleteInstallations(u)
    PROVE  /\ owner' = [i \in Installations |-> IF owner[i] = u THEN None
                                                                ELSE owner[i]]
           /\ Current(u)' = {} /\ Mine(u)' = {}
           /\ \A v \in Users \ {u} : Current(v)' = Current(v)
<1>1. /\ owner' = [i \in Installations |-> IF i \in Mine(u) THEN None
                                                            ELSE owner[i]]
      /\ connected' = connected \ Mine(u)
      /\ \A i \in Installations : i \in Mine(u) <=> owner[i] = u
    BY DEF DeleteInstallations, Mine, Rows
<1>2. owner' = [i \in Installations |-> IF owner[i] = u THEN None
                                                        ELSE owner[i]]
    BY <1>1
<1>3. Mine(u)' = {}
    BY <1>2 DEF Mine, Rows
<1>4. \A v \in Users \ {u} : Current(v)' = Current(v)
    BY <1>1 DEF Current, Mine, Rows
<1> QED BY <1>2, <1>3, <1>4 DEF Current

-----------------------------------------------------------------------------
(* The theorems.                                                           *)

\* In every reachable state requests hold what they may rely on
\* (pgsql_github.go, pgsql_project.go).
THEOREM Inductive == Spec => []IInv
BY InitInv, StepInv, PTL DEF Spec

\* The variables keep their types; only stored rows have a status or are
\* connected (github_installations).
THEOREM TypeCorrect == Spec => []TypeOK
<1>1. IInv => TypeOK
    BY DEF IInv
<1> QED BY <1>1, Inductive, PTL

\* A project is on an installation of its user (CreateProject with its two
\* reads, StoreInstallation, the cascade of DeleteInstallationByUserID).
THEOREM ProjectsStayWithOwner == Spec => []ProjectsOnOwnInstallation
<1>1. IInv => ProjectsOnOwnInstallation
    BY DEF IInv, ProjectInv, ProjectOK, ProjectsOnOwnInstallation
<1> QED BY <1>1, Inductive, PTL

\* Only what GitHub reported removed is unavailable
\* (handleInstallationRepositoriesEvent, UpdateProject).
THEOREM UnavailableOnlyIfRemoved == Spec => []UnavailableWasRemoved
<1>1. IInv => UnavailableWasRemoved
    BY DEF IInv, ProjectInv, ProjectOK, Reported, UnavailableWasRemoved
<1> QED BY <1>1, Inductive, PTL

\* Nobody is left without a connection by a switch (UpdateConnectionStatus of
\* pgsql_github.go, StoreInstallation).
THEOREM SwitchesAreAtomic == Spec => SwitchIsAtomic
<1> DEFINE Step ==
        \A u \in Users :
            \/ connected \cap Mine(u) = {}
            \/ connected' \cap Mine(u)' # {}
            \/ Mine(u)' = {}
            \/ \E h \in Handlers : /\ request[h].at = "disconnect"
                                   /\ request[h].user = u
                                   /\ request'[h] # request[h]
<1>1. IInv /\ [Next]_vars => Step
  <2> SUFFICES ASSUME IInv, [Next]_vars, NEW u \in Users,
                      Current(u) # {}, Current(u)' = {}, Mine(u)' # {}
               PROVE  \E h \in Handlers : /\ request[h].at = "disconnect"
                                          /\ request[h].user = u
                                          /\ request'[h] # request[h]
      BY DEF Current
  <2>1. ~UNCHANGED <<owner, connected>>
      BY DEF Current, Mine, Rows
  <2>2. ~\E v \in Users, i \in Installations : WorksWith(v, i)
      BY WorksWithOne
  <2>3. ~\E v \in Users : DeleteInstallations(v)
      BY ReleasesAll
  <2>4. PICK h \in Handlers : Disconnect(h)
      BY <2>1, <2>2, <2>3, Kinds
  <2>5. request[h].user = u
    <3>1. PICK v \in Users : v = request[h].user
        BY <2>4 DEF IInv, RequestInv, RequestOK, Disconnect
    <3> QED BY <2>1, <2>4, <3>1, DisconnectsOne
  <2>6. request[h].at = "disconnect" /\ request'[h].at = "free"
      BY <2>4 DEF Disconnect, End, Free, IInv, TypeOK
  <2> QED BY <2>5, <2>6
<1>2. [][Step]_vars => SwitchIsAtomic
    BY DEF SwitchIsAtomic
<1> HIDE DEF Step
<1>3. Spec => [][Step]_vars
    BY <1>1, Inductive, PTL DEF Spec
<1> QED BY <1>2, <1>3

\* The tables implement the abstract connections: the row a request holds is
\* checked again, or gone, when it is written (StoreInstallation,
\* UpdateConnectionStatus, DeleteInstallationByUserID of pgsql_github.go).
THEOREM RowsImplementConnections == Spec => ImplementsConnections
<1> DEFINE current == [u \in Users |-> connected \cap Mine(u)]
<1>1. Init => Abstract!Init
    BY DEF Init, Abstract!Init, Mine, Rows
<1>2. ASSUME IInv, [Next]_vars
      PROVE  [Abstract!Next]_<<owner, current>>
  <2>1. CASE UNCHANGED <<owner, connected>>
      BY <2>1 DEF Mine, Rows
  <2>2. ASSUME NEW u \in Users, NEW i \in Installations, WorksWith(u, i)
        PROVE  Abstract!Claim(u, i)
    <3>1. current' = [current EXCEPT ![u] = {i}]
        BY <1>2, <2>2, WorksWithOne DEF Current
    <3> QED BY <2>2, <3>1 DEF WorksWith, Abstract!Claim
  <2>3. ASSUME NEW h \in Handlers, Disconnect(h)
        PROVE  \/ UNCHANGED <<owner, connected>>
               \/ \E u \in Users : Abstract!Disconnect(u)
    <3>1. PICK u \in Users : u = request[h].user
        BY <1>2, <2>3 DEF IInv, RequestInv, RequestOK, Disconnect
    <3>2. CASE connected' = connected
        BY <1>2, <2>3, <3>1, <3>2, DisconnectsOne
    <3>3. CASE connected' # connected
      <4>1. current' = [current EXCEPT ![u] = {}]
          BY <1>2, <2>3, <3>1, <3>3, DisconnectsOne DEF Current
      <4>2. owner' = owner
          BY <1>2, <2>3, <3>1, DisconnectsOne
      <4> QED BY <4>1, <4>2 DEF Abstract!Disconnect
    <3> QED BY <3>2, <3>3
  <2>4. ASSUME NEW u \in Users, DeleteInstallations(u)
        PROVE  Abstract!Release(u)
    <3>1. current' = [current EXCEPT ![u] = {}]
        BY <1>2, <2>4, ReleasesAll DEF Current
    <3> QED BY <1>2, <2>4, <3>1, ReleasesAll DEF Abstract!Release
  <2>5. \/ UNCHANGED <<owner, connected>>
        \/ Abstract!Next
      BY <1>2, <2>2, <2>3, <2>4, Kinds DEF Abstract!Next
  <2> QED BY <2>1, <2>5
<1> QED BY <1>1, <1>2, Inductive, PTL
        DEF Spec, ImplementsConnections, Abstract!Spec
=============================================================================
