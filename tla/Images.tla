------------------------------- MODULE Images -------------------------------
(***************************************************************************)
(* What an attempt to build a deployment does between its row and its      *)
(* report: ProcessDeployment of                                            *)
(*   worker-server/internal/deployments/deployments.go                     *)
(* over the recipes of detect.go, a commit that never changes, and the     *)
(* storage of images.  These are the steps "building" to "success" of      *)
(* module Worker, taken apart; several workers, each with a build          *)
(* directory of its own, may be at them for one deployment.                *)
(***************************************************************************)
EXTENDS Recipes

CONSTANTS
    Workers,
    Trees,          \* commits
    WorkingDirs     \* settings of working_dir, paths or <<>>

ASSUME ImagesAssumption ==
    \A t \in Trees : <<>> \in DOMAIN t /\ \A p \in DOMAIN t : IsDir(t[p])

VARIABLES
    tree,           \* the commit that is built
    workingDir,     \* working_dir of the project
    attempt,        \* attempts in progress
    image,          \* what is stored under the key of the deployment
    row,            \* the row in the database of the worker
    reports         \* reports of success

vars == <<tree, workingDir, attempt, image, row, reports>>

Attempts == [at: {"idle", "resolve", "prepare", "build", "fallback",
                  "upload", "url", "finish", "report"},
             dir: UNION {DOMAIN t : t \in Trees},
             recipe: Names,
             static: BOOLEAN]   \* isStatic

Rows == [status: {"building", "failed", "success"}, url: BOOLEAN]

Idle == [at |-> "idle", dir |-> <<>>, recipe |-> "none", static |-> FALSE]

Init ==
    /\ tree \in Trees
    /\ workingDir \in WorkingDirs
    /\ attempt = [w \in Workers |-> Idle]
    /\ image = "none"
    /\ row = [status |-> "building", url |-> FALSE]
    /\ reports = {}

Set(w, a) == attempt' = [attempt EXCEPT ![w] = a]

Kind(recipe) == IF recipe \in Static THEN "static" ELSE "dynamic"

-----------------------------------------------------------------------------

\* prepareAndMarkBuilding takes the row back, and leaves its URL.
Begin(w) ==
    /\ attempt[w] = Idle
    /\ row' = [row EXCEPT !.status = "building"]
    /\ Set(w, [Idle EXCEPT !.at = "resolve"])
    /\ UNCHANGED <<tree, workingDir, image, reports>>

\* The checkout is there and its application directory is found.
Resolve(w) ==
    /\ attempt[w].at = "resolve"
    /\ \E p \in ResolveAppDir(tree, workingDir) :
          Set(w, [Idle EXCEPT !.at = "prepare", !.dir = p])
    /\ UNCHANGED <<tree, workingDir, image, row, reports>>

\* cloneAndPrepare: the recipe is chosen and its Dockerfile written.
Prepare(w) ==
    LET recipe == Detect(tree, attempt[w].dir)
    IN  /\ attempt[w].at = "prepare"
        /\ recipe \notin {"none", "refused"}
        /\ Set(w, [attempt[w] EXCEPT !.at = "build", !.recipe = recipe,
                                     !.static = recipe \in Static])
        /\ UNCHANGED <<tree, workingDir, image, row, reports>>

\* buildah runs the Dockerfile; a static one looks for index.html where it
\* expects the output.
Build(w) ==
    LET a == attempt[w]
        dir == tree[a.dir]
    IN  /\ a.at = "build"
        /\ Installs(dir, a.recipe)
        /\ a.static => ~dir.ssr /\ FindsOutput(dir, a.recipe)
        /\ Set(w, [a EXCEPT !.at = IF a.static THEN "upload" ELSE "finish"])
        /\ UNCHANGED <<tree, workingDir, image, row, reports>>

\* The captured output of the failed build has the sentinel: index.html is
\* missing, or a step after the look for it fails, or saving the image does,
\* because buildah prints the instructions it runs.
Mismatch(w) ==
    /\ attempt[w].at = "build" /\ attempt[w].static
    /\ Installs(tree[attempt[w].dir], attempt[w].recipe)
    /\ Set(w, [attempt[w] EXCEPT !.at = "fallback"])
    /\ UNCHANGED <<tree, workingDir, image, row, reports>>

\* Mistaken variant of Fallback: isStatic is left as it was.
FallbackStillStatic(w) ==
    /\ attempt[w].at = "fallback"
    /\ tree[attempt[w].dir].start
    /\ Set(w, [attempt[w] EXCEPT !.at = "upload", !.recipe = "node"])
    /\ UNCHANGED <<tree, workingDir, image, row, reports>>

\* retryAsDynamic: once more with the recipe of Node, if a start script says
\* that there is a server.
Fallback(w) ==
    /\ attempt[w].at = "fallback"
    /\ tree[attempt[w].dir].start
    /\ Set(w, [attempt[w] EXCEPT !.at = "finish", !.recipe = "node",
                                 !.static = FALSE])
    /\ UNCHANGED <<tree, workingDir, image, row, reports>>

\* UploadImage: the key is the deployment's, attempts overwrite each other.
Upload(w) ==
    /\ attempt[w].at = "upload"
    /\ image' = Kind(attempt[w].recipe)
    /\ Set(w, [attempt[w] EXCEPT !.at = "url"])
    /\ UNCHANGED <<tree, workingDir, row, reports>>

UpdateOutputURL(w) ==
    /\ attempt[w].at = "url"
    /\ row' = [row EXCEPT !.url = TRUE]
    /\ Set(w, [attempt[w] EXCEPT !.at = "finish"])
    /\ UNCHANGED <<tree, workingDir, image, reports>>

\* MarkFinished, with the URL or, at the end of finalizeDynamicStub, none.
MarkFinished(w) ==
    /\ attempt[w].at = "finish"
    /\ row' = [status |-> "success", url |-> attempt[w].static]
    /\ Set(w, [attempt[w] EXCEPT !.at = "report"])
    /\ UNCHANGED <<tree, workingDir, image, reports>>

Report(w) ==
    /\ attempt[w].at = "report"
    /\ reports' = reports \cup {[url |-> attempt[w].static]}
    /\ Set(w, Idle)
    /\ UNCHANGED <<tree, workingDir, image, row>>

\* Any step fails, or the process stops; markFailed is called by the steps up
\* to the build, and may fail itself.  Module Worker says what follows.
Fails(w) ==
    /\ attempt[w].at # "idle"
    /\ \/ UNCHANGED row
       \/ /\ attempt[w].at \in {"resolve", "prepare", "build", "fallback"}
          /\ row' = [row EXCEPT !.status = "failed"]
    /\ Set(w, Idle)
    /\ UNCHANGED <<tree, workingDir, image, reports>>

-----------------------------------------------------------------------------
Next ==
    \E w \in Workers :
        \/ Begin(w) \/ Resolve(w) \/ Prepare(w)
        \/ Build(w) \/ Mismatch(w) \/ Fallback(w)
        \/ Upload(w) \/ UpdateOutputURL(w) \/ MarkFinished(w) \/ Report(w)
        \/ Fails(w)

Spec == Init /\ [][Next]_vars

-----------------------------------------------------------------------------
(* Properties.                                                             *)

TypeOK ==
    /\ tree \in Trees /\ workingDir \in WorkingDirs
    /\ attempt \in [Workers -> Attempts]
    /\ image \in {"none", "static", "dynamic"}
    /\ row \in Rows
    /\ reports \subseteq [url: BOOLEAN]

\* A URL, reported or in the row, leads to a static image of an application
\* that needs no server, built where its manifest is, whatever detection
\* guessed first and however attempts overlap and overwrite each other
\* (ProcessDeployment, UploadImage).  A success without a URL is one of an
\* application that has a recipe with a server, or a start script.
URLsServe ==
    LET built == ResolveAppDir(tree, workingDir)
    IN  /\ [url |-> TRUE] \in reports \/ row.url =>
              /\ image = "static"
              /\ \E p \in built : /\ Detect(tree, p) \in Static
                                  /\ ~tree[p].ssr
                                  /\ Installs(tree[p], Detect(tree, p))
        /\ [url |-> FALSE] \in reports =>
              \E p \in built : \/ tree[p].start
                               \/ Detect(tree, p) \notin Static
=============================================================================
