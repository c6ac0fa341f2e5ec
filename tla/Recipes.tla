------------------------------ MODULE Recipes ------------------------------
(***************************************************************************)
(* Which directory of a repository is built, and by which recipe: the      *)
(* rules of worker-server/internal/deployments/detect.go.                  *)
(*                                                                         *)
(* A tree maps the paths of its directories, sequences of names, to what   *)
(* detection reads there.  Hidden directories and those of ignoredDirs are *)
(* not paths of it.  "ssr" and "outDir" say what the rules can only guess: *)
(* whether the application needs a server, so that its build leaves no     *)
(* index.html behind, and where the build writes.                          *)
(***************************************************************************)
EXTENDS Integers, Sequences, FiniteSets

\* The builders in the order detection tries them.
Builders ==
    <<"angular", "nextjs", "nuxt", "sveltekit", "remix", "gatsby", "astro",
      "vite", "svelte", "vue", "solid", "react", "go", "rust", "dotnet",
      "java-maven", "java-gradle", "ruby", "php", "elixir", "python">>

\* Those with dependencies of their own, those without config files, and
\* those with a DefaultOutputDir.
ByDeps == {Builders[n] : n \in 1..12}
DepsOnly == {"svelte", "vue", "solid", "react"}
ByConfig == {Builders[n] : n \in 1..21} \ DepsOnly
Static == {"angular", "gatsby", "astro", "vite"} \cup DepsOnly

\* Dependencies that betray a server: with a recipe, without one, and the
\* adapters of Astro.
SSRDeps == {"tanstack", "vike", "adapter"}

\* Package managers in the order their lock files are looked for: those of
\* Node, then those of Python.
Managers == <<"pnpm", "yarn", "bun", "npm", "uv", "poetry", "pipenv", "pip">>
NodeManagers == {Managers[n] : n \in 1..4}

Names ==
    {Builders[n] : n \in 1..21}
        \cup {"tanstack", "node", "docker", "refused", "none"}

Dirs ==
    [configs: SUBSET ByConfig,
     deps: SUBSET (ByDeps \cup SSRDeps \cup {"other"}),
     package: {"none",      \* no package.json, or one that does not parse
               "empty",     \* one that declares neither deps nor scripts
               "blank",     \* one with an empty object of dependencies
               "scripts",   \* scripts only
               "deps"},
     start: BOOLEAN,        \* a "start" script
     docker: BOOLEAN,       \* a Dockerfile
     locks: SUBSET {Managers[n] : n \in 1..8},
     outDir: {"default", "literal", "computed"},
     ssr: BOOLEAN]

IsDir(dir) == dir \in Dirs /\ (dir.deps # {} => dir.package = "deps")

\* The first element of a sequence that is in S.
First(seq, S) ==
    seq[CHOOSE n \in DOMAIN seq : /\ seq[n] \in S
                                  /\ \A m \in 1..(n - 1) : seq[m] \notin S]

-----------------------------------------------------------------------------

\* checkSSRMetaFramework: a static builder whose dependencies need a server
\* is replaced by a recipe, or refused.
CheckSSR(dir, b) ==
    IF b = "vite" /\ "tanstack" \in dir.deps THEN "tanstack"
    ELSE IF \/ b = "vite" /\ "vike" \in dir.deps
            \/ b = "astro" /\ "adapter" \in dir.deps
         THEN "refused" ELSE b

\* detectFrameworkAtRoot: config files, then dependencies, then any package
\* that declares some, then a Dockerfile.
DetectAtRoot(dir) ==
    IF dir.configs # {} THEN CheckSSR(dir, First(Builders, dir.configs))
    ELSE IF dir.deps \cap ByDeps # {} THEN First(Builders, dir.deps)
    ELSE IF dir.package \in {"deps", "blank"} THEN "node"
    ELSE IF dir.docker THEN "docker" ELSE "none"

HasRootManifest(dir) ==
    dir.configs # {} \/ dir.package \in {"scripts", "deps"} \/ dir.docker

Below(q, p) == Len(q) > Len(p) /\ SubSeq(q, 1, Len(p)) = p

\* discoverAppCandidates: at most two levels down, and not inside another.
Candidates(tree, p) ==
    {q \in DOMAIN tree :
        /\ Below(q, p) /\ Len(q) <= Len(p) + 2
        /\ HasRootManifest(tree[q])
        /\ ~\E r \in DOMAIN tree : /\ Below(r, p) /\ Below(q, r)
                                   /\ HasRootManifest(tree[r])}

\* ResolveAppDir: the paths it may give; none is an error.
ResolveAppDir(tree, workingDir) ==
    IF workingDir # <<>> THEN {workingDir} \cap DOMAIN tree
    ELSE IF \/ HasRootManifest(tree[<<>>])
            \/ Candidates(tree, <<>>) = {}
         THEN {<<>>}
    ELSE IF Cardinality(Candidates(tree, <<>>)) = 1 THEN Candidates(tree, <<>>)
    ELSE {}

\* detectFramework: without a match, the only candidate below is asked.
Detect(tree, p) ==
    LET here == DetectAtRoot(tree[p])
        below == Candidates(tree, p)
    IN  IF here # "none" THEN here
        ELSE IF Cardinality(below) = 1
             THEN DetectAtRoot(tree[CHOOSE q \in below : TRUE])
        ELSE "none"

\* detectPackageManager; npm when no lock file is found.
PackageManager(dir) ==
    IF dir.locks = {} THEN "npm" ELSE First(Managers, dir.locks)

\* The Dockerfile that writeDockerfile renders for the package manager finds
\* the manifest and the lock file it copies; without a lock file of Node its
\* npm ci fails, and Python falls back on requirements.txt.
Installs(dir, b) ==
    CASE b \in ByDeps \cup {"tanstack", "node"} ->
             dir.package # "none" /\ dir.locks \cap NodeManagers # {}
      [] b = "python" ->
             /\ b \in dir.configs
             /\ \/ PackageManager(dir) \in {"uv", "poetry", "pipenv"}
                \/ "pip" \in dir.locks
      [] b = "docker" -> dir.docker
      [] OTHER -> b \in dir.configs

\* resolveOutputDir finds where the build writes: the convention, or an
\* override it can read off a config or an environment file.
FindsOutput(dir, b) ==
    \/ dir.outDir = "default"
    \/ dir.outDir = "literal" /\ b \in {"react", "vite", "astro"}
=============================================================================
