---------------------------- MODULE ImagesProofs ----------------------------
(***************************************************************************)
(* Proofs about Images for any commits, settings and workers, hence for    *)
(* every tree the rules of Recipes can meet.  The invariant says what an   *)
(* attempt carries from one step to the next: the directory, the recipe    *)
(* detection gave it, and, once a static build succeeded, its evidence.    *)
(***************************************************************************)
EXTENDS Images, FiniteSetTheorems, WellFoundedInduction, TLAPS

USE ImagesAssumption

\* Detection finds a static recipe in directory p, and its build, which
\* needs no server, succeeds.
Serves(p) ==
    /\ Detect(tree, p) \in Static
    /\ ~tree[p].ssr
    /\ Installs(tree[p], Detect(tree, p))

BuildsHere(a) == a.dir \in ResolveAppDir(tree, workingDir)

ByRecipe(a) ==
    /\ a.recipe = Detect(tree, a.dir)
    /\ a.static <=> a.recipe \in Static

\* A build that succeeded, of either kind.
Built(a) ==
    IF a.static
    THEN Serves(a.dir) /\ a.recipe \in Static
    ELSE tree[a.dir].start \/ Detect(tree, a.dir) \notin Static

AttemptOK(a) ==
    /\ a.at \notin {"idle", "resolve"} => BuildsHere(a)
    /\ a.at = "build" => ByRecipe(a)
    /\ a.at \in {"upload", "url", "finish", "report"} => Built(a)
    /\ a.at \in {"upload", "url"} => a.static
    /\ a.at \in {"url", "finish", "report"} /\ a.static => image = "static"

AttemptInv == \A w \in Workers : AttemptOK(attempt[w])

ServesSomewhere ==
    \E p \in ResolveAppDir(tree, workingDir) : Serves(p)

RowInv == row.url => image = "static" /\ ServesSomewhere

ReportInv ==
    /\ [url |-> TRUE] \in reports => image = "static" /\ ServesSomewhere
    /\ [url |-> FALSE] \in reports =>
          \E p \in ResolveAppDir(tree, workingDir) :
              tree[p].start \/ Detect(tree, p) \notin Static

IInv == TypeOK /\ image # "dynamic" /\ AttemptInv /\ RowInv /\ ReportInv

-----------------------------------------------------------------------------
(* What the rules give.                                                    *)

\* First gives an element of the sequence that is in the set, if there is
\* one.
LEMMA FirstIs ==
    ASSUME NEW T, NEW seq \in Seq(T), NEW S, NEW k \in DOMAIN seq, seq[k] \in S
    PROVE  First(seq, S) \in S \cap T
<1> DEFINE D == {n \in DOMAIN seq : seq[n] \in S}
<1>1. D \subseteq Nat /\ D # {}
    OBVIOUS
<1>2. PICK n \in D : \A m \in D : <<m, n>> \notin OpToRel(<, Nat)
    BY <1>1, NatLessThanWellFounded, WFMin
<1>3. \A m \in D : ~(m < n)
    BY <1>1, <1>2 DEF OpToRel
<1>4. \A m \in 1..(n - 1) : seq[m] \notin S
    BY <1>1, <1>3
<1>5. \E j \in DOMAIN seq : /\ seq[j] \in S
                            /\ \A m \in 1..(j - 1) : seq[m] \notin S
    BY <1>2, <1>4
<1>6. seq[CHOOSE j \in DOMAIN seq :
              /\ seq[j] \in S
              /\ \A m \in 1..(j - 1) : seq[m] \notin S] \in S \cap T
    BY <1>5
<1> QED BY <1>6 DEF First

LEMMA BuildersType == Builders \in Seq(Names) /\ DOMAIN Builders = 1..21
BY DEF Builders, Names

LEMMA CheckSSRType ==
    ASSUME NEW dir, NEW b \in Names
    PROVE  CheckSSR(dir, b) \in Names
BY DEF CheckSSR, Names

LEMMA DetectAtRootType ==
    ASSUME NEW dir, IsDir(dir)
    PROVE  DetectAtRoot(dir) \in Names
<1>1. dir.configs # {} => CheckSSR(dir, First(Builders, dir.configs)) \in Names
  <2>1. dir.configs # {} => \E k \in 1..21 : Builders[k] \in dir.configs
      BY DEF IsDir, Dirs, ByConfig
  <2> QED BY <2>1, BuildersType, FirstIs, CheckSSRType
<1>2. dir.deps \cap ByDeps # {} => First(Builders, dir.deps) \in Names
  <2>1. dir.deps \cap ByDeps # {} => \E k \in 1..21 : Builders[k] \in dir.deps
      BY DEF ByDeps
  <2> QED BY <2>1, BuildersType, FirstIs
<1>3. {"node", "docker", "none"} \subseteq Names
    BY DEF Names
<1> QED BY <1>1, <1>2, <1>3 DEF DetectAtRoot

LEMMA DetectType ==
    ASSUME NEW t \in Trees, NEW p \in DOMAIN t
    PROVE  Detect(t, p) \in Names
<1> DEFINE below == Candidates(t, p)
<1>1. below \subseteq DOMAIN t
    BY DEF Candidates
<1>2. Cardinality(below) = 1 => below # {}
    BY FS_EmptySet
<1>3. Cardinality(below) = 1 => (CHOOSE q \in below : TRUE) \in DOMAIN t
    BY <1>1, <1>2
<1>4. \A q \in DOMAIN t : DetectAtRoot(t[q]) \in Names
    BY DetectAtRootType, ImagesAssumption
<1>5. "none" \in Names
    BY DEF Names
<1> QED BY <1>3, <1>4, <1>5 DEF Detect

LEMMA ResolveType ==
    ASSUME NEW t \in Trees, NEW d
    PROVE  ResolveAppDir(t, d) \subseteq DOMAIN t
BY DEF ResolveAppDir, Candidates, ImagesAssumption

-----------------------------------------------------------------------------
(* One attempt moves.                                                      *)

LEMMA CommitStays ==
    ASSUME [Next]_vars
    PROVE  tree' = tree /\ workingDir' = workingDir
BY DEF Next, vars, Begin, Resolve, Prepare, Build, Mismatch, Fallback, Upload,
   UpdateOutputURL, MarkFinished, Report, Fails

\* What holds of the attempts still does when one is replaced, provided that
\* it does of the new one and that the image under the key is kept, or is the
\* static one.
LEMMA Replaced ==
    ASSUME IInv, NEW w \in Workers, NEW a \in Attempts, Set(w, a),
           UNCHANGED <<tree, workingDir>>,
           image' = image \/ image' = "static",
           AttemptOK(a)'
    PROVE  AttemptInv' /\ attempt' \in [Workers -> Attempts]
<1>1. attempt \in [Workers -> Attempts] /\ AttemptInv
    BY DEF IInv, TypeOK
<1>2. attempt' = [attempt EXCEPT ![w] = a]
    BY DEF Set
<1>3. ASSUME NEW v \in Workers
      PROVE  AttemptOK(attempt[v])'
  <2>1. CASE v = w
      <3>1. attempt'[v] = a
          BY <1>1, <1>2, <2>1
      <3> QED BY <3>1 DEF AttemptOK, BuildsHere, ByRecipe, Built, Serves
  <2>2. CASE v # w
      <3>1. attempt'[v] = attempt[v]
          BY <1>1, <1>2, <2>2
      <3>2. AttemptOK(attempt[v])
          BY <1>1 DEF AttemptInv
      <3> QED BY <3>1, <3>2
              DEF AttemptOK, BuildsHere, ByRecipe, Built, Serves
  <2> QED BY <2>1, <2>2
<1> QED BY <1>1, <1>2, <1>3 DEF AttemptInv

LEMMA IdleOK ==
    ASSUME tree \in Trees
    PROVE  Idle \in Attempts /\ AttemptOK(Idle)
<1>1. <<>> \in UNION {DOMAIN t : t \in Trees}
    BY ImagesAssumption
<1>2. "none" \in Names
    BY DEF Names
<1> QED BY <1>1, <1>2 DEF Idle, Attempts, AttemptOK

\* An attempt that changes place keeps its type.
LEMMA AttemptType ==
    ASSUME IInv, NEW w \in Workers,
           NEW at \in {"idle", "resolve", "prepare", "build", "fallback",
                       "upload", "url", "finish", "report"},
           NEW recipe \in Names, NEW static \in BOOLEAN
    PROVE  /\ attempt[w] \in Attempts
           /\ [attempt[w] EXCEPT !.at = at] \in Attempts
           /\ [attempt[w] EXCEPT !.at = at, !.recipe = recipe] \in Attempts
           /\ [attempt[w] EXCEPT !.at = at, !.recipe = recipe,
                                 !.static = static] \in Attempts
BY DEF IInv, TypeOK, Attempts

LEMMA InitInv == Init => IInv
<1> SUFFICES ASSUME Init PROVE IInv
    OBVIOUS
<1>1. attempt \in [Workers -> Attempts] /\ AttemptInv
    BY IdleOK DEF Init, AttemptInv
<1>2. /\ tree \in Trees /\ workingDir \in WorkingDirs
      /\ image = "none" /\ row \in Rows /\ ~row.url /\ reports = {}
    BY DEF Init, Rows
<1> QED BY <1>1, <1>2 DEF IInv, TypeOK, RowInv, ReportInv

\* The parts that speak of the row and the reports, in a step that leaves
\* them alone and the commit and the image too.
LEMMA RestStays ==
    ASSUME IInv, UNCHANGED <<tree, workingDir, image, row, reports>>,
           AttemptInv', attempt' \in [Workers -> Attempts]
    PROVE  IInv'
<1>1. TypeOK'
    BY DEF IInv, TypeOK
<1>2. RowInv' /\ ReportInv'
    BY DEF IInv, RowInv, ReportInv, ServesSomewhere, Serves
<1> QED BY <1>1, <1>2 DEF IInv

-----------------------------------------------------------------------------
(* The steps.                                                              *)

LEMMA BeginInv ==
    ASSUME IInv, NEW w \in Workers, Begin(w)
    PROVE  IInv'
<1> DEFINE a == [Idle EXCEPT !.at = "resolve"]
<1>1. a \in Attempts /\ AttemptOK(a)'
    BY IdleOK DEF IInv, TypeOK, Idle, Attempts, AttemptOK
<1>2. AttemptInv' /\ attempt' \in [Workers -> Attempts]
  <2> HIDE DEF a
  <2>1. Set(w, a)
      BY DEF Begin, a
  <2> QED BY <1>1, <2>1, Replaced DEF Begin
<1>3. row' \in Rows /\ row'.url = row.url
    BY DEF IInv, TypeOK, Rows, Begin
<1>4. TypeOK'
    BY <1>2, <1>3 DEF IInv, TypeOK, Begin
<1>5. RowInv' /\ ReportInv'
    BY <1>3 DEF IInv, Begin, RowInv, ReportInv, ServesSomewhere, Serves
<1> QED BY <1>2, <1>4, <1>5 DEF IInv, Begin

LEMMA ResolveInv ==
    ASSUME IInv, NEW w \in Workers, Resolve(w)
    PROVE  IInv'
<1>1. PICK p \in ResolveAppDir(tree, workingDir) :
          Set(w, [Idle EXCEPT !.at = "prepare", !.dir = p])
    BY DEF Resolve
<1>2. UNCHANGED <<tree, workingDir, image, row, reports>>
    BY DEF Resolve
<1> DEFINE a == [Idle EXCEPT !.at = "prepare", !.dir = p]
<1>3. a \in Attempts
  <2>1. p \in UNION {DOMAIN t : t \in Trees}
      BY <1>1, ResolveType DEF IInv, TypeOK
  <2>2. Idle \in Attempts
      BY IdleOK DEF IInv, TypeOK
  <2> QED BY <2>1, <2>2 DEF Idle, Attempts
<1>4. AttemptOK(a)'
    BY <1>1, <1>2 DEF Idle, AttemptOK, BuildsHere
<1>5. AttemptInv' /\ attempt' \in [Workers -> Attempts]
  <2> HIDE DEF a
  <2> QED BY <1>1, <1>2, <1>3, <1>4, Replaced DEF a
<1> QED BY <1>2, <1>5, RestStays

LEMMA PrepareInv ==
    ASSUME IInv, NEW w \in Workers, Prepare(w)
    PROVE  IInv'
<1> DEFINE r == Detect(tree, attempt[w].dir)
<1>1. PICK a : a = [attempt[w] EXCEPT !.at = "build", !.recipe = r,
                                      !.static = r \in Static]
    OBVIOUS
<1>2. /\ attempt[w].at = "prepare" /\ Set(w, a)
      /\ UNCHANGED <<tree, workingDir, image, row, reports>>
    BY <1>1 DEF Prepare
<1>3. BuildsHere(attempt[w])
    BY <1>2 DEF IInv, AttemptInv, AttemptOK
<1>4. r \in Names
    BY <1>3, ResolveType, DetectType DEF BuildsHere, IInv, TypeOK
<1>5. a \in Attempts
  <2>1. (r \in Static) \in BOOLEAN
      OBVIOUS
  <2> HIDE DEF r
  <2> QED BY <1>1, <1>4, <2>1, AttemptType
<1>6. /\ a.at = "build" /\ a.dir = attempt[w].dir /\ a.recipe = r
      /\ a.static <=> r \in Static
  <2>1. attempt[w] \in Attempts
      BY DEF IInv, TypeOK
  <2> HIDE DEF r
  <2> QED BY <1>1, <2>1 DEF Attempts
<1>7. AttemptOK(a)'
    BY <1>2, <1>3, <1>6 DEF AttemptOK, BuildsHere, ByRecipe
<1>8. AttemptInv' /\ attempt' \in [Workers -> Attempts]
    BY <1>2, <1>5, <1>7, Replaced
<1> QED BY <1>2, <1>8, RestStays

LEMMA BuildInv ==
    ASSUME IInv, NEW w \in Workers, Build(w)
    PROVE  IInv'
<1> DEFINE b == attempt[w]
<1>1. PICK a : a = [b EXCEPT !.at = IF b.static THEN "upload" ELSE "finish"]
    OBVIOUS
<1>2. /\ b.at = "build" /\ Set(w, a)
      /\ Installs(tree[b.dir], b.recipe)
      /\ b.static => ~tree[b.dir].ssr
      /\ UNCHANGED <<tree, workingDir, image, row, reports>>
    BY <1>1 DEF Build
<1>3. BuildsHere(b) /\ ByRecipe(b) /\ b \in Attempts
    BY <1>2 DEF IInv, TypeOK, AttemptInv, AttemptOK
<1>4. Built(b)
    BY <1>2, <1>3 DEF Built, Serves, ByRecipe
<1>5. /\ a \in Attempts
      /\ a.at = IF b.static THEN "upload" ELSE "finish"
      /\ a.dir = b.dir /\ a.recipe = b.recipe /\ a.static = b.static
    BY <1>1, <1>3 DEF Attempts
<1>6. Built(a)' /\ BuildsHere(a)'
    BY <1>2, <1>3, <1>4, <1>5 DEF Built, BuildsHere, Serves
<1>7. AttemptOK(a)'
    BY <1>5, <1>6 DEF AttemptOK
<1>8. AttemptInv' /\ attempt' \in [Workers -> Attempts]
    BY <1>2, <1>5, <1>7, Replaced
<1> QED BY <1>2, <1>8, RestStays

LEMMA MismatchInv ==
    ASSUME IInv, NEW w \in Workers, Mismatch(w)
    PROVE  IInv'
<1> DEFINE b == attempt[w]
<1>1. PICK a : a = [b EXCEPT !.at = "fallback"]
    OBVIOUS
<1>2. /\ b.at = "build" /\ Set(w, a)
      /\ UNCHANGED <<tree, workingDir, image, row, reports>>
    BY <1>1 DEF Mismatch
<1>3. BuildsHere(b) /\ b \in Attempts
    BY <1>2 DEF IInv, TypeOK, AttemptInv, AttemptOK
<1>4. a \in Attempts /\ a.at = "fallback" /\ a.dir = b.dir
    BY <1>1, <1>3 DEF Attempts
<1>5. AttemptOK(a)'
    BY <1>2, <1>3, <1>4 DEF AttemptOK, BuildsHere
<1>6. AttemptInv' /\ attempt' \in [Workers -> Attempts]
    BY <1>2, <1>4, <1>5, Replaced
<1> QED BY <1>2, <1>6, RestStays

\* The attempt becomes one of a server: nothing is claimed of its image, and
\* the start script is why it is made.
LEMMA FallbackInv ==
    ASSUME IInv, NEW w \in Workers, Fallback(w)
    PROVE  IInv'
<1> DEFINE b == attempt[w]
<1>1. PICK a : a = [b EXCEPT !.at = "finish", !.recipe = "node",
                             !.static = FALSE]
    OBVIOUS
<1>2. /\ b.at = "fallback" /\ Set(w, a) /\ tree[b.dir].start
      /\ UNCHANGED <<tree, workingDir, image, row, reports>>
    BY <1>1 DEF Fallback
<1>3. BuildsHere(b) /\ b \in Attempts
    BY <1>2 DEF IInv, TypeOK, AttemptInv, AttemptOK
<1>4. "node" \in Names
    BY DEF Names
<1>5. a \in Attempts /\ a.at = "finish" /\ a.dir = b.dir /\ ~a.static
    BY <1>1, <1>3, <1>4 DEF Attempts
<1>6. Built(a)'
    BY <1>2, <1>5 DEF Built
<1>7. AttemptOK(a)'
    BY <1>2, <1>3, <1>5, <1>6 DEF AttemptOK, BuildsHere
<1>8. AttemptInv' /\ attempt' \in [Workers -> Attempts]
    BY <1>2, <1>5, <1>7, Replaced
<1> QED BY <1>2, <1>8, RestStays

LEMMA UploadInv ==
    ASSUME IInv, NEW w \in Workers, Upload(w)
    PROVE  IInv'
<1> DEFINE b == attempt[w]
<1>1. PICK a : a = [b EXCEPT !.at = "url"]
    OBVIOUS
<1>2. /\ b.at = "upload" /\ Set(w, a) /\ image' = Kind(b.recipe)
      /\ UNCHANGED <<tree, workingDir, row, reports>>
    BY <1>1 DEF Upload
<1>3. BuildsHere(b) /\ Built(b) /\ b.static /\ b \in Attempts
    BY <1>2 DEF IInv, TypeOK, AttemptInv, AttemptOK
<1>4. image' = "static"
    BY <1>2, <1>3 DEF Built, Kind
<1>5. /\ a \in Attempts /\ a.at = "url" /\ a.dir = b.dir
      /\ a.recipe = b.recipe /\ a.static
    BY <1>1, <1>3 DEF Attempts
<1>6. AttemptOK(a)'
    BY <1>2, <1>3, <1>4, <1>5 DEF AttemptOK, BuildsHere, Built, Serves
<1>7. AttemptInv' /\ attempt' \in [Workers -> Attempts]
    BY <1>2, <1>4, <1>5, <1>6, Replaced
<1>8. TypeOK'
    BY <1>2, <1>4, <1>7 DEF IInv, TypeOK
<1>9. RowInv' /\ ReportInv'
    BY <1>2, <1>4 DEF IInv, RowInv, ReportInv, ServesSomewhere, Serves
<1> QED BY <1>4, <1>7, <1>8, <1>9 DEF IInv

LEMMA UpdateOutputURLInv ==
    ASSUME IInv, NEW w \in Workers, UpdateOutputURL(w)
    PROVE  IInv'
<1> DEFINE b == attempt[w]
<1>1. PICK a : a = [b EXCEPT !.at = "finish"]
    OBVIOUS
<1>2. /\ b.at = "url" /\ Set(w, a) /\ row' = [row EXCEPT !.url = TRUE]
      /\ UNCHANGED <<tree, workingDir, image, reports>>
    BY <1>1 DEF UpdateOutputURL
<1>3. /\ BuildsHere(b) /\ Built(b) /\ b.static /\ b \in Attempts
      /\ image = "static"
    BY <1>2 DEF IInv, TypeOK, AttemptInv, AttemptOK
<1>4. /\ a \in Attempts /\ a.at = "finish" /\ a.dir = b.dir
      /\ a.recipe = b.recipe /\ a.static
    BY <1>1, <1>3 DEF Attempts
<1>5. AttemptOK(a)'
    BY <1>2, <1>3, <1>4 DEF AttemptOK, BuildsHere, Built, Serves
<1>6. AttemptInv' /\ attempt' \in [Workers -> Attempts]
    BY <1>2, <1>4, <1>5, Replaced
<1>7. TypeOK'
    BY <1>2, <1>6 DEF IInv, TypeOK, Rows
<1>8. ServesSomewhere
    BY <1>3 DEF BuildsHere, Built, ServesSomewhere
<1>9. RowInv' /\ ReportInv'
    BY <1>2, <1>3, <1>8 DEF IInv, RowInv, ReportInv, ServesSomewhere, Serves
<1> QED BY <1>2, <1>6, <1>7, <1>9 DEF IInv

LEMMA MarkFinishedInv ==
    ASSUME IInv, NEW w \in Workers, MarkFinished(w)
    PROVE  IInv'
<1> DEFINE b == attempt[w]
<1>1. PICK a : a = [b EXCEPT !.at = "report"]
    OBVIOUS
<1>2. /\ b.at = "finish" /\ Set(w, a)
      /\ row' = [status |-> "success", url |-> b.static]
      /\ UNCHANGED <<tree, workingDir, image, reports>>
    BY <1>1 DEF MarkFinished
<1>3. /\ BuildsHere(b) /\ Built(b) /\ b \in Attempts
      /\ b.static => image = "static"
    BY <1>2 DEF IInv, TypeOK, AttemptInv, AttemptOK
<1>4. /\ a \in Attempts /\ a.at = "report" /\ a.dir = b.dir
      /\ a.recipe = b.recipe /\ a.static = b.static
    BY <1>1, <1>3 DEF Attempts
<1>5. AttemptOK(a)'
  <2>1. Built(a)'
      BY <1>2, <1>3, <1>4 DEF Built, Serves
  <2> QED BY <1>2, <1>3, <1>4, <2>1 DEF AttemptOK, BuildsHere
<1>6. AttemptInv' /\ attempt' \in [Workers -> Attempts]
    BY <1>2, <1>4, <1>5, Replaced
<1>7. b.static \in BOOLEAN
    BY <1>3 DEF Attempts
<1>8. TypeOK'
    BY <1>2, <1>6, <1>7 DEF IInv, TypeOK, Rows
<1>9. b.static => ServesSomewhere
    BY <1>3 DEF BuildsHere, Built, ServesSomewhere
<1>10. RowInv' /\ ReportInv'
    BY <1>2, <1>3, <1>9 DEF IInv, RowInv, ReportInv, ServesSomewhere, Serves
<1> QED BY <1>2, <1>6, <1>8, <1>10 DEF IInv

LEMMA ReportsInv ==
    ASSUME IInv, NEW w \in Workers, Report(w)
    PROVE  IInv'
<1> DEFINE b == attempt[w]
<1>1. /\ b.at = "report" /\ Set(w, Idle)
      /\ reports' = reports \cup {[url |-> b.static]}
      /\ UNCHANGED <<tree, workingDir, image, row>>
    BY DEF Report
<1>2. /\ BuildsHere(b) /\ Built(b) /\ b.static \in BOOLEAN
      /\ b.static => image = "static"
    BY <1>1 DEF IInv, TypeOK, AttemptInv, AttemptOK, Attempts
<1>3. AttemptInv' /\ attempt' \in [Workers -> Attempts]
  <2>1. Idle \in Attempts /\ AttemptOK(Idle)'
      BY IdleOK DEF IInv, TypeOK, Idle, AttemptOK
  <2> QED BY <1>1, <2>1, Replaced
<1>4. TypeOK'
    BY <1>1, <1>2, <1>3 DEF IInv, TypeOK
<1>5. /\ [url |-> TRUE] \in reports' => [url |-> TRUE] \in reports \/ b.static
      /\ [url |-> FALSE] \in reports' =>
            [url |-> FALSE] \in reports \/ ~b.static
    BY <1>1, <1>2
<1>6. /\ b.static => ServesSomewhere
      /\ ~b.static => \E p \in ResolveAppDir(tree, workingDir) :
                          tree[p].start \/ Detect(tree, p) \notin Static
    BY <1>2 DEF BuildsHere, Built, ServesSomewhere
<1>7. RowInv' /\ ReportInv'
    BY <1>1, <1>2, <1>5, <1>6
       DEF IInv, RowInv, ReportInv, ServesSomewhere, Serves
<1> QED BY <1>1, <1>3, <1>4, <1>7 DEF IInv

LEMMA FailsInv ==
    ASSUME IInv, NEW w \in Workers, Fails(w)
    PROVE  IInv'
<1>1. Set(w, Idle) /\ UNCHANGED <<tree, workingDir, image, reports>>
    BY DEF Fails
<1>2. AttemptInv' /\ attempt' \in [Workers -> Attempts]
  <2>1. Idle \in Attempts /\ AttemptOK(Idle)'
      BY IdleOK DEF IInv, TypeOK, Idle, AttemptOK
  <2> QED BY <1>1, <2>1, Replaced
<1>3. row' \in Rows /\ row'.url = row.url
    BY DEF IInv, TypeOK, Rows, Fails
<1>4. TypeOK'
    BY <1>1, <1>2, <1>3 DEF IInv, TypeOK
<1>5. RowInv' /\ ReportInv'
    BY <1>1, <1>3 DEF IInv, RowInv, ReportInv, ServesSomewhere, Serves
<1> QED BY <1>1, <1>2, <1>4, <1>5 DEF IInv

LEMMA StepInv == IInv /\ [Next]_vars => IInv'
<1> SUFFICES ASSUME IInv, [Next]_vars PROVE IInv'
    OBVIOUS
<1>1. CASE UNCHANGED vars
    BY <1>1 DEF vars, IInv, TypeOK, AttemptInv, AttemptOK, BuildsHere, ByRecipe,
       Built, Serves, RowInv, ReportInv, ServesSomewhere
<1>2. CASE Next
    BY <1>2, BeginInv, ResolveInv, PrepareInv, BuildInv, MismatchInv,
       FallbackInv, UploadInv, UpdateOutputURLInv, MarkFinishedInv,
       ReportsInv, FailsInv DEF Next
<1> QED BY <1>1, <1>2

-----------------------------------------------------------------------------
(* The theorems.                                                           *)

\* In every reachable state attempts carry what the rules justify
\* (ProcessDeployment).
THEOREM Inductive == Spec => []IInv
BY InitInv, StepInv, PTL DEF Spec

\* The variables keep their types: whatever a tree looks like, its rules give
\* a directory of it and a recipe there is (ResolveAppDir, detectFramework).
THEOREM TypeCorrect == Spec => []TypeOK
<1>1. IInv => TypeOK
    BY DEF IInv
<1> QED BY <1>1, Inductive, PTL

\* A URL leads to a static image of an application that needs no server, for
\* every commit and however many attempts overlap (UploadImage under the key
\* of the deployment, retryAsDynamic).
THEOREM URLsLeadToStaticImages == Spec => []URLsServe
<1>1. IInv => URLsServe
    BY DEF IInv, RowInv, ReportInv, ServesSomewhere, Serves, URLsServe
<1> QED BY <1>1, Inductive, PTL
=============================================================================
