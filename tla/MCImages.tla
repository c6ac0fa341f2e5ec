------------------------------ MODULE MCImages ------------------------------
(* Commits for Images: single applications of every kind the rules tell     *)
(* apart, and trees in which the application is to be looked for.           *)
EXTENDS Images, TLC

Empty == [configs |-> {}, deps |-> {}, package |-> "none", start |-> FALSE,
          docker |-> FALSE, locks |-> {}, outDir |-> "default", ssr |-> FALSE]

Node(deps) == [Empty EXCEPT !.package = "deps", !.deps = deps,
                            !.locks = {"npm"}]

Vite(deps) == [Node(deps \cup {"vite"}) EXCEPT !.configs = {"vite"}]

Scripts == [Empty EXCEPT !.package = "scripts", !.start = TRUE,
                         !.locks = {"npm"}]

Apps ==
    {Empty, Scripts, Vite({}), Vite({"tanstack"}), Vite({"vike"}),
     [Vite({}) EXCEPT !.start = TRUE],
     [Vite({}) EXCEPT !.ssr = TRUE],
     [Vite({}) EXCEPT !.ssr = TRUE, !.start = TRUE],
     [Vite({}) EXCEPT !.outDir = "computed", !.start = TRUE],
     [Vite({"react"}) EXCEPT !.configs = {"vite", "nextjs"}],
     [Node({"astro", "adapter"}) EXCEPT !.configs = {"astro"}],
     [Node({"react"}) EXCEPT !.outDir = "literal"],
     [Node({"vue"}) EXCEPT !.outDir = "literal", !.start = TRUE],
     [Node({"vite", "vike"}) EXCEPT !.ssr = TRUE, !.start = TRUE],
     [Node({"other"}) EXCEPT !.start = TRUE],
     [Node({"gatsby"}) EXCEPT !.locks = {"uv"}],
     [Empty EXCEPT !.package = "blank", !.docker = TRUE],
     [Empty EXCEPT !.docker = TRUE],
     [Empty EXCEPT !.configs = {"python"}, !.locks = {"poetry"}],
     [Empty EXCEPT !.configs = {"python"}, !.locks = {"poetry", "npm"}]}

A == <<"a">>
B == <<"b">>
C == <<"a", "c">>

\* One application, at the root or below; two; one inside another; a root
\* that has scripts but no framework above one that has.
MCTrees ==
    {<<>> :> app : app \in Apps}
        \cup {<<>> :> Empty @@ A :> Empty @@ C :> app : app \in Apps}
        \cup {<<>> :> Empty @@ A :> app @@ B :> Vite({}) :
                 app \in {Empty, Scripts, Vite({})}}
        \cup {<<>> :> Scripts @@ A :> app @@ C :> Vite({}) :
                 app \in {Empty, Scripts, Node({"nextjs"})}}

MCWorkingDirs == {<<>>, A, B}

Symmetry == Permutations(Workers)
=============================================================================
