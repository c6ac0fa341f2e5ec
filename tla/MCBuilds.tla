------------------------------ MODULE MCBuilds ------------------------------
(***************************************************************************)
(* Instances of Builds for TLC.                                            *)
(***************************************************************************)
EXTENDS Builds, TLC

Symmetry == Permutations(Projects) \cup Permutations(Deliveries)
                \cup Permutations(Hooks) \cup Permutations(Clicks)
=============================================================================
