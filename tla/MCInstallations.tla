-------------------------- MODULE MCInstallations --------------------------
(***************************************************************************)
(* Instances of Installations for TLC.                                     *)
(***************************************************************************)
EXTENDS Installations, TLC

Symmetry == Permutations(Users) \cup Permutations(Installations)
                \cup Permutations(Handlers) \cup Permutations(ProjectIds)
=============================================================================
