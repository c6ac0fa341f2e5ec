----------------------------- MODULE MCSessions -----------------------------
(***************************************************************************)
(* Instances of Sessions for TLC.                                          *)
(***************************************************************************)
EXTENDS Sessions, TLC

Symmetry == Permutations(Accounts) \cup Permutations(Browsers)
                \cup Permutations(Handlers)
=============================================================================
