------------------------------ MODULE MCBuilds ------------------------------
(* Small instances of Builds.                                               *)
EXTENDS Builds, TLC

Symmetric == Permutations(Projects) \cup Permutations(Builders)
==============================================================================
