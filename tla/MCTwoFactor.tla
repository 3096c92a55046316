----------------------------- MODULE MCTwoFactor -----------------------------
(* Small instances of TwoFactor.                                            *)
EXTENDS TwoFactor, TLC

Symmetric == Permutations(Reqs) \cup Permutations(Secrets) \cup Permutations(Recovery)
==============================================================================
