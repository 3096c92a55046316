----------------------------- MODULE MCRateLimit -----------------------------
(* Small instances of RateLimit.                                            *)
EXTENDS RateLimit, TLC

Symmetric == Permutations(Addrs) \cup Permutations(Attempts)
==============================================================================
