------------------------------ MODULE MCService ------------------------------
(* Instances of Service. *)
EXTENDS Service, TLC
CONSTANTS k1, k2, s1, s2, d1, d2, p1, p2, b1, b2
\* Two runs start in the same second.
SameSecond == {<<1, 1>>, <<1, 2>>}
Symmetry == Permutations(Keys) \cup Permutations(Submitters)
=============================================================================
