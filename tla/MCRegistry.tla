----------------------------- MODULE MCRegistry -----------------------------
(* Small instances of Registry: two of three folders have the same name.    *)
EXTENDS Registry, TLC

CONSTANTS p1, p2, p3, n1, n2

MCBase == p1 :> n1 @@ p2 :> n1 @@ p3 :> n2
=============================================================================
