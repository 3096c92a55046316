----------------------------- MODULE MCPublish -----------------------------
(* Small instances of Publish.                                               *)
EXTENDS Publish, TLC

CONSTANTS p1, p2, b1
==============================================================================
