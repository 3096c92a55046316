----------------------------- MODULE MCKnowledge -----------------------------
(* Small instances of Knowledge.                                             *)
EXTENDS Knowledge
==============================================================================
