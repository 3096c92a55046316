---------------------------- MODULE MCExtraction -----------------------------
(* Small instances of Extraction: the files are interchangeable.             *)
EXTENDS Extraction, TLC

Symmetric == Permutations(Files)
==============================================================================
