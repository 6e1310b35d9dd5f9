---------------------------- MODULE MCParseQueue ----------------------------
(* Instances of ParseQueue for TLC.                                         *)
EXTENDS ParseQueue, TLC

\* Workers and documents are interchangeable in a safety run without Poison.
Symmetry == Permutations(Docs) \cup Permutations(Workers)
=============================================================================
