--------------------------- MODULE MCVerifyQueue ---------------------------
(* Instances of VerifyQueue for TLC.                                        *)
EXTENDS VerifyQueue, TLC

\* Resources are interchangeable, and so are the workers of one kind.
Symmetry == Permutations(Resources) \cup Permutations(Workers \ Manual)
=============================================================================
