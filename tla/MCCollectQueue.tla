--------------------------- MODULE MCCollectQueue ---------------------------
(* Instances of CollectQueue for TLC.                                       *)
EXTENDS CollectQueue, TLC

\* A source as it is added.
NewSource == {<<0, 0, FALSE>>}

\* As it is added, or from before there was a backfill.
UnmarkedSource == NewSource \cup {<<3, 0, FALSE>>}

\* Sources whose backfill has begun: in the middle of it, at its end.
OldSource == {<<3, 3, FALSE>>, <<3, 1, TRUE>>}

Symmetry == Permutations(Workers)
=============================================================================
