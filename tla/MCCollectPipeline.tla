-------------------------- MODULE MCCollectPipeline --------------------------
(* Instances of CollectPipeline for TLC.                                    *)
EXTENDS CollectPipeline

\* In the middle of the backfill.
OldSource == {<<3, 3, FALSE>>}
=============================================================================
