---------------------------- MODULE DistanceUtil ----------------------------
(***************************************************************************)
(* util/distance_util.h.  Squared L2 distances are naturals; cosine        *)
(* similarities and thresholds are counted in halves, so 2 stands for 1.0. *)
(***************************************************************************)
EXTENDS Integers

CosineSimilarityThresholdToL2Distance(threshold) == 2 - threshold

\* The thresholds for which it does not throw.
CosineThresholds == -2 .. 2

L2DistanceToCosineSimilarity(d) == 2 - d
=============================================================================
