----------------------------- MODULE AnnSearcher -----------------------------
(***************************************************************************)
(* What the searchers have in common (searcher/ann_searcher.h): a call,    *)
(* the caller's vectors that the answer is written to, and the conversion  *)
(* between the distances of the caller and those of the index.             *)
(***************************************************************************)
EXTENDS DistanceUtil

CONSTANTS
  Calls,      \* the calls that may be made
  NoFilter,   \* id_filter == nullptr
  Stale       \* what the caller's vectors hold before the call

VARIABLES
  pc,
  call,
  result_ids, result_distances

Radius == IF call.metric = "cosine" THEN CosineSimilarityThresholdToL2Distance(call.range)
                                    ELSE call.range

Reported(d) == IF call.metric = "cosine" THEN L2DistanceToCosineSimilarity(d) ELSE d
=============================================================================
