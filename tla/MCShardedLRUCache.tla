------------------------- MODULE MCShardedLRUCache -------------------------
(***************************************************************************)
(* ShardedLRUCache with a size_t of three bits: capacities that round or   *)
(* wrap when they are divided, and deltas that overflow int64_t.           *)
(***************************************************************************)
EXTENDS ShardedLRUCache, TLC

MCCapacities == {1, 4, 7}
MCDeltas == {-2, 2}
MCMins == {1, 7}

\* Threads are interchangeable, and no property is temporal.
Threads == Permutations(Thread)
=============================================================================
