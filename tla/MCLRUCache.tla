---------------------------- MODULE MCLRUCache ----------------------------
(***************************************************************************)
(* Instances of LRUCache for TLC.                                          *)
(***************************************************************************)
EXTENDS LRUCache, TLC

Symmetry == Permutations(Thread) \cup Permutations(Key) \cup Permutations(Entry)
=============================================================================
