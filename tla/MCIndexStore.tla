---------------------------- MODULE MCIndexStore ----------------------------
(***************************************************************************)
(* IndexStore with two searchers that read one file; entries are inter-    *)
(* changeable.                                                             *)
(***************************************************************************)
EXTENDS IndexStore, TLC

CONSTANTS s1, s2

Option(cache, force, write) ==
    [cache_index_file |-> cache, force_read |-> force, write_index_cache |-> write]

\* A reader that looks up meets one that overwrites the cache; in the other, it
\* meets one that leaves the cache alone, as the writer does.
MCOptions == {Option({s1, s2}, {s2}, TRUE), Option({s1}, {}, FALSE)}

Symmetry == Permutations(Entry)
=============================================================================
