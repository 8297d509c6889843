----------------------------- MODULE CacheSpec -----------------------------
(***************************************************************************)
(* What the cache promises its clients, without shards, reference counts,  *)
(* lists or capacities: interface Cache of tenann/store/lru_cache.h.  A    *)
(* client that holds a handle keeps the entry alive; an entry nobody holds *)
(* may leave the map at any time; an entry that is neither mapped nor held *)
(* is freed at some later time.                                            *)
(*                                                                         *)
(* LRUCache.tla implements this specification, and the modules of the      *)
(* cache's clients are built on its actions.                               *)
(***************************************************************************)
EXTENDS Naturals

CONSTANTS Key, Entry, Nil

VARIABLES
    map,      \* key -> the entry cached under it, or Nil
    handles,  \* entry -> the number of handles clients hold
    alive     \* entries that have been inserted and not freed

cacheVars == <<map, handles, alive>>

Mapped(e) == \E k \in Key : map[k] = e

Unmapped(e) == [k \in Key |-> IF map[k] = e THEN Nil ELSE map[k]]

Init ==
    /\ map = [k \in Key |-> Nil]
    /\ handles = [e \in Entry |-> 0]
    /\ alive = {}

\* lookup, when it finds an entry; a miss changes nothing.
Lookup(k) ==
    /\ map[k] # Nil
    /\ handles' = [handles EXCEPT ![map[k]] = @ + 1]
    /\ UNCHANGED <<map, alive>>

\* insert: e replaces what was cached under k, and the caller holds it.
Insert(k, e) ==
    /\ e \notin alive
    /\ map' = [map EXCEPT ![k] = e]
    /\ handles' = [handles EXCEPT ![e] = 1]
    /\ alive' = alive \cup {e}

\* release: giving back the last handle may take e out of the map.
Release(e) ==
    /\ handles[e] > 0
    /\ handles' = [handles EXCEPT ![e] = @ - 1]
    /\ \/ UNCHANGED map
       \/ handles[e] = 1 /\ map' = Unmapped(e)
    /\ UNCHANGED alive

Erase(k) ==
    /\ map' = [map EXCEPT ![k] = Nil]
    /\ UNCHANGED <<handles, alive>>

\* Eviction and pruning choose among the entries nobody holds.
Evict(e) ==
    /\ Mapped(e)
    /\ handles[e] = 0
    /\ map' = Unmapped(e)
    /\ UNCHANGED <<handles, alive>>

\* The deleter.
Free(e) ==
    /\ e \in alive
    /\ handles[e] = 0
    /\ ~Mapped(e)
    /\ alive' = alive \ {e}
    /\ UNCHANGED <<map, handles>>

Next ==
    \/ \E k \in Key : Lookup(k) \/ Erase(k)
    \/ \E k \in Key, e \in Entry : Insert(k, e)
    \/ \E e \in Entry : Release(e) \/ Evict(e) \/ Free(e)

Spec == Init /\ [][Next]_cacheVars
=============================================================================
