------------------------------- MODULE KeyMap -------------------------------
(***************************************************************************)
(* What a shard expects of its hash table: a map from keys to entries whose *)
(* operations return what the map held before them.  LRUCache.tla uses this *)
(* map as its variable table.                                              *)
(***************************************************************************)
CONSTANTS Key, Entry, KeyOf(_), Nil

VARIABLES map, ret

Init ==
    /\ map = [k \in Key |-> Nil]
    /\ ret = Nil

Lookup(k) ==
    /\ ret' = map[k]
    /\ UNCHANGED map

Insert(h) ==
    /\ ret' = map[KeyOf(h)]
    /\ map' = [map EXCEPT ![KeyOf(h)] = h]

Remove(k) ==
    /\ ret' = map[k]
    /\ map' = [map EXCEPT ![k] = Nil]

Next ==
    \/ \E k \in Key : Lookup(k) \/ Remove(k)
    \/ \E h \in Entry : Insert(h)

Spec == Init /\ [][Next]_<<map, ret>>
=============================================================================
