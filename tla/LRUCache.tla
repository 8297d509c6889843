------------------------------ MODULE LRUCache ------------------------------
(***************************************************************************)
(* One shard of the cache: class LRUCache of tenann/store/lru_cache.{h,cc} *)
(* with the client threads that call it.                                   *)
(*                                                                         *)
(* Every method takes _mutex; lookup, release and erase are one critical   *)
(* section each and one step here.  The eviction and pruning loops, run    *)
(* with the mutex held, take one step per iteration (pc names the loop).   *)
(* The deleters run after the mutex is released, one entry per step, while *)
(* other threads use the shard.                                            *)
(*                                                                         *)
(* An entry is an address: Entry is the heap that malloc draws from, and   *)
(* an address given back by free() may be drawn again.  The hash table is  *)
(* the function table; HandleTable.tla shows that the buckets and chains   *)
(* of the code implement it.                                               *)
(***************************************************************************)
EXTENDS Naturals, Sequences, FiniteSets

CONSTANTS
    Thread,       \* client threads
    Key,          \* cache keys
    Entry,        \* addresses an LRUHandle can be allocated at
    Charge,       \* charges given to insert
    Capacity,     \* capacities given to set_capacity
    MaxHandles,   \* bound: handles outstanding on one entry
    MaxLookups,   \* bound: calls of lookup
    Nil           \* the null pointer

ASSUME LRUCacheAssumption ==
    /\ Charge \subseteq Nat
    /\ Capacity \subseteq Nat
    /\ MaxHandles \in Nat \ {0}
    /\ MaxLookups \in Nat
    /\ Nil \notin Key \cup Entry \cup Thread

VARIABLES
    key, charge, priority, refs,              \* the fields of each LRUHandle
    in_cache,                                 \* the entries with in_cache set
    table,                                    \* HandleTable _table
    lru,                                      \* _lru, oldest entry first
    usage, capacity, lookup_count, hit_count, \* _usage ... _hit_count
    mutex,                                    \* owner of _mutex
    pc,                                       \* where each thread is
    arg, cur,                                 \* locals of the mutex owner
    last_ref_list,                            \* each thread's entries to free()
    handles                                   \* Cache::Handle* held by clients

vars == <<key, charge, priority, refs, in_cache, table, lru, usage, capacity,
          lookup_count, hit_count, mutex, pc, arg, cur, last_ref_list, handles>>

Priority == {"NORMAL", "DURABLE"}

\* The loops a thread can be in while it holds the mutex.
Critical == {"normal", "durable", "prune"}

\* Memory that is not allocated has no key.
Allocated == {e \in Entry : key[e] # Nil}

\* An entry that insert() is still preparing is known to no other thread.
Published == Allocated \ {arg}

Elements(s) == {s[i] : i \in 1..Len(s)}

\* Unlinking e from the circular list: _lru_remove.
Without(s, e) ==
    LET p == CHOOSE i \in 1..Len(s) : s[i] = e
    IN  [i \in 1..(Len(s) - 1) |-> IF i < p THEN s[i] ELSE s[i + 1]]

-----------------------------------------------------------------------------

Init ==
    /\ key = [e \in Entry |-> Nil]
    /\ charge = [e \in Entry |-> 0]
    /\ priority = [e \in Entry |-> "NORMAL"]
    /\ refs = [e \in Entry |-> 0]
    /\ in_cache = {}
    /\ table = [k \in Key |-> Nil]
    /\ lru = <<>>
    /\ usage = 0
    /\ capacity = 0
    /\ lookup_count = 0
    /\ hit_count = 0
    /\ mutex = Nil
    /\ pc = [t \in Thread |-> "idle"]
    /\ arg = Nil
    /\ cur = 0
    /\ last_ref_list = [t \in Thread |-> <<>>]
    /\ handles = [e \in Entry |-> 0]

CanLock(t) == pc[t] = "idle" /\ mutex = Nil

\* The end of a critical section: what the method collected is freed next.
Unlock(t, list) ==
    /\ mutex' = Nil
    /\ last_ref_list' = [last_ref_list EXCEPT ![t] = list]
    /\ pc' = [pc EXCEPT ![t] = IF list = <<>> THEN "idle" ELSE "free"]

-----------------------------------------------------------------------------
\* Mutant of Lookup: the entry stays on the LRU list.
LookupKeepsLink(t, k) ==
    /\ CanLock(t)
    /\ lookup_count < MaxLookups
    /\ lookup_count' = lookup_count + 1
    /\ LET e == table[k] IN
         \/ e = Nil /\ UNCHANGED <<refs, hit_count, handles>>
         \/ /\ e # Nil
            /\ handles[e] < MaxHandles
            /\ refs' = [refs EXCEPT ![e] = @ + 1]
            /\ hit_count' = hit_count + 1
            /\ handles' = [handles EXCEPT ![e] = @ + 1]
    /\ UNCHANGED <<key, charge, priority, in_cache, table, lru, usage, capacity,
                   mutex, pc, arg, cur, last_ref_list>>

\* lookup: a hit pins the entry and takes it off the LRU list.
Lookup(t, k) ==
    /\ CanLock(t)
    /\ lookup_count < MaxLookups
    /\ lookup_count' = lookup_count + 1
    /\ LET e == table[k] IN
         \/ /\ e = Nil
            /\ UNCHANGED <<refs, lru, hit_count, handles>>
         \/ /\ e # Nil
            /\ handles[e] < MaxHandles
            /\ lru' = IF refs[e] = 1 THEN Without(lru, e) ELSE lru
            /\ refs' = [refs EXCEPT ![e] = @ + 1]
            /\ hit_count' = hit_count + 1
            /\ handles' = [handles EXCEPT ![e] = @ + 1]
    /\ UNCHANGED <<key, charge, priority, in_cache, table, usage, capacity,
                   mutex, pc, arg, cur, last_ref_list>>

\* Mutant of ReleaseLastRef: nobody frees the entry.
ReleaseLeaks(t, e) ==
    /\ refs[e] = 1
    /\ refs' = [refs EXCEPT ![e] = 0]
    /\ usage' = usage - charge[e]
    /\ Unlock(t, <<>>)
    /\ UNCHANGED <<in_cache, table, lru>>

\* Mutant of ReleaseEvict: over capacity, an entry that others hold goes too.
ReleaseEvictsHeld(t, e) ==
    /\ refs[e] >= 2 /\ e \in in_cache
    /\ usage > capacity
    /\ table' = [table EXCEPT ![key[e]] = Nil]
    /\ in_cache' = in_cache \ {e}
    /\ refs' = [refs EXCEPT ![e] = @ - 2]
    /\ usage' = IF refs[e] = 2 THEN usage - charge[e] ELSE usage
    /\ Unlock(t, IF refs[e] = 2 THEN <<e>> ELSE <<>>)
    /\ UNCHANGED lru

\* release, the three ways it ends under the mutex (releasing the null handle
\* changes nothing).  The first reference to go is the caller's (the first
\* _unref).
ReleaseLastRef(t, e) ==
    /\ refs[e] = 1
    /\ refs' = [refs EXCEPT ![e] = 0]
    /\ usage' = usage - charge[e]
    /\ Unlock(t, <<e>>)
    /\ UNCHANGED <<in_cache, table, lru>>

ReleaseEvict(t, e) ==
    /\ refs[e] = 2 /\ e \in in_cache
    /\ usage > capacity
    /\ table' = [table EXCEPT ![key[e]] = Nil]
    /\ in_cache' = in_cache \ {e}
    /\ refs' = [refs EXCEPT ![e] = 0]
    /\ usage' = usage - charge[e]
    /\ Unlock(t, <<e>>)
    /\ UNCHANGED lru

ReleaseKeep(t, e) ==
    /\ refs[e] # 1
    /\ ~(refs[e] = 2 /\ e \in in_cache /\ usage > capacity)
    /\ refs' = [refs EXCEPT ![e] = @ - 1]
    /\ lru' = IF refs[e] = 2 /\ e \in in_cache THEN Append(lru, e) ELSE lru
    /\ Unlock(t, <<>>)
    /\ UNCHANGED <<in_cache, table, usage>>

Release(t, e) ==
    /\ CanLock(t)
    /\ handles[e] > 0
    /\ handles' = [handles EXCEPT ![e] = @ - 1]
    /\ \/ ReleaseLastRef(t, e)
       \/ ReleaseEvict(t, e)
       \/ ReleaseKeep(t, e)
    /\ UNCHANGED <<key, charge, priority, capacity, lookup_count, hit_count,
                   arg, cur>>

\* Mutant of Erase: the entry is freed while clients still hold it.
EraseFreesHeld(t, k) ==
    /\ CanLock(t)
    /\ LET e == table[k] IN
         /\ e # Nil
         /\ table' = [table EXCEPT ![k] = Nil]
         /\ in_cache' = in_cache \ {e}
         /\ refs' = [refs EXCEPT ![e] = @ - 1]
         /\ usage' = IF refs[e] = 1 THEN usage - charge[e] ELSE usage
         /\ lru' = IF refs[e] = 1 THEN Without(lru, e) ELSE lru
         /\ Unlock(t, <<e>>)
    /\ UNCHANGED <<key, charge, priority, capacity, lookup_count, hit_count,
                   arg, cur, handles>>

\* erase: the entry leaves the table; it is freed only if nobody holds it.  An
\* erase that finds nothing changes nothing.
Erase(t, k) ==
    /\ CanLock(t)
    /\ LET e == table[k] IN
         /\ e # Nil
         /\ table' = [table EXCEPT ![k] = Nil]
         /\ in_cache' = in_cache \ {e}
         /\ refs' = [refs EXCEPT ![e] = @ - 1]
         /\ \/ /\ refs[e] = 1
               /\ usage' = usage - charge[e]
               /\ lru' = IF e \in in_cache THEN Without(lru, e) ELSE lru
               /\ Unlock(t, <<e>>)
            \/ /\ refs[e] # 1
               /\ UNCHANGED <<usage, lru>>
               /\ Unlock(t, <<>>)
    /\ UNCHANGED <<key, charge, priority, capacity, lookup_count, hit_count,
                   arg, cur, handles>>

-----------------------------------------------------------------------------
\* insert, from malloc to the start of _evict_from_lru.  The fields are set
\* before the lock is taken, in memory no other thread knows of.
InsertLock(t, k, c, p) ==
    /\ CanLock(t)
    /\ \E e \in Entry \ Allocated :
         /\ key' = [key EXCEPT ![e] = k]
         /\ charge' = [charge EXCEPT ![e] = c]
         /\ priority' = [priority EXCEPT ![e] = p]
         /\ refs' = [refs EXCEPT ![e] = 2]
         /\ in_cache' = in_cache \cup {e}
         /\ arg' = e
    /\ mutex' = t
    /\ pc' = [pc EXCEPT ![t] = "normal"]
    /\ cur' = 0
    /\ UNCHANGED <<table, lru, usage, capacity, lookup_count, hit_count,
                   last_ref_list, handles>>

\* set_capacity, up to the start of _evict_from_lru(0).
SetCapacityLock(t, c) ==
    /\ CanLock(t)
    /\ capacity' = c
    /\ mutex' = t
    /\ pc' = [pc EXCEPT ![t] = "normal"]
    /\ cur' = 0
    /\ UNCHANGED <<key, charge, priority, refs, in_cache, table, lru, usage,
                   lookup_count, hit_count, arg, last_ref_list, handles>>

\* Mutant of NeedsSpace: the charge of the new entry is left out.
NeedsSpaceNow == usage > capacity

\* The loop condition of _evict_from_lru(charge).
NeedsSpace == usage + (IF arg = Nil THEN 0 ELSE charge[arg]) > capacity

\* _evict_one_entry and the push_back after it.
EvictOneEntry(t, e) ==
    /\ lru' = Without(lru, e)
    /\ table' = [table EXCEPT ![key[e]] = Nil]
    /\ in_cache' = in_cache \ {e}
    /\ refs' = [refs EXCEPT ![e] = @ - 1]
    /\ usage' = usage - charge[e]
    /\ last_ref_list' = [last_ref_list EXCEPT ![t] = Append(@, e)]

\* Mutant of SkipDurable: the scan does not move on.
SkipDurableStays(t) ==
    /\ pc[t] = "normal"
    /\ NeedsSpace /\ cur < Len(lru)
    /\ priority[lru[cur + 1]] = "DURABLE"
    /\ UNCHANGED vars

\* Phase 1 of _evict_from_lru walks the list with cur, which counts the DURABLE
\* entries it has skipped, and evicts the NORMAL ones.
SkipDurable(t) ==
    /\ pc[t] = "normal"
    /\ NeedsSpace /\ cur < Len(lru)
    /\ priority[lru[cur + 1]] = "DURABLE"
    /\ cur' = cur + 1
    /\ UNCHANGED <<key, charge, priority, refs, in_cache, table, lru, usage,
                   capacity, lookup_count, hit_count, mutex, pc, arg,
                   last_ref_list, handles>>

EvictNormal(t) ==
    /\ pc[t] = "normal"
    /\ NeedsSpace /\ cur < Len(lru)
    /\ priority[lru[cur + 1]] # "DURABLE"
    /\ EvictOneEntry(t, lru[cur + 1])
    /\ UNCHANGED <<key, charge, priority, capacity, lookup_count, hit_count,
                   mutex, pc, arg, cur, handles>>

\* Mutant of EndNormal: the scan may stop at the first DURABLE entry.
EndNormalEarly(t) ==
    /\ pc[t] = "normal"
    /\ ~(NeedsSpace /\ cur < Len(lru)) \/ cur > 0
    /\ pc' = [pc EXCEPT ![t] = "durable"]
    /\ UNCHANGED <<key, charge, priority, refs, in_cache, table, lru, usage,
                   capacity, lookup_count, hit_count, mutex, arg, cur,
                   last_ref_list, handles>>

EndNormal(t) ==
    /\ pc[t] = "normal"
    /\ ~(NeedsSpace /\ cur < Len(lru))
    /\ pc' = [pc EXCEPT ![t] = "durable"]
    /\ UNCHANGED <<key, charge, priority, refs, in_cache, table, lru, usage,
                   capacity, lookup_count, hit_count, mutex, arg, cur,
                   last_ref_list, handles>>

\* Mutant of EvictDurable: the newest entry goes first.
EvictNewest(t) ==
    /\ pc[t] = "durable"
    /\ NeedsSpace /\ lru # <<>>
    /\ EvictOneEntry(t, lru[Len(lru)])
    /\ UNCHANGED <<key, charge, priority, capacity, lookup_count, hit_count,
                   mutex, pc, arg, cur, handles>>

\* Phase 2 evicts from the head of the list.
EvictDurable(t) ==
    /\ pc[t] = "durable"
    /\ NeedsSpace /\ lru # <<>>
    /\ EvictOneEntry(t, lru[1])
    /\ UNCHANGED <<key, charge, priority, capacity, lookup_count, hit_count,
                   mutex, pc, arg, cur, handles>>

EvictionDone(t) == pc[t] = "durable" /\ ~(NeedsSpace /\ lru # <<>>)

\* Mutant of InsertPublish: the replaced entry stays charged.
InsertKeepsCharge(t) ==
    /\ EvictionDone(t)
    /\ arg # Nil
    /\ LET old == table[key[arg]]
           dropped == old # Nil /\ refs[old] = 1
       IN  /\ table' = [table EXCEPT ![key[arg]] = arg]
           /\ in_cache' = in_cache \ {old}
           /\ refs' = [e \in Entry |-> IF e = old THEN refs[e] - 1 ELSE refs[e]]
           /\ lru' = IF dropped THEN Without(lru, old) ELSE lru
           /\ usage' = usage + charge[arg]
           /\ Unlock(t, IF dropped THEN Append(last_ref_list[t], old)
                        ELSE last_ref_list[t])
    /\ handles' = [handles EXCEPT ![arg] = 1]
    /\ arg' = Nil
    /\ UNCHANGED <<key, charge, priority, capacity, lookup_count, hit_count, cur>>

\* Mutant of InsertPublish: the replaced entry is not freed.
InsertLeaksReplaced(t) ==
    /\ EvictionDone(t)
    /\ arg # Nil
    /\ LET old == table[key[arg]]
           dropped == old # Nil /\ refs[old] = 1
       IN  /\ table' = [table EXCEPT ![key[arg]] = arg]
           /\ in_cache' = in_cache \ {old}
           /\ refs' = [e \in Entry |-> IF e = old THEN refs[e] - 1 ELSE refs[e]]
           /\ lru' = IF dropped THEN Without(lru, old) ELSE lru
           /\ usage' = IF dropped THEN (usage + charge[arg]) - charge[old]
                       ELSE usage + charge[arg]
           /\ Unlock(t, last_ref_list[t])
    /\ handles' = [handles EXCEPT ![arg] = 1]
    /\ arg' = Nil
    /\ UNCHANGED <<key, charge, priority, capacity, lookup_count, hit_count, cur>>

\* insert, after the eviction: enter the table and drop the entry replaced.
InsertPublish(t) ==
    /\ EvictionDone(t)
    /\ arg # Nil
    /\ LET old == table[key[arg]]
           dropped == old # Nil /\ refs[old] = 1
       IN  /\ table' = [table EXCEPT ![key[arg]] = arg]
           /\ in_cache' = in_cache \ {old}
           /\ refs' = [e \in Entry |-> IF e = old THEN refs[e] - 1 ELSE refs[e]]
           /\ lru' = IF dropped THEN Without(lru, old) ELSE lru
           /\ usage' = IF dropped THEN (usage + charge[arg]) - charge[old]
                       ELSE usage + charge[arg]
           /\ Unlock(t, IF dropped THEN Append(last_ref_list[t], old)
                        ELSE last_ref_list[t])
    /\ handles' = [handles EXCEPT ![arg] = 1]
    /\ arg' = Nil
    /\ UNCHANGED <<key, charge, priority, capacity, lookup_count, hit_count, cur>>

SetCapacityUnlock(t) ==
    /\ EvictionDone(t)
    /\ arg = Nil
    /\ Unlock(t, last_ref_list[t])
    /\ UNCHANGED <<key, charge, priority, refs, in_cache, table, lru, usage,
                   capacity, lookup_count, hit_count, arg, cur, handles>>

-----------------------------------------------------------------------------
\* prune, which is also the destructor.
PruneLock(t) ==
    /\ CanLock(t)
    /\ mutex' = t
    /\ pc' = [pc EXCEPT ![t] = "prune"]
    /\ UNCHANGED <<key, charge, priority, refs, in_cache, table, lru, usage,
                   capacity, lookup_count, hit_count, arg, cur, last_ref_list,
                   handles>>

PruneOne(t) ==
    /\ pc[t] = "prune"
    /\ lru # <<>>
    /\ EvictOneEntry(t, lru[1])
    /\ UNCHANGED <<key, charge, priority, capacity, lookup_count, hit_count,
                   mutex, pc, arg, cur, handles>>

PruneUnlock(t) ==
    /\ pc[t] = "prune"
    /\ lru = <<>>
    /\ Unlock(t, last_ref_list[t])
    /\ UNCHANGED <<key, charge, priority, refs, in_cache, table, lru, usage,
                   capacity, lookup_count, hit_count, arg, cur, handles>>

\* entry->free(), outside the mutex: the deleter runs and the memory goes back.
Free(t) ==
    /\ pc[t] = "free"
    /\ LET e == Head(last_ref_list[t]) IN
         /\ key' = [key EXCEPT ![e] = Nil]
         /\ charge' = [charge EXCEPT ![e] = 0]
         /\ priority' = [priority EXCEPT ![e] = "NORMAL"]
    /\ last_ref_list' = [last_ref_list EXCEPT ![t] = Tail(@)]
    /\ pc' = [pc EXCEPT ![t] = IF Tail(last_ref_list[t]) = <<>> THEN "idle"
                               ELSE "free"]
    /\ UNCHANGED <<refs, in_cache, table, lru, usage, capacity, lookup_count,
                   hit_count, mutex, arg, cur, handles>>

-----------------------------------------------------------------------------
\* A call that a thread may make.
Call(t) ==
    \/ \E k \in Key : Lookup(t, k) \/ Erase(t, k)
    \/ \E e \in Entry : Release(t, e)
    \/ \E k \in Key, c \in Charge, p \in Priority : InsertLock(t, k, c, p)
    \/ \E c \in Capacity : SetCapacityLock(t, c)
    \/ PruneLock(t)

\* A step of a call that has begun.
Proceed(t) ==
    \/ SkipDurable(t) \/ EvictNormal(t) \/ EndNormal(t) \/ EvictDurable(t)
    \/ InsertPublish(t) \/ SetCapacityUnlock(t)
    \/ PruneOne(t) \/ PruneUnlock(t)
    \/ Free(t)

Next == \E t \in Thread : Call(t) \/ Proceed(t)

Spec == Init /\ [][Next]_vars

\* A thread inside a method keeps running; nobody is obliged to call one.
FairSpec == Spec /\ \A t \in Thread : WF_vars(Proceed(t))

-----------------------------------------------------------------------------
(***************************************************************************)
(* Properties                                                              *)
(***************************************************************************)

\* Every variable has the type of the member or local it stands for; in
\* particular the unsigned _usage never goes below zero.
TypeOK ==
    /\ key \in [Entry -> Key \cup {Nil}]
    /\ charge \in [Entry -> Nat]
    /\ priority \in [Entry -> Priority]
    /\ refs \in [Entry -> Nat]
    /\ in_cache \subseteq Entry
    /\ table \in [Key -> Entry \cup {Nil}]
    /\ lru \in Seq(Entry)
    /\ usage \in Nat
    /\ capacity \in Nat
    /\ lookup_count \in Nat
    /\ hit_count \in Nat
    /\ mutex \in Thread \cup {Nil}
    /\ pc \in [Thread -> {"idle", "free"} \cup Critical]
    /\ arg \in Entry \cup {Nil}
    /\ cur \in Nat
    /\ last_ref_list \in [Thread -> Seq(Entry)]
    /\ handles \in [Entry -> Nat]

\* The bytes charged to the shard: those of every entry that is cached or held,
\* c[e] bytes for an entry e.
Resident == {e \in Published : refs[e] > 0}
Bytes(c, E) == UNION {{e} \X (1..c[e]) : e \in E}
Footprint == Bytes(charge, Resident)

\* _usage is exactly what the entries that are cached or still held were
\* charged, whatever order they were inserted, replaced, erased, evicted and
\* released in: nothing is charged twice or refunded twice.
UsageIsFootprint == usage = Cardinality(Footprint)

\* _lru links exactly the entries that the cache holds the only reference to
\* (lru_cache.h: "Entries have refs==1 and in_cache==true"), each of them once.
LruIsIdle ==
    /\ Elements(lru) = {e \in Published : e \in in_cache /\ refs[e] = 1}
    /\ \A i, j \in 1..Len(lru) : lru[i] = lru[j] => i = j

\* Between calls a shard is over its capacity only with entries that clients
\* hold: whatever could be evicted has been.
OverCapacityOnlyPinned ==
    mutex = Nil /\ usage > capacity =>
        \A e \in Resident : handles[e] > 0

\* What a client holds is valid: no held entry has been freed, or is waiting in
\* some thread's last_ref_list to be freed, and it is still charged.
HeldIsValid ==
    \A e \in Entry : handles[e] > 0 =>
        /\ e \in Resident
        /\ \A t \in Thread : e \notin Elements(last_ref_list[t])

\* Every entry the cache has dropped and nobody holds sits in exactly one
\* place of one last_ref_list: it is neither leaked nor freed twice.
DroppedIsFreedOnce ==
    /\ \A e \in Published : refs[e] = 0 =>
         \E t \in Thread : e \in Elements(last_ref_list[t])
    /\ \A t, u \in Thread :
         \A i \in 1..Len(last_ref_list[t]), j \in 1..Len(last_ref_list[u]) :
           last_ref_list[t][i] = last_ref_list[u][j] => t = u /\ i = j
    /\ \A t \in Thread : Elements(last_ref_list[t]) \subseteq Published

\* A step of _evict_from_lru takes e out of the table.
Evicted(e) ==
    /\ mutex # Nil /\ pc[mutex] \in {"normal", "durable"} /\ e # arg
    /\ e \in Allocated /\ table[key[e]] = e /\ table'[key[e]] = Nil

\* Eviction takes the oldest NORMAL entry, and takes the oldest DURABLE entry
\* only when no NORMAL one is left on the list ("The entry with smaller
\* CachePriority will evict firstly").
EvictionOrder ==
    [][\A e \in Entry : Evicted(e) =>
          \A i, j \in 1..Len(lru) :
             lru[j] = e /\ priority[lru[i]] \in {"NORMAL", priority[e]} =>
                priority[lru[i]] = priority[e] /\ j <= i]_vars

\* Every call returns: the loops end, the mutex is given back, the frees finish.
CallsReturn == \A t \in Thread : pc[t] # "idle" ~> pc[t] = "idle"

\* Memory that nobody can reach any more is given back to the allocator.
DroppedIsReclaimed ==
    \A e \in Entry : e \in Published /\ refs[e] = 0 ~> e \notin Allocated

\* A shard gives its clients what the cache promises: whatever the threads do,
\* a held entry is never freed, an entry leaves the map only by erase, by
\* replacement or while nobody holds it, and only entries that can no longer
\* be reached are freed.
Cache == INSTANCE CacheSpec WITH map <- table, alive <- Published
ImplementsCacheSpec == Cache!Spec

-----------------------------------------------------------------------------
(***************************************************************************)
(* The inductive invariant, in parts.                                      *)
(***************************************************************************)

\* A list whose elements are all different.
Distinct(s) == \A i, j \in 1..Len(s) : s[i] = s[j] => i = j

\* Who holds the mutex, and that only an insert prepares an entry.
MutexInv ==
    /\ \A t \in Thread : pc[t] \in Critical <=> mutex = t
    /\ arg # Nil => mutex # Nil /\ pc[mutex] \in {"normal", "durable"}

\* The reference count of a published entry counts the handles and the cache.
EntryInv ==
    \A e \in Entry :
      /\ key[e] = Nil => refs[e] = 0 /\ e \notin in_cache /\ handles[e] = 0
      /\ e = arg => key[e] # Nil /\ refs[e] = 2 /\ e \in in_cache /\ handles[e] = 0
      /\ key[e] # Nil /\ e # arg =>
           refs[e] = handles[e] + (IF e \in in_cache THEN 1 ELSE 0)

\* The table maps a key to the one entry that is cached under it.
TableInv ==
    /\ \A k \in Key : table[k] # Nil =>
         /\ table[k] \in Published /\ key[table[k]] = k /\ table[k] \in in_cache
    /\ \A e \in Published : e \in in_cache => table[key[e]] = e

\* Entries waiting to be freed: unreferenced, and each in one place of one list.
ListInv ==
    /\ \A t \in Thread :
         /\ Distinct(last_ref_list[t])
         /\ \A e \in Elements(last_ref_list[t]) : e \in Published /\ refs[e] = 0
         /\ pc[t] = "idle" => last_ref_list[t] = <<>>
         /\ pc[t] = "free" => last_ref_list[t] # <<>>
    /\ \A t, u \in Thread : t # u =>
         Elements(last_ref_list[t]) \cap Elements(last_ref_list[u]) = {}
    /\ \A e \in Published : refs[e] = 0 =>
         \E t \in Thread : e \in Elements(last_ref_list[t])

UsageInv == IsFiniteSet(Footprint) /\ UsageIsFootprint

\* Outside the eviction loops, a shard over its capacity has nothing to evict.
CapacityInv ==
    usage > capacity /\ (mutex = Nil \/ pc[mutex] = "prune") => lru = <<>>

\* Phase 1 leaves DURABLE entries behind it, and hands only those to phase 2
\* (the T_DCHECK of phase 2).
ScanInv ==
    \A t \in Thread :
      /\ pc[t] = "normal" =>
           cur <= Len(lru) /\ \A i \in 1..cur : priority[lru[i]] = "DURABLE"
      /\ pc[t] = "durable" /\ NeedsSpace =>
           \A i \in 1..Len(lru) : priority[lru[i]] = "DURABLE"

IInv ==
    /\ TypeOK /\ MutexInv /\ EntryInv /\ TableInv /\ LruIsIdle /\ ListInv
    /\ UsageInv /\ CapacityInv /\ ScanInv

=============================================================================
