-------------------------- MODULE ShardedLRUCache --------------------------
(***************************************************************************)
(* Class ShardedLRUCache of tenann/store/lru_cache.{h,cc}: two shards, a   *)
(* capacity for the whole cache that is divided between them, and a mutex  *)
(* that only set_capacity, adjust_capacity and new_id take.  Everything    *)
(* else goes from shard to shard, locking one at a time, while capacities  *)
(* change and clients use the shards.                                      *)
(*                                                                         *)
(* A method of a shard is one step here; LRUCache.tla models its inside.   *)
(* Entries have charge one, and of each shard it matters only how many are *)
(* idle (on its LRU list) and how many are pinned by handles.  size_t is   *)
(* arithmetic modulo 2 * Half, int64_t its two's complement.               *)
(***************************************************************************)
EXTENDS Integers

CONSTANTS
    Thread,      \* client threads
    Nil,         \* no thread
    Half,        \* 2^63
    Capacities,  \* capacities given to the constructor and to set_capacity
    Deltas,      \* deltas given to adjust_capacity
    Mins,        \* min_capacity given to adjust_capacity
    MaxEntries,  \* bound: entries of one shard
    MaxId        \* bound: calls of new_id

SizeT == 0..(2 * Half - 1)
Int64 == (-Half)..(Half - 1)

ASSUME ShardedAssumption ==
    /\ Half \in Nat \ {0}
    /\ Capacities \subseteq SizeT
    /\ Deltas \subseteq Int64
    /\ Mins \subseteq SizeT
    /\ MaxEntries \in Nat
    /\ MaxId \in Nat
    /\ Nil \notin Thread

kNumShards == 2
Shard == 0..(kNumShards - 1)

\* The sum of two operands, as size_t; a size_t read as int64_t.
Unsigned(x) ==
    IF x < 0 THEN x + 2 * Half
    ELSE IF x >= 2 * Half THEN x - 2 * Half ELSE x
Signed(x) == IF x >= Half THEN x - 2 * Half ELSE x

per_shard(c) == Unsigned(c + (kNumShards - 1)) \div kNumShards

VARIABLES
    mutex,           \* owner of _mutex
    _capacity,       \* _capacity of the whole cache
    shard_capacity,  \* _capacity of each shard
    idle, pinned,    \* entries of each shard on its LRU list, and held
    last_id,         \* _last_id
    pc,              \* the method each thread is in
    next,            \* the shard its loop is at
    call,            \* the arguments of a call that changes the capacity
    sum,             \* n of _get_stat
    seen             \* history: the capacities set while _get_stat runs

vars == <<mutex, _capacity, shard_capacity, idle, pinned, last_id, pc, next,
          call, sum, seen>>

shardVars == <<shard_capacity, idle, pinned>>

Usage(s) == idle[s] + pinned[s]

\* A capacity that is going to be installed, and where it comes from.
Call == [relative : BOOLEAN, delta : Int64, min : SizeT, new : SizeT]
NoCall == [relative |-> FALSE, delta |-> 0, min |-> 0, new |-> 0]

Init ==
    /\ \E c \in Capacities :
         /\ _capacity = c
         /\ shard_capacity = [s \in Shard |-> per_shard(c)]
    /\ mutex = Nil
    /\ idle = [s \in Shard |-> 0]
    /\ pinned = [s \in Shard |-> 0]
    /\ last_id = 0
    /\ pc = [t \in Thread |-> "idle"]
    /\ next = [t \in Thread |-> 0]
    /\ call = [t \in Thread |-> NoCall]
    /\ sum = [t \in Thread |-> 0]
    /\ seen = [t \in Thread |-> {}]

-----------------------------------------------------------------------------
\* set_capacity and adjust_capacity

\* _set_capacity begins: the loop over the shards.
BeginResize(t, c) ==
    /\ mutex' = t
    /\ pc' = [pc EXCEPT ![t] = "resize"]
    /\ call' = [call EXCEPT ![t] = c]
    /\ seen' = [u \in Thread |->
                  IF pc[u] = "stat" THEN seen[u] \cup {c.new} ELSE seen[u]]
    /\ UNCHANGED <<_capacity, shardVars, last_id, next, sum>>

SetCapacity(t, c) ==
    /\ pc[t] = "idle"
    /\ mutex = Nil
    /\ BeginResize(t, [relative |-> FALSE, delta |-> 0, min |-> 0, new |-> c])

\* Mutant of Accepted: the comparison is made on unsigned values.
AcceptedUnsigned(c, delta, min) == Unsigned(c + delta) >= min

\* new_capacity >= static_cast<int64_t>(min_capacity)
Accepted(c, delta, min) == Signed(Unsigned(c + delta)) >= Signed(min)

\* Mutant of AdjustCapacity: the mutex is not taken.
AdjustCapacityUnlocked(t, delta, min) ==
    /\ pc[t] = "idle"
    /\ Accepted(_capacity, delta, min)
    /\ BeginResize(t, [relative |-> TRUE, delta |-> delta, min |-> min,
                       new |-> Unsigned(_capacity + delta)])

\* adjust_capacity, when it does not return false.
AdjustCapacity(t, delta, min) ==
    /\ pc[t] = "idle"
    /\ mutex = Nil
    /\ Accepted(_capacity, delta, min)
    /\ BeginResize(t, [relative |-> TRUE, delta |-> delta, min |-> min,
                       new |-> Unsigned(_capacity + delta)])

\* What _evict_from_lru(charge) leaves on the LRU list of s.
Kept(s, charge, capacity) ==
    IF Usage(s) + charge <= capacity THEN idle[s]
    ELSE IF pinned[s] + charge <= capacity THEN capacity - pinned[s] - charge
    ELSE 0

\* Mutant of ResizeShard: what is idle is not evicted.
ResizeShardKeepsAll(t) ==
    LET s == next[t]
        c == per_shard(call[t].new)
    IN  /\ pc[t] = "resize"
        /\ s < kNumShards
        /\ shard_capacity' = [shard_capacity EXCEPT ![s] = c]
        /\ next' = [next EXCEPT ![t] = s + 1]
        /\ UNCHANGED <<mutex, _capacity, idle, pinned, last_id, pc, call, sum, seen>>

\* LRUCache::set_capacity of the next shard.
ResizeShard(t) ==
    LET s == next[t]
        c == per_shard(call[t].new)
    IN  /\ pc[t] = "resize"
        /\ s < kNumShards
        /\ shard_capacity' = [shard_capacity EXCEPT ![s] = c]
        /\ idle' = [idle EXCEPT ![s] = Kept(s, 0, c)]
        /\ next' = [next EXCEPT ![t] = s + 1]
        /\ UNCHANGED <<mutex, _capacity, pinned, last_id, pc, call, sum, seen>>

\* The end of _set_capacity; the lock guard is destroyed.
FinishResize(t) ==
    /\ pc[t] = "resize"
    /\ next[t] = kNumShards
    /\ _capacity' = call[t].new
    /\ mutex' = Nil
    /\ pc' = [pc EXCEPT ![t] = "idle"]
    /\ next' = [next EXCEPT ![t] = 0]
    /\ call' = [call EXCEPT ![t] = NoCall]
    /\ UNCHANGED <<shardVars, last_id, sum, seen>>

\* new_id
NewId(t) ==
    /\ pc[t] = "idle"
    /\ mutex = Nil
    /\ last_id < MaxId
    /\ last_id' = last_id + 1
    /\ UNCHANGED <<mutex, _capacity, shardVars, pc, next, call, sum, seen>>

-----------------------------------------------------------------------------
\* Methods that go from shard to shard without _mutex

\* Mutant of BeginStat: the loop starts at the second shard.
BeginStatAtOne(t) ==
    /\ pc[t] = "idle"
    /\ pc' = [pc EXCEPT ![t] = "stat"]
    /\ next' = [next EXCEPT ![t] = 1]
    /\ seen' = [seen EXCEPT ![t] =
                  {_capacity} \cup {call[u].new : u \in {mutex} \ {Nil}}]
    /\ UNCHANGED <<mutex, _capacity, shardVars, last_id, call, sum>>

\* _get_stat(&LRUCache::get_capacity)
BeginStat(t) ==
    /\ pc[t] = "idle"
    /\ pc' = [pc EXCEPT ![t] = "stat"]
    /\ seen' = [seen EXCEPT ![t] =
                  {_capacity} \cup {call[u].new : u \in {mutex} \ {Nil}}]
    /\ UNCHANGED <<mutex, _capacity, shardVars, last_id, next, call, sum>>

StatShard(t) ==
    /\ pc[t] = "stat"
    /\ next[t] < kNumShards
    /\ sum' = [sum EXCEPT ![t] = Unsigned(@ + shard_capacity[next[t]])]
    /\ next' = [next EXCEPT ![t] = @ + 1]
    /\ UNCHANGED <<mutex, _capacity, shardVars, last_id, pc, call, seen>>

\* prune
BeginPrune(t) ==
    /\ pc[t] = "idle"
    /\ pc' = [pc EXCEPT ![t] = "prune"]
    /\ UNCHANGED <<mutex, _capacity, shardVars, last_id, next, call, sum, seen>>

PruneShard(t) ==
    /\ pc[t] = "prune"
    /\ next[t] < kNumShards
    /\ idle' = [idle EXCEPT ![next[t]] = 0]
    /\ next' = [next EXCEPT ![t] = @ + 1]
    /\ UNCHANGED <<mutex, _capacity, shard_capacity, pinned, last_id, pc, call,
                   sum, seen>>

\* The end of a loop over the shards; its locals go.
Return(t) ==
    /\ pc[t] \in {"stat", "prune"}
    /\ next[t] = kNumShards
    /\ pc' = [pc EXCEPT ![t] = "idle"]
    /\ next' = [next EXCEPT ![t] = 0]
    /\ sum' = [sum EXCEPT ![t] = 0]
    /\ seen' = [seen EXCEPT ![t] = {}]
    /\ UNCHANGED <<mutex, _capacity, shardVars, last_id, call>>

-----------------------------------------------------------------------------
\* Methods that work on the shard the hash of the key selects

Change(s, i, p) ==
    /\ idle' = [idle EXCEPT ![s] = i]
    /\ pinned' = [pinned EXCEPT ![s] = p]
    /\ UNCHANGED <<mutex, _capacity, shard_capacity, last_id, pc, next, call, sum,
                   seen>>

\* insert makes room, then adds an entry that the caller holds; an idle entry
\* under the same key goes.
Insert(s) ==
    /\ Usage(s) < MaxEntries
    /\ LET kept == Kept(s, 1, shard_capacity[s]) IN
         \E i \in {kept, kept - 1} \cap Nat : Change(s, i, pinned[s] + 1)

\* lookup of an idle entry.
Lookup(s) == idle[s] > 0 /\ Change(s, idle[s] - 1, pinned[s] + 1)

\* release of the last handle: the entry becomes idle, or goes because the
\* shard is too full or because it is no longer in the table.
Release(s) ==
    /\ pinned[s] > 0
    /\ \/ Usage(s) <= shard_capacity[s] /\ Change(s, idle[s] + 1, pinned[s] - 1)
       \/ Change(s, idle[s], pinned[s] - 1)

\* erase of an idle entry.
Erase(s) == idle[s] > 0 /\ Change(s, idle[s] - 1, pinned[s])

-----------------------------------------------------------------------------
Step(t) == ResizeShard(t) \/ FinishResize(t) \/ StatShard(t) \/ PruneShard(t) \/ Return(t)

Next ==
    \/ \E t \in Thread :
         \/ \E c \in Capacities : SetCapacity(t, c)
         \/ \E delta \in Deltas, min \in Mins : AdjustCapacity(t, delta, min)
         \/ NewId(t)
         \/ BeginStat(t)
         \/ BeginPrune(t)
         \/ Step(t)
    \/ \E s \in Shard : Insert(s) \/ Lookup(s) \/ Release(s) \/ Erase(s)

Spec == Init /\ [][Next]_vars

-----------------------------------------------------------------------------
\* Every variable has its type.
TypeOK ==
    /\ mutex \in Thread \cup {Nil}
    /\ _capacity \in SizeT
    /\ shard_capacity \in [Shard -> SizeT]
    /\ idle \in [Shard -> Nat]
    /\ pinned \in [Shard -> Nat]
    /\ last_id \in Nat
    /\ pc \in [Thread -> {"idle", "resize", "stat", "prune"}]
    /\ next \in [Thread -> 0..kNumShards]
    /\ call \in [Thread -> Call]
    /\ sum \in [Thread -> SizeT]
    /\ seen \in [Thread -> SUBSET SizeT]

\* Whenever nobody holds _mutex, the shards have the capacity that follows from
\* _capacity, however many threads have set and adjusted it.
ShardsFollow ==
    mutex = Nil => \A s \in Shard : shard_capacity[s] = per_shard(_capacity)

\* The memory a cache keeps beyond what its clients hold stays within the
\* capacity that was set for the whole cache, up to the rounding of the division,
\* also when capacities wrap: shards over their capacity keep nothing idle.
IdleWithinCapacity ==
    mutex = Nil =>
      LET Reusable(s) == IF idle[s] = 0 THEN 0 ELSE Usage(s)
      IN  Reusable(0) + Reusable(1) <= _capacity + (kNumShards - 1)

\* get_capacity() returns a value between the smallest and the largest capacity
\* that was set, or being set, while it ran (rounded up to both shards), although
\* it reads the shards at different times.
ReportedCapacityWasSet ==
    \A t \in Thread :
      pc[t] = "stat" /\ next[t] = kNumShards =>
        /\ \E c \in seen[t] : kNumShards * per_shard(c) <= sum[t]
        /\ \E c \in seen[t] : sum[t] <= kNumShards * per_shard(c)

\* adjust_capacity that succeeds changes the capacity by exactly delta and does
\* not go below min_capacity, with several threads adjusting it and whatever
\* wraps, as long as the capacity and the minimum are below 2^63.
AdjustIsExact ==
    [][\A t \in Thread :
         FinishResize(t) /\ call[t].relative /\ _capacity < Half /\ call[t].min < Half
           => /\ _capacity' = _capacity + call[t].delta
              /\ _capacity' >= call[t].min]_vars
=============================================================================
