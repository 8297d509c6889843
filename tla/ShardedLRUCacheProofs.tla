----------------------- MODULE ShardedLRUCacheProofs -----------------------
(***************************************************************************)
(* Proofs about the sharded cache, for any number of threads, any width of *)
(* size_t, any capacities, deltas and minima, and shards of any size.      *)
(***************************************************************************)
EXTENDS ShardedLRUCache, TLAPS

-----------------------------------------------------------------------------
(***************************************************************************)
(* Arithmetic of size_t.                                                   *)
(***************************************************************************)

\* The sum of a size_t and an int64_t, or of two shares, wraps to a size_t.
LEMMA UnsignedType ==
    ASSUME NEW x \in (-Half)..(3 * Half)
    PROVE  Unsigned(x) \in SizeT
BY ShardedAssumption DEF Unsigned, SizeT

\* The share of a shard is less than half the range of size_t, and the shares
\* of both shards make at most the capacity and the rounding.
LEMMA PerShard ==
    ASSUME NEW c \in SizeT
    PROVE  /\ per_shard(c) \in SizeT
           /\ per_shard(c) < Half
           /\ kNumShards * per_shard(c) <= c + (kNumShards - 1)
<1>1. c + 1 \in (-Half)..(3 * Half)
  BY ShardedAssumption DEF SizeT
<1>2. Unsigned(c + 1) \in SizeT
  BY <1>1, UnsignedType
<1>3. per_shard(c) = Unsigned(c + 1) \div 2
  BY DEF per_shard, kNumShards, SizeT
<1>4. Unsigned(c + 1) <= c + 1
  BY ShardedAssumption DEF SizeT, Unsigned
<1> QED
  BY <1>2, <1>3, <1>4, ShardedAssumption DEF SizeT, kNumShards

\* An adjustment that is accepted has not wrapped, unless an operand is 2^63
\* or more.
LEMMA AcceptedIsExact ==
    ASSUME NEW c \in SizeT, NEW delta \in Int64, NEW min \in SizeT,
           c < Half, min < Half, Accepted(c, delta, min)
    PROVE  Unsigned(c + delta) = c + delta /\ c + delta >= min
BY ShardedAssumption DEF SizeT, Int64, Accepted, Signed, Unsigned

\* What an eviction leaves fits, or nothing is left.
LEMMA KeptFits ==
    ASSUME NEW s \in Shard, NEW charge \in Nat, NEW c \in Nat,
           idle \in [Shard -> Nat], pinned \in [Shard -> Nat]
    PROVE  /\ Kept(s, charge, c) \in Nat
           /\ Kept(s, charge, c) <= idle[s]
           /\ Kept(s, charge, c) = 0 \/ Kept(s, charge, c) + pinned[s] + charge <= c
BY DEF Kept, Usage

-----------------------------------------------------------------------------
(***************************************************************************)
(* The inductive invariant.                                                *)
(***************************************************************************)

\* The thread inside _set_capacity is the one that holds _mutex.
Exclusive == \A t \in Thread : pc[t] = "resize" <=> mutex = t

\* A thread outside the loops has no locals.
Locals ==
    \A t \in Thread :
      /\ pc[t] = "idle" => next[t] = 0
      /\ pc[t] # "stat" => sum[t] = 0

\* The loop of _set_capacity has reached the shards before next.
Resized ==
    \A t \in Thread : mutex = t =>
      \A s \in Shard :
        shard_capacity[s] =
          per_shard(IF s < next[t] THEN call[t].new ELSE _capacity)

\* A shard above its capacity has nothing to evict.
ShardFits == \A s \in Shard : idle[s] = 0 \/ Usage(s) <= shard_capacity[s]

\* The new capacity was computed from the one it replaces.
Adjusting ==
    \A t \in Thread : mutex = t /\ call[t].relative =>
      /\ call[t].new = Unsigned(_capacity + call[t].delta)
      /\ Accepted(_capacity, call[t].delta, call[t].min)

\* A running _get_stat has seen the capacity in force and the one being set, and
\* its sum is made of shares of capacities it has seen.
Reporting ==
    \A t \in Thread : pc[t] = "stat" =>
      /\ _capacity \in seen[t]
      /\ \A u \in Thread : mutex = u => call[u].new \in seen[t]
      /\ next[t] = 0 => sum[t] = 0
      /\ next[t] = 1 => \E a \in seen[t] : sum[t] = per_shard(a)
      /\ next[t] = 2 => \E a, b \in seen[t] : sum[t] = per_shard(a) + per_shard(b)

IInv ==
    TypeOK /\ Exclusive /\ Locals /\ ShardsFollow /\ Resized /\ ShardFits
      /\ Adjusting /\ Reporting

USE DEF kNumShards, Shard

\* The constructor establishes the invariant.
LEMMA InitIInv == Init => IInv
<1> SUFFICES ASSUME Init PROVE IInv
  OBVIOUS
<1>1. PICK c \in Capacities : _capacity = c /\ shard_capacity = [s \in Shard |-> per_shard(c)]
  BY DEF Init
<1>2. c \in SizeT /\ per_shard(c) \in SizeT
  BY PerShard, ShardedAssumption
<1>3. NoCall \in Call
  BY ShardedAssumption DEF NoCall, Call, SizeT, Int64
<1>4. TypeOK
  BY <1>1, <1>2, <1>3, ShardedAssumption DEF Init, TypeOK, SizeT
<1> QED
  BY <1>1, <1>4, ShardedAssumption
  DEF Init, IInv, Exclusive, Locals, ShardsFollow, Resized, ShardFits, Adjusting, Reporting

\* Beginning to change the capacity, with the mutex free, keeps the invariant.
LEMMA BeginResizeIInv ==
    ASSUME IInv, NEW t \in Thread, pc[t] = "idle", mutex = Nil,
           NEW c \in Call, BeginResize(t, c),
           c.relative => /\ c.new = Unsigned(_capacity + c.delta)
                         /\ Accepted(_capacity, c.delta, c.min)
    PROVE  IInv'
<1>1. TypeOK'
  <2>1. c.new \in SizeT
    BY DEF Call
  <2>2. seen' \in [Thread -> SUBSET SizeT]
    BY <2>1 DEF IInv, TypeOK, BeginResize
  <2> QED
    BY <2>2 DEF IInv, TypeOK, BeginResize, shardVars
<1>2. Exclusive' /\ Locals'
  BY ShardedAssumption DEF IInv, TypeOK, BeginResize, shardVars, Exclusive, Locals
<1>3. ShardsFollow' /\ Resized'
  BY ShardedAssumption
  DEF IInv, TypeOK, BeginResize, shardVars, ShardsFollow, Resized, Locals
<1>4. ShardFits'
  BY DEF IInv, BeginResize, shardVars, ShardFits, Usage
<1>5. Adjusting'
  <2>1. ASSUME NEW u \in Thread, mutex' = u PROVE u = t /\ call'[u] = c
    BY <2>1, ShardedAssumption DEF BeginResize, IInv, TypeOK
  <2> QED
    BY <2>1 DEF Adjusting, BeginResize
<1>6. Reporting'
  <2> SUFFICES ASSUME NEW u \in Thread, pc'[u] = "stat"
               PROVE  /\ _capacity' \in seen'[u]
                      /\ \A v \in Thread : mutex' = v => call'[v].new \in seen'[u]
                      /\ next'[u] = 0 => sum'[u] = 0
                      /\ next'[u] = 1 => \E a \in seen'[u] : sum'[u] = per_shard(a)
                      /\ next'[u] = 2 => \E a, b \in seen'[u] :
                                           sum'[u] = per_shard(a) + per_shard(b)
    BY DEF Reporting
  <2>1. pc[u] = "stat" /\ seen'[u] = seen[u] \cup {c.new}
    BY DEF BeginResize, IInv, TypeOK
  <2>2. \A v \in Thread : mutex' = v => call'[v].new \in seen'[u]
    BY <2>1 DEF BeginResize, IInv, TypeOK
  <2>3. _capacity' = _capacity /\ next'[u] = next[u] /\ sum'[u] = sum[u]
    BY DEF BeginResize
  <2> QED
    BY <2>1, <2>2, <2>3 DEF IInv, Reporting
<1> QED
  BY <1>1, <1>2, <1>3, <1>4, <1>5, <1>6 DEF IInv

\* A step that changes the entries of one shard keeps the invariant when the
\* shard still fits or has nothing left to evict.
LEMMA ChangeIInv ==
    ASSUME IInv, NEW s \in Shard, NEW i \in Nat, NEW p \in Nat, Change(s, i, p),
           i = 0 \/ i + p <= shard_capacity[s]
    PROVE  IInv'
<1>1. TypeOK'
  BY DEF IInv, TypeOK, Change
<1>2. ShardFits'
  BY DEF IInv, TypeOK, Change, ShardFits, Usage
<1>3. Exclusive' /\ Locals' /\ ShardsFollow' /\ Resized' /\ Adjusting'
  BY DEF IInv, Change, Exclusive, Locals, ShardsFollow, Resized, Adjusting
<1>4. Reporting'
  BY DEF IInv, Change, Reporting
<1> QED
  BY <1>1, <1>2, <1>3, <1>4 DEF IInv

\* LRUCache::set_capacity of one shard keeps the invariant.
LEMMA ResizeShardIInv ==
    ASSUME IInv, NEW t \in Thread, ResizeShard(t)
    PROVE  IInv'
<1> DEFINE s == next[t]
           c == per_shard(call[t].new)
<1>1. mutex = t /\ s \in Shard /\ c \in SizeT /\ c \in Nat
  BY PerShard DEF ResizeShard, IInv, TypeOK, Exclusive, Call, SizeT
<1> HIDE DEF s, c
<1>2. /\ Kept(s, 0, c) \in Nat
      /\ Kept(s, 0, c) = 0 \/ Kept(s, 0, c) + pinned[s] <= c
  <2>1. pinned[s] \in Nat /\ idle[s] \in Nat
    BY <1>1 DEF IInv, TypeOK
  <2> QED
    BY <1>1, <2>1 DEF Kept, Usage
<1> USE DEF s
<1>3. TypeOK'
  BY <1>1, <1>2 DEF c, IInv, TypeOK, ResizeShard
<1>4. Exclusive' /\ Locals' /\ Adjusting'
  BY DEF IInv, TypeOK, ResizeShard, Exclusive, Locals, Adjusting
<1>5. ShardsFollow' /\ Resized'
  BY <1>1, ShardedAssumption DEF c, IInv, TypeOK, ResizeShard, ShardsFollow, Resized
<1>6. ShardFits'
  BY <1>1, <1>2 DEF c, IInv, TypeOK, ResizeShard, ShardFits, Usage
<1>7. Reporting'
  <2>1. \A u \in Thread : pc[u] = "stat" => u # t
    BY DEF ResizeShard
  <2> QED
    BY <2>1 DEF IInv, TypeOK, ResizeShard, Reporting
<1> QED
  BY <1>3, <1>4, <1>5, <1>6, <1>7 DEF IInv

\* The end of _set_capacity keeps the invariant.
LEMMA FinishResizeIInv ==
    ASSUME IInv, NEW t \in Thread, FinishResize(t)
    PROVE  IInv'
<1>1. mutex = t /\ mutex' = Nil /\ Nil \notin Thread
  BY ShardedAssumption DEF FinishResize, IInv, Exclusive
<1>2. NoCall \in Call /\ call[t].new \in SizeT
  BY ShardedAssumption DEF NoCall, Call, SizeT, Int64, IInv, TypeOK
<1>3. TypeOK'
  BY <1>1, <1>2 DEF IInv, TypeOK, FinishResize, shardVars
<1>4. Exclusive' /\ Resized' /\ Adjusting'
  BY <1>1 DEF IInv, TypeOK, FinishResize, Exclusive, Resized, Adjusting
<1>5. Locals'
  BY DEF IInv, TypeOK, FinishResize, Locals
<1>6. ShardsFollow'
  BY <1>1 DEF IInv, TypeOK, FinishResize, shardVars, ShardsFollow, Resized
<1>7. ShardFits'
  BY DEF IInv, FinishResize, shardVars, ShardFits, Usage
<1>8. Reporting'
  <2>1. \A u \in Thread : pc'[u] = "stat" =>
          /\ pc[u] = "stat" /\ next'[u] = next[u] /\ _capacity' \in seen[u]
    BY <1>1 DEF IInv, TypeOK, FinishResize, Reporting
  <2> QED
    BY <1>1, <2>1 DEF IInv, FinishResize, Reporting
<1> QED
  BY <1>3, <1>4, <1>5, <1>6, <1>7, <1>8 DEF IInv

\* Reading the capacity of one shard keeps the invariant: the share read is that
\* of a capacity the call has seen, and two shares do not overflow.
LEMMA StatShardIInv ==
    ASSUME IInv, NEW t \in Thread, StatShard(t)
    PROVE  IInv'
<1> DEFINE s == next[t]
<1>1. s \in Shard /\ next'[t] = s + 1 /\ pc[t] = "stat"
  BY DEF StatShard, IInv, TypeOK
<1>2. PICK b \in seen[t] : shard_capacity[s] = per_shard(b)
  <2>1. CASE mutex = Nil
    BY <1>1, <2>1 DEF IInv, ShardsFollow, Reporting
  <2>2. CASE mutex # Nil
    <3>1. PICK u \in Thread : mutex = u
      BY <2>2 DEF IInv, TypeOK
    <3> QED
      BY <1>1, <3>1 DEF IInv, Resized, Reporting
  <2> QED
    BY <2>1, <2>2
<1>3. \A a \in seen[t] : per_shard(a) \in SizeT /\ per_shard(a) < Half
  BY PerShard DEF IInv, TypeOK
<1>4. /\ s = 0 => sum'[t] = per_shard(b)
      /\ s = 1 => \E a \in seen[t] : sum'[t] = per_shard(a) + per_shard(b)
  <2>1. sum'[t] = Unsigned(sum[t] + per_shard(b))
    BY <1>2 DEF StatShard, IInv, TypeOK
  <2>2. s = 0 => sum[t] = 0
    BY <1>1 DEF IInv, Reporting
  <2>3. s = 1 => \E a \in seen[t] : sum[t] = per_shard(a)
    BY <1>1 DEF IInv, Reporting
  <2> QED
    BY <1>3, <2>1, <2>2, <2>3, ShardedAssumption DEF Unsigned, SizeT
<1>5. sum'[t] \in SizeT
  BY <1>1, <1>3, <1>4, ShardedAssumption DEF SizeT
<1>6. TypeOK'
  BY <1>1, <1>5 DEF IInv, TypeOK, StatShard, shardVars
<1>7. Exclusive' /\ Locals' /\ Adjusting'
  BY DEF IInv, TypeOK, StatShard, shardVars, Exclusive, Locals, Adjusting
<1>8. ShardsFollow' /\ Resized' /\ ShardFits'
  <2>1. \A u \in Thread : mutex = u => u # t
    BY <1>1 DEF IInv, Exclusive
  <2> QED
    BY <2>1 DEF IInv, TypeOK, StatShard, shardVars, ShardsFollow, Resized, ShardFits, Usage
<1>9. Reporting'
  <2> SUFFICES ASSUME NEW u \in Thread, pc'[u] = "stat"
               PROVE  /\ _capacity' \in seen'[u]
                      /\ \A v \in Thread : mutex' = v => call'[v].new \in seen'[u]
                      /\ next'[u] = 0 => sum'[u] = 0
                      /\ next'[u] = 1 => \E a \in seen'[u] : sum'[u] = per_shard(a)
                      /\ next'[u] = 2 => \E a, d \in seen'[u] :
                                           sum'[u] = per_shard(a) + per_shard(d)
    BY DEF Reporting
  <2>1. CASE u = t
    BY <1>1, <1>2, <1>4, <2>1 DEF StatShard, IInv, Reporting
  <2>2. CASE u # t
    BY <2>2 DEF StatShard, IInv, TypeOK, Reporting
  <2> QED
    BY <2>1, <2>2
<1> QED
  BY <1>6, <1>7, <1>8, <1>9 DEF IInv

\* The remaining steps of a thread change only its own locals, the idle entries
\* or the last id.
LEMMA LocalStepsIInv ==
    ASSUME IInv, NEW t \in Thread,
           NewId(t) \/ BeginStat(t) \/ BeginPrune(t) \/ PruneShard(t) \/ Return(t)
    PROVE  IInv'
<1>1. CASE NewId(t)
  BY <1>1
  DEF NewId, shardVars, IInv, TypeOK, Exclusive, Locals, ShardsFollow, Resized, ShardFits,
      Usage, Adjusting, Reporting
<1>2. CASE BeginStat(t)
  <2>1. mutex # t
    BY <1>2 DEF BeginStat, IInv, Exclusive
  <2>2. /\ seen'[t] \in SUBSET SizeT
        /\ _capacity \in seen'[t]
        /\ \A u \in Thread : mutex = u => call[u].new \in seen'[t]
    BY <1>2, ShardedAssumption DEF BeginStat, IInv, TypeOK, Call
  <2>3. TypeOK'
    BY <1>2, <2>2 DEF BeginStat, IInv, TypeOK, shardVars
  <2>4. Exclusive' /\ Locals' /\ Adjusting'
    BY <1>2, <2>1 DEF BeginStat, IInv, TypeOK, Exclusive, Locals, Adjusting
  <2>5. ShardsFollow' /\ Resized' /\ ShardFits'
    BY <1>2 DEF BeginStat, IInv, shardVars, ShardsFollow, Resized, ShardFits, Usage
  <2>6. Reporting'
    <3>1. next[t] = 0 /\ sum[t] = 0
      BY <1>2 DEF BeginStat, IInv, Locals
    <3>2. \A u \in Thread \ {t} : pc'[u] = pc[u] /\ seen'[u] = seen[u]
      BY <1>2 DEF BeginStat, IInv, TypeOK
    <3> QED
      BY <1>2, <2>2, <3>1, <3>2 DEF BeginStat, IInv, Reporting
  <2> QED
    BY <2>3, <2>4, <2>5, <2>6 DEF IInv
<1>3. CASE BeginPrune(t)
  <2>1. mutex # t
    BY <1>3 DEF BeginPrune, IInv, Exclusive
  <2> QED
    BY <1>3, <2>1
    DEF BeginPrune, shardVars, IInv, TypeOK, Exclusive, Locals, ShardsFollow, Resized,
        ShardFits, Usage, Adjusting, Reporting
<1>4. CASE PruneShard(t)
  <2>1. mutex # t /\ next[t] \in Shard
    BY <1>4 DEF PruneShard, IInv, TypeOK, Exclusive
  <2>2. TypeOK' /\ ShardFits'
    BY <1>4, <2>1 DEF PruneShard, IInv, TypeOK, ShardFits, Usage
  <2>3. Exclusive' /\ Locals' /\ ShardsFollow' /\ Resized' /\ Adjusting'
    BY <1>4, <2>1
    DEF PruneShard, IInv, TypeOK, Exclusive, Locals, ShardsFollow, Resized, Adjusting
  <2>4. Reporting'
    BY <1>4 DEF PruneShard, IInv, TypeOK, Reporting
  <2> QED
    BY <2>2, <2>3, <2>4 DEF IInv
<1>5. CASE Return(t)
  <2>1. mutex # t
    BY <1>5 DEF Return, IInv, Exclusive
  <2>2. TypeOK'
    BY <1>5, ShardedAssumption DEF Return, shardVars, IInv, TypeOK, SizeT
  <2>3. Exclusive' /\ Locals' /\ ShardsFollow' /\ Resized' /\ ShardFits' /\ Adjusting'
    BY <1>5, <2>1
    DEF Return, shardVars, IInv, TypeOK, Exclusive, Locals, ShardsFollow, Resized, ShardFits,
        Usage, Adjusting
  <2>4. Reporting'
    BY <1>5 DEF Return, IInv, TypeOK, Reporting
  <2> QED
    BY <2>2, <2>3, <2>4 DEF IInv
<1> QED
  BY <1>1, <1>2, <1>3, <1>4, <1>5

\* What clients do with one shard keeps the invariant.
LEMMA ShardStepsIInv ==
    ASSUME IInv, NEW s \in Shard, Insert(s) \/ Lookup(s) \/ Release(s) \/ Erase(s)
    PROVE  IInv'
<1>1. /\ idle[s] \in Nat /\ pinned[s] \in Nat /\ shard_capacity[s] \in Nat
      /\ idle[s] = 0 \/ idle[s] + pinned[s] <= shard_capacity[s]
  BY DEF IInv, TypeOK, SizeT, ShardFits, Usage
<1>2. CASE Insert(s)
  <2> DEFINE kept == Kept(s, 1, shard_capacity[s])
  <2>1. kept \in Nat /\ (kept = 0 \/ kept + pinned[s] + 1 <= shard_capacity[s])
    BY <1>1, KeptFits DEF IInv, TypeOK
  <2> HIDE DEF kept
  <2>2. PICK i \in {kept, kept - 1} \cap Nat : Change(s, i, pinned[s] + 1)
    BY <1>2 DEF Insert, kept
  <2> QED
    BY <1>1, <2>1, <2>2, ChangeIInv
<1>3. CASE Lookup(s)
  BY <1>1, <1>3, ChangeIInv DEF Lookup
<1>4. CASE Release(s)
  <2>1. CASE Usage(s) <= shard_capacity[s] /\ Change(s, idle[s] + 1, pinned[s] - 1)
    BY <1>1, <1>4, <2>1, ChangeIInv DEF Release, Usage
  <2>2. CASE Change(s, idle[s], pinned[s] - 1)
    BY <1>1, <1>4, <2>2, ChangeIInv DEF Release
  <2> QED
    BY <1>4, <2>1, <2>2 DEF Release
<1>5. CASE Erase(s)
  BY <1>1, <1>5, ChangeIInv DEF Erase
<1> QED
  BY <1>2, <1>3, <1>4, <1>5

\* Every step keeps the invariant.
LEMMA NextIInv == IInv /\ [Next]_vars => IInv'
<1> SUFFICES ASSUME IInv, [Next]_vars PROVE IInv'
  OBVIOUS
<1>1. ASSUME NEW t \in Thread, NEW c \in Capacities, SetCapacity(t, c)
      PROVE  IInv'
  <2> DEFINE call0 == [relative |-> FALSE, delta |-> 0, min |-> 0, new |-> c]
  <2>1. c \in SizeT /\ 0 \in SizeT /\ 0 \in Int64
    BY ShardedAssumption DEF SizeT, Int64
  <2>2. call0 \in Call /\ ~call0.relative
    BY <2>1 DEF Call
  <2>3. BeginResize(t, call0) /\ pc[t] = "idle" /\ mutex = Nil
    BY <1>1 DEF SetCapacity
  <2> HIDE DEF call0
  <2> QED
    BY <2>2, <2>3, BeginResizeIInv
<1>2. ASSUME NEW t \in Thread, NEW delta \in Deltas, NEW min \in Mins,
             AdjustCapacity(t, delta, min)
      PROVE  IInv'
  <2> DEFINE c == [relative |-> TRUE, delta |-> delta, min |-> min,
                   new |-> Unsigned(_capacity + delta)]
  <2>1. _capacity + delta \in (-Half)..(3 * Half) /\ delta \in Int64 /\ min \in SizeT
    BY ShardedAssumption DEF IInv, TypeOK, SizeT, Int64
  <2>2. Unsigned(_capacity + delta) \in SizeT
    BY <2>1, UnsignedType
  <2>3. c \in Call
    BY <2>1, <2>2 DEF Call
  <2>4. c.relative /\ c.new = Unsigned(_capacity + c.delta) /\ c.delta = delta /\ c.min = min
    OBVIOUS
  <2>5. BeginResize(t, c) /\ pc[t] = "idle" /\ mutex = Nil /\ Accepted(_capacity, delta, min)
    BY <1>2 DEF AdjustCapacity
  <2> HIDE DEF c
  <2> QED
    BY <2>3, <2>4, <2>5, BeginResizeIInv
<1>3. ASSUME NEW t \in Thread, Step(t) PROVE IInv'
  BY <1>3, ResizeShardIInv, FinishResizeIInv, StatShardIInv, LocalStepsIInv DEF Step
<1>4. CASE UNCHANGED vars
  BY <1>4
  DEF vars, IInv, TypeOK, Exclusive, Locals, ShardsFollow, Resized, ShardFits, Usage,
      Adjusting, Reporting
<1> QED
  BY <1>1, <1>2, <1>3, <1>4, LocalStepsIInv, ShardStepsIInv DEF Next

LEMMA SpecIInv == Spec => []IInv
BY InitIInv, NextIInv, PTL DEF Spec

-----------------------------------------------------------------------------
(***************************************************************************)
(* The theorems.                                                           *)
(***************************************************************************)

\* Every variable of the sharded cache has its type; in particular sums and
\* capacities stay values of size_t.
THEOREM ShardedTypeCorrect == Spec => []TypeOK
<1>1. IInv => TypeOK
  BY DEF IInv
<1> QED
  BY <1>1, SpecIInv, PTL

\* set_capacity and adjust_capacity, called from any number of threads, leave the
\* shards with the shares of one and the same capacity.
THEOREM ShardsFollowCapacity == Spec => []ShardsFollow
<1>1. IInv => ShardsFollow
  BY DEF IInv
<1> QED
  BY <1>1, SpecIInv, PTL

\* The cache keeps no more reusable memory than the capacity set for it allows,
\* up to the rounding of the division.
THEOREM IdleMemoryWithinCapacity == Spec => []IdleWithinCapacity
<1>1. IInv => IdleWithinCapacity
  <2> SUFFICES ASSUME IInv, mutex = Nil
               PROVE  IdleWithinCapacity
    BY DEF IdleWithinCapacity
  <2>1. _capacity \in SizeT /\ per_shard(_capacity) \in Nat
    BY PerShard DEF IInv, TypeOK, SizeT
  <2>2. 2 * per_shard(_capacity) <= _capacity + 1
    BY <2>1, PerShard
  <2>3. \A s \in Shard : /\ idle[s] \in Nat /\ pinned[s] \in Nat
                         /\ idle[s] = 0 \/ Usage(s) <= per_shard(_capacity)
    BY DEF IInv, TypeOK, ShardFits, ShardsFollow
  <2> QED
    BY <2>1, <2>2, <2>3 DEF IdleWithinCapacity, SizeT, Usage
<1> QED
  BY <1>1, SpecIInv, PTL

\* get_capacity returns a value between two capacities that were set, or being
\* set, while it ran.
THEOREM ReportedCapacity == Spec => []ReportedCapacityWasSet
<1>1. IInv => ReportedCapacityWasSet
  <2> SUFFICES ASSUME IInv, NEW t \in Thread, pc[t] = "stat", next[t] = 2
               PROVE  /\ \E c \in seen[t] : 2 * per_shard(c) <= sum[t]
                      /\ \E c \in seen[t] : sum[t] <= 2 * per_shard(c)
    BY DEF ReportedCapacityWasSet
  <2>1. PICK a \in seen[t], b \in seen[t] : sum[t] = per_shard(a) + per_shard(b)
    BY DEF IInv, Reporting
  <2>2. per_shard(a) \in Nat /\ per_shard(b) \in Nat
    BY PerShard DEF IInv, TypeOK, SizeT
  <2>3. CASE per_shard(a) <= per_shard(b)
    BY <2>1, <2>2, <2>3
  <2>4. CASE per_shard(b) <= per_shard(a)
    BY <2>1, <2>2, <2>4
  <2> QED
    BY <2>2, <2>3, <2>4
<1> QED
  BY <1>1, SpecIInv, PTL

\* No adjustment is lost or wraps: adjust_capacity adds exactly delta to the
\* capacity it replaces, and respects the minimum.
THEOREM AdjustmentsAreExact == Spec => AdjustIsExact
<1>1. ASSUME IInv, NEW t \in Thread, FinishResize(t), call[t].relative,
             _capacity < Half, call[t].min < Half
      PROVE  _capacity' = _capacity + call[t].delta /\ _capacity' >= call[t].min
  <2>1. mutex = t /\ call[t] \in Call /\ _capacity \in SizeT
    BY <1>1 DEF IInv, TypeOK, Exclusive, FinishResize
  <2>2. /\ _capacity' = Unsigned(_capacity + call[t].delta)
        /\ Accepted(_capacity, call[t].delta, call[t].min)
    BY <1>1, <2>1 DEF FinishResize, IInv, Adjusting
  <2>3. call[t].delta \in Int64 /\ call[t].min \in SizeT
    BY <2>1 DEF Call
  <2> QED
    BY <1>1, <2>1, <2>2, <2>3, AcceptedIsExact
<1>2. IInv /\ [Next]_vars =>
        [\A t \in Thread :
           FinishResize(t) /\ call[t].relative /\ _capacity < Half /\ call[t].min < Half
             => /\ _capacity' = _capacity + call[t].delta
                /\ _capacity' >= call[t].min]_vars
  BY <1>1
<1> QED
  BY <1>2, SpecIInv, PTL DEF Spec, AdjustIsExact
=============================================================================
