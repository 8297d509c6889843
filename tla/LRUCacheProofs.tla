--------------------------- MODULE LRUCacheProofs ---------------------------
(***************************************************************************)
(* Proofs about one shard of the cache, for any number of threads, keys,   *)
(* entries, charges and capacities.                                        *)
(***************************************************************************)
EXTENDS LRUCache, FiniteSetTheorems, SequenceTheorems, TLAPS

-----------------------------------------------------------------------------
(***************************************************************************)
(* The list operations.                                                    *)
(***************************************************************************)

\* Unlinking an element (_lru_remove) removes it, keeps the others in order and
\* leaves them distinct.
LEMMA WithoutSeq ==
    ASSUME NEW S, NEW s \in Seq(S), Distinct(s), NEW p \in 1..Len(s)
    PROVE  /\ Without(s, s[p]) \in Seq(S)
           /\ Len(Without(s, s[p])) = Len(s) - 1
           /\ \A i \in 1..(Len(s) - 1) :
                Without(s, s[p])[i] = IF i < p THEN s[i] ELSE s[i + 1]
           /\ Distinct(Without(s, s[p]))
           /\ Elements(Without(s, s[p])) = Elements(s) \ {s[p]}
<1> DEFINE n == Len(s) - 1
           w == [i \in 1..n |-> IF i < p THEN s[i] ELSE s[i + 1]]
<1>1. Len(s) \in Nat /\ n \in Nat /\ s \in [1..Len(s) -> S]
  OBVIOUS
<1>2. Without(s, s[p]) = w
  <2> DEFINE q == CHOOSE i \in 1..Len(s) : s[i] = s[p]
  <2>1. q \in 1..Len(s) /\ s[q] = s[p]
    OBVIOUS
  <2>2. q = p
    BY <2>1 DEF Distinct
  <2> QED
    BY <2>2 DEF Without
<1>3. w \in [1..n -> S]
  BY <1>1
<1>4. w \in Seq(S) /\ Len(w) = n
  BY <1>1, <1>3
<1>5. Distinct(w)
  BY <1>1, <1>4 DEF Distinct
<1>6. Elements(w) = Elements(s) \ {s[p]}
  <2>1. ASSUME NEW i \in 1..n PROVE w[i] \in Elements(s) \ {s[p]}
    BY <1>1 DEF Elements, Distinct
  <2>2. ASSUME NEW x \in Elements(s), x # s[p] PROVE x \in Elements(w)
    <3>1. PICK i \in 1..Len(s) : x = s[i]
      BY DEF Elements
    <3>2. CASE i < p
      <4>1. i \in 1..n /\ w[i] = x
        BY <3>1, <3>2, <1>1
      <4> QED BY <4>1, <1>4 DEF Elements
    <3>3. CASE i > p
      <4>1. i - 1 \in 1..n /\ w[i - 1] = x
        BY <3>1, <3>3, <1>1
      <4> QED BY <4>1, <1>4 DEF Elements
    <3> QED BY <3>1, <3>2, <3>3, <2>2
  <2> QED BY <2>1, <2>2, <1>4 DEF Elements
<1> QED BY <1>2, <1>3, <1>4, <1>5, <1>6

\* Appending a new element (_lru_append, push_back).
LEMMA AppendSeq ==
    ASSUME NEW S, NEW s \in Seq(S), NEW e \in S
    PROVE  /\ Append(s, e) \in Seq(S)
           /\ Append(s, e) # <<>>
           /\ Len(Append(s, e)) = Len(s) + 1
           /\ \A i \in 1..Len(s) : Append(s, e)[i] = s[i]
           /\ Append(s, e)[Len(s) + 1] = e
           /\ Elements(Append(s, e)) = Elements(s) \cup {e}
           /\ Distinct(s) /\ e \notin Elements(s) => Distinct(Append(s, e))
<1>1. /\ Append(s, e) \in Seq(S)
      /\ Append(s, e) # <<>>
      /\ Len(Append(s, e)) = Len(s) + 1
      /\ \A i \in 1..Len(s) : Append(s, e)[i] = s[i]
      /\ Append(s, e)[Len(s) + 1] = e
      /\ Len(s) \in Nat
  OBVIOUS
<1>2. Elements(Append(s, e)) = Elements(s) \cup {e}
  <2>1. Elements(Append(s, e)) \subseteq Elements(s) \cup {e}
    BY <1>1 DEF Elements
  <2>2. Elements(s) \subseteq Elements(Append(s, e))
    BY <1>1 DEF Elements
  <2>3. e \in Elements(Append(s, e))
    <3>1. Len(s) + 1 \in 1..Len(Append(s, e))
      BY <1>1
    <3> QED BY <3>1, <1>1 DEF Elements
  <2> QED BY <2>1, <2>2, <2>3
<1>3. Distinct(s) /\ e \notin Elements(s) => Distinct(Append(s, e))
  BY <1>1 DEF Distinct, Elements
<1> QED BY <1>1, <1>2, <1>3

-----------------------------------------------------------------------------
(***************************************************************************)
(* The bytes charged to a set of entries.                                  *)
(***************************************************************************)

\* Charging one more entry adds its charge.
LEMMA BytesAdd ==
    ASSUME NEW c, NEW E, NEW x, x \notin E, c[x] \in Nat,
           IsFiniteSet(Bytes(c, E))
    PROVE  /\ IsFiniteSet(Bytes(c, E \cup {x}))
           /\ Cardinality(Bytes(c, E)) \in Nat
           /\ Cardinality(Bytes(c, E \cup {x})) = Cardinality(Bytes(c, E)) + c[x]
<1> DEFINE B == {x} \X (1..c[x])
<1>1. Bytes(c, E \cup {x}) = Bytes(c, E) \cup B
  BY DEF Bytes
<1>2. Bytes(c, E) \cap B = {}
  BY DEF Bytes
<1>3. IsFiniteSet(B) /\ Cardinality(B) = c[x]
  <2>1. IsFiniteSet(1..c[x]) /\ Cardinality(1..c[x]) = c[x]
    BY FS_Interval
  <2>2. IsFiniteSet({x}) /\ Cardinality({x}) = 1
    BY FS_Singleton
  <2>3. IsFiniteSet(B) /\ Cardinality(B) = Cardinality({x}) * Cardinality(1..c[x])
    BY <2>1, <2>2, FS_Product, Zenon
  <2> QED BY <2>1, <2>2, <2>3
<1>4. Cardinality(Bytes(c, E) \cap B) = 0
  BY <1>2, FS_EmptySet
<1>5. Cardinality(Bytes(c, E)) \in Nat
  BY FS_CardinalityType
<1> HIDE DEF B
<1>6. /\ IsFiniteSet(Bytes(c, E) \cup B)
      /\ Cardinality(Bytes(c, E) \cup B) =
           Cardinality(Bytes(c, E)) + Cardinality(B) - Cardinality(Bytes(c, E) \cap B)
  BY <1>3, FS_Union, Zenon
<1>7. /\ IsFiniteSet(Bytes(c, E \cup {x}))
      /\ Cardinality(Bytes(c, E \cup {x})) =
           Cardinality(Bytes(c, E)) + Cardinality(B) - Cardinality(Bytes(c, E) \cap B)
  BY <1>1, <1>6, Zenon
<1> QED BY <1>3, <1>4, <1>5, <1>7

\* Refunding one takes its charge away, which never exceeds the total.
LEMMA BytesRemove ==
    ASSUME NEW c, NEW E, NEW x \in E, c[x] \in Nat,
           IsFiniteSet(Bytes(c, E))
    PROVE  /\ IsFiniteSet(Bytes(c, E \ {x}))
           /\ Cardinality(Bytes(c, E)) - c[x] \in Nat
           /\ Cardinality(Bytes(c, E \ {x})) = Cardinality(Bytes(c, E)) - c[x]
<1>1. Bytes(c, E \ {x}) \subseteq Bytes(c, E)
  BY DEF Bytes
<1>2. IsFiniteSet(Bytes(c, E \ {x}))
  BY <1>1, FS_Subset
<1>3. (E \ {x}) \cup {x} = E
  OBVIOUS
<1>4. /\ Cardinality(Bytes(c, E \ {x})) \in Nat
      /\ Cardinality(Bytes(c, E)) = Cardinality(Bytes(c, E \ {x})) + c[x]
  BY <1>2, <1>3, BytesAdd
<1> QED BY <1>2, <1>4

\* Only the charges of the entries themselves matter.
LEMMA BytesSame ==
    ASSUME NEW c, NEW d, NEW E, \A e \in E : c[e] = d[e]
    PROVE  Bytes(c, E) = Bytes(d, E)
BY DEF Bytes

-----------------------------------------------------------------------------
(***************************************************************************)
(* The invariant is preserved, action by action.                           *)
(***************************************************************************)

\* The facts about an entry on the LRU list.
LEMMA LruEntry ==
    ASSUME IInv, NEW p \in 1..Len(lru)
    PROVE  /\ lru[p] \in Entry /\ lru[p] # Nil /\ lru[p] # arg
           /\ key[lru[p]] \in Key /\ key[lru[p]] # Nil
           /\ lru[p] \in in_cache /\ refs[lru[p]] = 1 /\ handles[lru[p]] = 0
           /\ table[key[lru[p]]] = lru[p]
           /\ charge[lru[p]] \in Nat
           /\ lru[p] \in Resident
<1>1. lru[p] \in Elements(lru) /\ lru[p] \in Entry
  BY DEF IInv, TypeOK, Elements
<1>2. lru[p] \in Published /\ lru[p] \in in_cache /\ refs[lru[p]] = 1
  BY <1>1 DEF IInv, LruIsIdle
<1>3. key[lru[p]] # Nil /\ lru[p] # arg /\ lru[p] # Nil
  BY <1>1, <1>2, LRUCacheAssumption DEF Published, Allocated
<1>4. key[lru[p]] \in Key /\ charge[lru[p]] \in Nat
  BY <1>1, <1>3 DEF IInv, TypeOK
<1>5. handles[lru[p]] = 0
  BY <1>1, <1>2, <1>3 DEF IInv, EntryInv, TypeOK
<1>6. table[key[lru[p]]] = lru[p]
  BY <1>2 DEF IInv, TableInv
<1>7. lru[p] \in Resident
  BY <1>2 DEF Resident
<1> QED BY <1>1, <1>2, <1>3, <1>4, <1>5, <1>6, <1>7

\* Refunding a resident entry, whose count drops to zero, keeps the account.
LEMMA RefundPreserves ==
    ASSUME IInv, NEW e \in Resident, UNCHANGED <<key, charge, arg>>,
           refs'[e] = 0, \A x \in Entry : x # e => refs'[x] = refs[x],
           usage' = usage - charge[e]
    PROVE  UsageInv' /\ usage' \in Nat /\ usage' <= usage
<1>1. Resident' = Resident \ {e}
  BY DEF Resident, Published, Allocated
<1>2. e \in Entry /\ charge[e] \in Nat
  BY DEF IInv, TypeOK, Resident, Published, Allocated
<1>3. /\ IsFiniteSet(Bytes(charge, Resident))
      /\ usage = Cardinality(Bytes(charge, Resident)) /\ usage \in Nat
  BY DEF IInv, TypeOK, UsageInv, UsageIsFootprint, Footprint
<1>4. /\ IsFiniteSet(Bytes(charge, Resident \ {e}))
      /\ usage - charge[e] \in Nat
      /\ Cardinality(Bytes(charge, Resident \ {e})) = usage - charge[e]
  BY <1>2, <1>3, BytesRemove
<1>5. Footprint' = Bytes(charge, Resident \ {e})
  BY <1>1 DEF Footprint
<1> QED BY <1>2, <1>3, <1>4, <1>5 DEF UsageInv, UsageIsFootprint

\* _evict_one_entry, wherever the list is cut, keeps everything but the scan.
LEMMA EvictOneEntryPreserves ==
    ASSUME IInv, NEW t \in Thread, pc[t] \in Critical, NEW p \in 1..Len(lru),
           EvictOneEntry(t, lru[p]),
           UNCHANGED <<key, charge, priority, capacity, lookup_count, hit_count,
                       mutex, pc, arg, cur, handles>>
    PROVE  /\ TypeOK' /\ MutexInv' /\ EntryInv' /\ TableInv' /\ LruIsIdle'
           /\ ListInv' /\ UsageInv' /\ CapacityInv'
<1> DEFINE e == lru[p]
<1>1. /\ e \in Entry /\ e # Nil /\ e # arg /\ key[e] \in Key /\ key[e] # Nil
      /\ e \in in_cache /\ refs[e] = 1 /\ handles[e] = 0 /\ table[key[e]] = e
      /\ charge[e] \in Nat /\ e \in Resident
  BY LruEntry
<1>2. /\ lru' \in Seq(Entry) /\ Distinct(lru')
      /\ Len(lru') = Len(lru) - 1
      /\ Elements(lru') = Elements(lru) \ {e}
  <2>1. lru \in Seq(Entry) /\ Distinct(lru) /\ lru' = Without(lru, e)
    BY DEF IInv, TypeOK, LruIsIdle, EvictOneEntry, Distinct
  <2> QED BY <2>1, WithoutSeq
<1>3. /\ refs' \in [Entry -> Nat]
      /\ refs'[e] = 0
      /\ \A x \in Entry : x # e => refs'[x] = refs[x]
  BY <1>1 DEF IInv, TypeOK, EvictOneEntry
<1>4. Published' = Published /\ Allocated' = Allocated
  BY DEF Published, Allocated
<1>5. /\ in_cache' = in_cache \ {e}
      /\ table' = [table EXCEPT ![key[e]] = Nil]
  BY DEF EvictOneEntry
<1>6. UsageInv' /\ usage' \in Nat /\ usage' <= usage
  BY <1>1, <1>3, RefundPreserves DEF EvictOneEntry
<1>7. /\ last_ref_list' = [last_ref_list EXCEPT ![t] = Append(@, e)]
      /\ e \notin Elements(last_ref_list[t])
      /\ \A u \in Thread : e \notin Elements(last_ref_list[u])
  BY <1>1 DEF EvictOneEntry, IInv, ListInv
<1>8. /\ last_ref_list' \in [Thread -> Seq(Entry)]
      /\ Distinct(last_ref_list'[t]) /\ last_ref_list'[t] # <<>>
      /\ Elements(last_ref_list'[t]) = Elements(last_ref_list[t]) \cup {e}
      /\ \A u \in Thread : u # t => last_ref_list'[u] = last_ref_list[u]
  <2>1. last_ref_list \in [Thread -> Seq(Entry)] /\ Distinct(last_ref_list[t])
    BY DEF IInv, TypeOK, ListInv
  <2>2. last_ref_list'[t] = Append(last_ref_list[t], e)
    BY <1>7, <2>1
  <2>3. last_ref_list[t] \in Seq(Entry)
    BY <2>1
  <2>4. /\ Append(last_ref_list[t], e) \in Seq(Entry)
        /\ Append(last_ref_list[t], e) # <<>>
        /\ Elements(Append(last_ref_list[t], e)) = Elements(last_ref_list[t]) \cup {e}
        /\ Distinct(Append(last_ref_list[t], e))
    BY <1>1, <1>7, <2>1, <2>3, AppendSeq
  <2> QED BY <1>7, <2>1, <2>2, <2>4
<1>9. TypeOK'
  BY <1>1, <1>2, <1>3, <1>5, <1>6, <1>8 DEF IInv, TypeOK
<1>10. MutexInv'
  BY DEF IInv, MutexInv
<1>11. EntryInv'
  BY <1>1, <1>3, <1>5, SMTT(30) DEF IInv, EntryInv, TypeOK
<1>12. TableInv'
  BY <1>1, <1>4, <1>5, SMTT(30) DEF IInv, TableInv, TypeOK, Published, Allocated
<1>13. LruIsIdle'
  BY <1>1, <1>2, <1>3, <1>4, <1>5
     DEF IInv, LruIsIdle, Distinct, Published, Allocated
<1>14. ListInv'
  <2>1. \A u \in Thread :
          /\ Distinct(last_ref_list'[u])
          /\ \A x \in Elements(last_ref_list'[u]) : x \in Published /\ refs'[x] = 0
    <3> SUFFICES ASSUME NEW u \in Thread
                 PROVE  /\ Distinct(last_ref_list'[u])
                        /\ \A x \in Elements(last_ref_list'[u]) :
                             x \in Published /\ refs'[x] = 0
      OBVIOUS
    <3>1. \A x \in Elements(last_ref_list[u]) : x \in Published /\ refs[x] = 0 /\ x \in Entry
      BY DEF IInv, ListInv, Published, Allocated
    <3>2. e \in Published
      BY <1>1 DEF Resident
    <3>3. CASE u = t
      BY <3>1, <3>2, <3>3, <1>3, <1>8
    <3>4. CASE u # t
      BY <3>1, <3>4, <1>3, <1>7, <1>8 DEF IInv, ListInv
    <3> QED BY <3>3, <3>4
  <2>2. \A u \in Thread : pc'[u] \in {"idle", "free"} => u # t
    BY DEF Critical
  <2>3. \A u \in Thread : /\ pc'[u] = "idle" => last_ref_list'[u] = <<>>
                          /\ pc'[u] = "free" => last_ref_list'[u] # <<>>
    BY <2>2, <1>8 DEF IInv, ListInv
  <2>4. \A u, v \in Thread : u # v =>
          Elements(last_ref_list'[u]) \cap Elements(last_ref_list'[v]) = {}
    BY <1>7, <1>8 DEF IInv, ListInv
  <2>5. \A x \in Published : refs'[x] = 0 =>
          \E u \in Thread : x \in Elements(last_ref_list'[u])
    <3> SUFFICES ASSUME NEW x \in Published, refs'[x] = 0
                 PROVE  \E u \in Thread : x \in Elements(last_ref_list'[u])
      OBVIOUS
    <3>1. CASE x = e
      BY <3>1, <1>8
    <3>2. CASE x # e
      <4>1. x \in Entry /\ refs[x] = 0
        BY <3>2, <1>3 DEF Published, Allocated
      <4>2. PICK u \in Thread : x \in Elements(last_ref_list[u])
        BY <4>1 DEF IInv, ListInv
      <4> QED BY <4>2, <1>8
    <3> QED BY <3>1, <3>2
  <2> QED BY <1>4, <2>1, <2>3, <2>4, <2>5 DEF ListInv
<1>15. CapacityInv'
  <2>1. lru # <<>> /\ Len(lru) \in Nat
    BY DEF IInv, TypeOK
  <2>2. mutex = t
    BY DEF IInv, MutexInv
  <2>3. t # Nil
    BY LRUCacheAssumption
  <2> QED BY <1>6, <2>1, <2>2, <2>3 DEF IInv, CapacityInv, TypeOK
<1> QED BY <1>6, <1>9, <1>10, <1>11, <1>12, <1>13, <1>14, <1>15

\* A thread that is about to take the mutex is in no loop, and neither is any
\* other: no insert is under way.
LEMMA MutexFree ==
    ASSUME IInv, NEW t \in Thread, CanLock(t)
    PROVE  /\ arg = Nil /\ Published = Allocated
           /\ \A u \in Thread : pc[u] \in {"idle", "free"}
           /\ last_ref_list[t] = <<>>
<1>1. arg = Nil
  BY DEF IInv, MutexInv, CanLock
<1>2. Published = Allocated
  BY <1>1, LRUCacheAssumption DEF Published, Allocated
<1>3. \A u \in Thread : pc[u] \in {"idle", "free"}
  BY LRUCacheAssumption DEF IInv, MutexInv, TypeOK, CanLock, Critical
<1>4. last_ref_list[t] = <<>>
  BY DEF IInv, ListInv, CanLock
<1> QED BY <1>1, <1>2, <1>3, <1>4

\* The facts about the entry cached under a key.
LEMMA TableEntry ==
    ASSUME IInv, NEW k \in Key, table[k] # Nil
    PROVE  /\ table[k] \in Entry /\ table[k] # arg /\ key[table[k]] = k
           /\ key[table[k]] # Nil
           /\ table[k] \in Published /\ table[k] \in in_cache
           /\ refs[table[k]] = handles[table[k]] + 1
           /\ table[k] \in Resident /\ charge[table[k]] \in Nat
           /\ \A u \in Thread : table[k] \notin Elements(last_ref_list[u])
           /\ refs[table[k]] = 1 <=> table[k] \in Elements(lru)
<1>1. table[k] \in Published /\ key[table[k]] = k /\ table[k] \in in_cache
  BY DEF IInv, TableInv
<1>2. table[k] \in Entry /\ table[k] # arg /\ key[table[k]] # Nil
  BY <1>1 DEF Published, Allocated
<1>3. refs[table[k]] = handles[table[k]] + 1 /\ handles[table[k]] \in Nat
  BY <1>1, <1>2 DEF IInv, EntryInv, TypeOK
<1>4. table[k] \in Resident /\ charge[table[k]] \in Nat
  BY <1>1, <1>2, <1>3 DEF Resident, IInv, TypeOK
<1>5. \A u \in Thread : table[k] \notin Elements(last_ref_list[u])
  BY <1>3 DEF IInv, ListInv
<1>6. refs[table[k]] = 1 <=> table[k] \in Elements(lru)
  BY <1>1 DEF IInv, LruIsIdle
<1> QED BY <1>1, <1>2, <1>3, <1>4, <1>5, <1>6

\* The list loses the element it is asked to, wherever that element is.
LEMMA LruRemove ==
    ASSUME IInv, NEW e \in Elements(lru)
    PROVE  /\ Without(lru, e) \in Seq(Entry)
           /\ Distinct(Without(lru, e))
           /\ Elements(Without(lru, e)) = Elements(lru) \ {e}
<1>1. lru \in Seq(Entry) /\ Distinct(lru)
  BY DEF IInv, TypeOK, LruIsIdle, Distinct
<1>2. PICK p \in 1..Len(lru) : e = lru[p]
  BY DEF Elements
<1> QED BY <1>1, <1>2, WithoutSeq

\* A step that changes at most the two counters.
LEMMA OnlyCounts ==
    ASSUME IInv, lookup_count' \in Nat, hit_count' \in Nat,
           UNCHANGED <<key, charge, priority, refs, in_cache, table, lru, usage,
                       capacity, mutex, pc, arg, cur, last_ref_list, handles>>
    PROVE  IInv'
<1>1. Published' = Published /\ Resident' = Resident
  BY DEF Published, Allocated, Resident
<1>2. TypeOK'
  BY DEF IInv, TypeOK
<1>3. MutexInv' /\ EntryInv'
  BY DEF IInv, MutexInv, EntryInv
<1>4. TableInv' /\ LruIsIdle'
  BY <1>1 DEF IInv, TableInv, LruIsIdle
<1>5. ListInv'
  BY <1>1 DEF IInv, ListInv
<1>6. UsageInv'
  BY <1>1 DEF IInv, UsageInv, UsageIsFootprint, Footprint
<1>7. CapacityInv' /\ ScanInv'
  BY DEF IInv, CapacityInv, ScanInv, NeedsSpace
<1> QED BY <1>2, <1>3, <1>4, <1>5, <1>6, <1>7 DEF IInv

\* lookup keeps the invariant.
LEMMA LookupPreserves ==
    ASSUME IInv, NEW t \in Thread, NEW k \in Key, Lookup(t, k)
    PROVE  IInv'
<1>1. CanLock(t)
  BY DEF Lookup
<1>2. /\ arg = Nil /\ \A u \in Thread : pc[u] \in {"idle", "free"}
      /\ mutex = Nil
  BY <1>1, MutexFree DEF CanLock
<1>3. UNCHANGED <<key, charge, priority, in_cache, table, usage, capacity,
                  mutex, pc, arg, cur, last_ref_list>>
  BY DEF Lookup
<1>4. lookup_count' \in Nat
  BY DEF Lookup, IInv, TypeOK
<1>5. CASE table[k] = Nil
  <2>1. UNCHANGED <<refs, lru, hit_count, handles>>
    BY <1>5 DEF Lookup
  <2>2. hit_count' \in Nat
    BY <2>1 DEF IInv, TypeOK
  <2> QED BY <1>3, <1>4, <2>1, <2>2, OnlyCounts
<1>6. CASE table[k] # Nil
  <2> DEFINE e == table[k]
  <2>1. /\ e \in Entry /\ e # arg /\ key[e] # Nil /\ e \in in_cache
        /\ refs[e] = handles[e] + 1 /\ e \in Resident /\ e \in Published
        /\ \A u \in Thread : e \notin Elements(last_ref_list[u])
        /\ refs[e] = 1 <=> e \in Elements(lru)
    BY <1>6, TableEntry
  <2>2. /\ lru' = IF refs[e] = 1 THEN Without(lru, e) ELSE lru
        /\ refs' = [refs EXCEPT ![e] = @ + 1]
        /\ hit_count' = hit_count + 1
        /\ handles' = [handles EXCEPT ![e] = @ + 1]
    BY <1>6 DEF Lookup
  <2>3. lru' \in Seq(Entry) /\ Distinct(lru') /\ Elements(lru') = Elements(lru) \ {e}
    <3>1. CASE refs[e] = 1
      BY <3>1, <2>1, <2>2, LruRemove
    <3>2. CASE refs[e] # 1
      BY <3>2, <2>1, <2>2 DEF IInv, TypeOK, LruIsIdle, Distinct
    <3> QED BY <3>1, <3>2
  <2>4. /\ refs' \in [Entry -> Nat] /\ handles' \in [Entry -> Nat]
        /\ refs'[e] = refs[e] + 1 /\ handles'[e] = handles[e] + 1
        /\ handles[e] \in Nat
        /\ \A x \in Entry : x # e => refs'[x] = refs[x] /\ handles'[x] = handles[x]
    BY <2>1, <2>2 DEF IInv, TypeOK
  <2>5. Published' = Published /\ Allocated' = Allocated
    BY <1>3 DEF Published, Allocated
  <2>6. TypeOK'
    BY <1>3, <1>4, <2>2, <2>3, <2>4 DEF IInv, TypeOK
  <2>7. MutexInv'
    BY <1>3 DEF IInv, MutexInv
  <2>8. EntryInv'
    BY <1>3, <2>1, <2>4 DEF IInv, EntryInv
  <2>9. TableInv'
    BY <1>3, <2>5 DEF IInv, TableInv
  <2>10. LruIsIdle'
    BY <1>3, <2>1, <2>3, <2>4, <2>5
       DEF IInv, LruIsIdle, Distinct, Published, Allocated
  <2>11. ListInv'
    <3>1. \A u \in Thread : \A x \in Elements(last_ref_list[u]) : refs'[x] = refs[x]
      BY <2>1, <2>4 DEF IInv, ListInv, Published, Allocated
    <3>2. \A x \in Published : refs'[x] = 0 => refs[x] = 0
      BY <2>1, <2>4 DEF Published, Allocated
    <3> QED BY <1>3, <2>5, <3>1, <3>2 DEF IInv, ListInv
  <2>12. UsageInv'
    <3>1. Resident' = Resident
      BY <2>1, <2>4, <2>5 DEF Resident, Published, Allocated
    <3> QED BY <1>3, <3>1 DEF IInv, UsageInv, UsageIsFootprint, Footprint, Bytes
  <2>13. CapacityInv'
    <3>1. lru = <<>> => lru' = <<>>
      BY <2>1, <2>2 DEF Elements
    <3> QED BY <1>3, <3>1 DEF IInv, CapacityInv
  <2>14. ScanInv'
    BY <1>2, <1>3 DEF ScanInv
  <2> QED
    BY <2>6, <2>7, <2>8, <2>9, <2>10, <2>11, <2>12, <2>13, <2>14 DEF IInv
<1> QED BY <1>5, <1>6

\* The end of a critical section leaves no thread in a loop.
LEMMA UnlockMutex ==
    ASSUME IInv, NEW t \in Thread, NEW L \in Seq(Entry), Unlock(t, L),
           mutex = Nil \/ mutex = t, arg' = Nil
    PROVE  /\ MutexInv' /\ ScanInv'
           /\ pc' \in [Thread -> {"idle", "free"} \cup Critical]
           /\ mutex' = Nil
           /\ last_ref_list' \in [Thread -> Seq(Entry)]
           /\ last_ref_list'[t] = L
           /\ \A u \in Thread : u # t => last_ref_list'[u] = last_ref_list[u]
<1>1. /\ pc \in [Thread -> {"idle", "free"} \cup Critical]
      /\ last_ref_list \in [Thread -> Seq(Entry)]
  BY DEF IInv, TypeOK
<1>2. /\ mutex' = Nil
      /\ last_ref_list' = [last_ref_list EXCEPT ![t] = L]
      /\ pc' = [pc EXCEPT ![t] = IF L = <<>> THEN "idle" ELSE "free"]
  BY DEF Unlock
<1>3. \A u \in Thread : pc'[u] \in {"idle", "free"}
  BY <1>1, <1>2, LRUCacheAssumption DEF IInv, MutexInv
<1>4. MutexInv'
  BY <1>2, <1>3, LRUCacheAssumption DEF MutexInv, Critical
<1>5. ScanInv'
  BY <1>3 DEF ScanInv
<1> QED BY <1>1, <1>2, <1>3, <1>4, <1>5

\* What a critical section has to collect for the frees after it to be right.
LEMMA UnlockList ==
    ASSUME IInv, NEW t \in Thread, NEW L \in Seq(Entry), Unlock(t, L),
           mutex = Nil \/ mutex = t, arg' = Nil,
           Distinct(L),
           \A x \in Elements(L) :
             /\ x \in Published' /\ refs'[x] = 0
             /\ \A u \in Thread : u # t => x \notin Elements(last_ref_list[u]),
           \A u \in Thread : u # t => \A x \in Elements(last_ref_list[u]) :
             x \in Published' /\ refs'[x] = 0,
           \A x \in Published' : refs'[x] = 0 =>
             \/ x \in Elements(L)
             \/ \E u \in Thread : u # t /\ x \in Elements(last_ref_list[u])
    PROVE  ListInv'
<1>1. /\ last_ref_list'[t] = L
      /\ \A u \in Thread : u # t => last_ref_list'[u] = last_ref_list[u]
  BY UnlockMutex
<1>2. ASSUME NEW u \in Thread
      PROVE  /\ Distinct(last_ref_list'[u])
             /\ \A e \in Elements(last_ref_list'[u]) : e \in Published' /\ refs'[e] = 0
             /\ pc'[u] = "idle" => last_ref_list'[u] = <<>>
             /\ pc'[u] = "free" => last_ref_list'[u] # <<>>
  <2>1. CASE u = t
    <3>1. pc'[t] = IF L = <<>> THEN "idle" ELSE "free"
      BY DEF Unlock, IInv, TypeOK
    <3> QED BY <2>1, <3>1, <1>1
  <2>2. CASE u # t
    <3>1. pc'[u] = pc[u]
      BY <2>2 DEF Unlock, IInv, TypeOK
    <3> QED BY <2>2, <3>1, <1>1 DEF IInv, ListInv
  <2> QED BY <2>1, <2>2
<1>3. \A u, v \in Thread : u # v =>
        Elements(last_ref_list'[u]) \cap Elements(last_ref_list'[v]) = {}
  BY <1>1 DEF IInv, ListInv
<1>4. \A x \in Published' : refs'[x] = 0 =>
        \E u \in Thread : x \in Elements(last_ref_list'[u])
  BY <1>1
<1> QED BY <1>2, <1>3, <1>4 DEF ListInv

\* The one-element list of release and erase.
LEMMA OneElement ==
    ASSUME NEW e \in Entry
    PROVE  /\ <<e>> \in Seq(Entry) /\ Distinct(<<e>>) /\ Elements(<<e>>) = {e}
           /\ <<>> \in Seq(Entry) /\ Distinct(<<>>) /\ Elements(<<>>) = {}
BY DEF Distinct, Elements

\* The facts about an entry that a client holds.
LEMMA HeldEntry ==
    ASSUME IInv, NEW e \in Entry, handles[e] > 0
    PROVE  /\ key[e] \in Key /\ key[e] # Nil /\ e # arg
           /\ e \in Published /\ e \in Resident /\ charge[e] \in Nat
           /\ refs[e] = handles[e] + (IF e \in in_cache THEN 1 ELSE 0)
           /\ refs[e] \in Nat \ {0} /\ handles[e] \in Nat
           /\ \A u \in Thread : e \notin Elements(last_ref_list[u])
           /\ e \notin Elements(lru)
           /\ e \in in_cache => table[key[e]] = e
<1>1. handles[e] \in Nat /\ charge[e] \in Nat
  BY DEF IInv, TypeOK
<1>2. key[e] # Nil /\ e # arg /\ key[e] \in Key
  BY <1>1 DEF IInv, EntryInv, TypeOK
<1>3. e \in Published
  BY <1>2 DEF Published, Allocated
<1>4. /\ refs[e] = handles[e] + (IF e \in in_cache THEN 1 ELSE 0)
      /\ refs[e] \in Nat \ {0}
  BY <1>1, <1>2 DEF IInv, EntryInv, TypeOK
<1>5. e \in Resident
  BY <1>3, <1>4 DEF Resident
<1>6. \A u \in Thread : e \notin Elements(last_ref_list[u])
  BY <1>4 DEF IInv, ListInv
<1>7. e \notin Elements(lru)
  BY <1>1, <1>4 DEF IInv, LruIsIdle
<1>8. e \in in_cache => table[key[e]] = e
  BY <1>3 DEF IInv, TableInv
<1> QED BY <1>1, <1>2, <1>3, <1>4, <1>5, <1>6, <1>7, <1>8

\* release keeps the invariant, whichever way it ends.
LEMMA ReleasePreserves ==
    ASSUME IInv, NEW t \in Thread, NEW e \in Entry, Release(t, e)
    PROVE  IInv'
<1>1. CanLock(t) /\ handles[e] > 0 /\ handles' = [handles EXCEPT ![e] = @ - 1]
  BY DEF Release
<1>2. UNCHANGED <<key, charge, priority, capacity, lookup_count, hit_count, arg, cur>>
  BY DEF Release
<1>3. arg = Nil /\ mutex = Nil /\ last_ref_list[t] = <<>> /\ Published = Allocated
  BY <1>1, MutexFree DEF CanLock
<1>4. /\ key[e] \in Key /\ key[e] # Nil /\ e # arg
      /\ e \in Published /\ e \in Resident /\ charge[e] \in Nat
      /\ refs[e] = handles[e] + (IF e \in in_cache THEN 1 ELSE 0)
      /\ refs[e] \in Nat \ {0} /\ handles[e] \in Nat
      /\ \A u \in Thread : e \notin Elements(last_ref_list[u])
      /\ e \notin Elements(lru)
      /\ e \in in_cache => table[key[e]] = e
  BY <1>1, HeldEntry
<1>5. /\ handles' \in [Entry -> Nat] /\ handles'[e] = handles[e] - 1
      /\ \A x \in Entry : x # e => handles'[x] = handles[x]
  BY <1>1, <1>4 DEF IInv, TypeOK
<1>6. Published' = Published
  BY <1>2 DEF Published, Allocated
<1>7. /\ <<e>> \in Seq(Entry) /\ Distinct(<<e>>) /\ Elements(<<e>>) = {e}
      /\ <<>> \in Seq(Entry) /\ Distinct(<<>>) /\ Elements(<<>>) = {}
  BY OneElement
<1>8. ASSUME UNCHANGED lru,
             refs' = [refs EXCEPT ![e] = 0],
             usage' = usage - charge[e],
             Unlock(t, <<e>>),
             \/ refs[e] = 1 /\ UNCHANGED <<in_cache, table>>
             \/ /\ refs[e] = 2 /\ e \in in_cache
                /\ in_cache' = in_cache \ {e}
                /\ table' = [table EXCEPT ![key[e]] = Nil]
      PROVE  IInv'
  <2>1. /\ refs' \in [Entry -> Nat] /\ refs'[e] = 0
        /\ \A x \in Entry : x # e => refs'[x] = refs[x]
    BY <1>8 DEF IInv, TypeOK
  <2>2. /\ handles'[e] = 0 /\ e \notin in_cache' /\ in_cache' \subseteq Entry
        /\ \A x \in Entry : x # e => (x \in in_cache' <=> x \in in_cache)
    <3>1. in_cache \subseteq Entry
      BY DEF IInv, TypeOK
    <3>2. CASE refs[e] = 1 /\ UNCHANGED <<in_cache, table>>
      BY <3>1, <3>2, <1>1, <1>4, <1>5
    <3>3. CASE refs[e] = 2 /\ e \in in_cache /\ in_cache' = in_cache \ {e}
      BY <3>1, <3>3, <1>1, <1>4, <1>5
    <3> QED BY <3>2, <3>3, <1>8
  <2>3. UsageInv' /\ usage' \in Nat /\ usage' <= usage
    BY <1>2, <1>4, <1>8, <2>1, RefundPreserves
  <2>4. /\ MutexInv' /\ ScanInv' /\ mutex' = Nil
        /\ pc' \in [Thread -> {"idle", "free"} \cup Critical]
        /\ last_ref_list' \in [Thread -> Seq(Entry)]
    BY <1>2, <1>3, <1>7, <1>8, UnlockMutex
  <2>5. /\ table' \in [Key -> Entry \cup {Nil}]
        /\ \A k \in Key : table'[k] = table[k] \/ (table'[k] = Nil /\ table[k] = e)
    BY <1>4, <1>8 DEF IInv, TypeOK
  <2>6. TypeOK'
    BY <1>2, <1>5, <1>8, <2>1, <2>2, <2>3, <2>4, <2>5 DEF IInv, TypeOK
  <2>7. EntryInv'
    BY <1>2, <1>4, <1>5, <2>1, <2>2 DEF IInv, EntryInv
  <2>8. TableInv'
    <3>1. \A k \in Key : table'[k] # e
      <4> SUFFICES ASSUME NEW k \in Key, table'[k] = e PROVE FALSE
        OBVIOUS
      <4>1. e # Nil
        BY LRUCacheAssumption
      <4>2. table[k] = e
        BY <2>5, <4>1
      <4>3. e \in in_cache /\ key[e] = k
        BY <4>1, <4>2 DEF IInv, TableInv
      <4>4. table' = [table EXCEPT ![key[e]] = Nil]
        BY <1>1, <1>4, <1>8, <4>3
      <4> QED BY <4>1, <4>3, <4>4 DEF IInv, TypeOK
    <3>2. \A k \in Key : table'[k] # Nil =>
            table'[k] \in Published /\ key[table'[k]] = k /\ table'[k] \in in_cache'
      BY <2>2, <2>5, <3>1 DEF IInv, TableInv, Published, Allocated
    <3>3. \A x \in Published : x \in in_cache' => table'[key[x]] = x
      <4> SUFFICES ASSUME NEW x \in Published, x \in in_cache'
                   PROVE  table'[key[x]] = x
        OBVIOUS
      <4>1. x # e /\ x \in Entry /\ x \in in_cache /\ key[x] \in Key
        BY <2>2 DEF Published, Allocated, IInv, TypeOK
      <4>2. table[key[x]] = x
        BY <4>1 DEF IInv, TableInv
      <4> QED BY <4>1, <4>2, <2>5
    <3> QED BY <1>2, <1>6, <3>2, <3>3 DEF TableInv
  <2>9. LruIsIdle'
    <3>1. \A x \in Published : (x \in in_cache' /\ refs'[x] = 1) <=>
                               (x \in in_cache /\ refs[x] = 1)
      <4> SUFFICES ASSUME NEW x \in Published
                   PROVE  (x \in in_cache' /\ refs'[x] = 1) <=>
                          (x \in in_cache /\ refs[x] = 1)
        OBVIOUS
      <4>1. x \in Entry
        BY DEF Published, Allocated
      <4>2. e \in in_cache => refs[e] # 1
        BY <1>1, <1>4
      <4> QED BY <4>1, <4>2, <2>1, <2>2
    <3> QED BY <1>6, <1>8, <3>1 DEF IInv, LruIsIdle
  <2>10. ListInv'
    <3>1. \A x \in Elements(<<e>>) :
            /\ x \in Published' /\ refs'[x] = 0
            /\ \A u \in Thread : u # t => x \notin Elements(last_ref_list[u])
      BY <1>4, <1>6, <1>7, <2>1
    <3>2. \A u \in Thread : u # t => \A x \in Elements(last_ref_list[u]) :
            x \in Published' /\ refs'[x] = 0
      BY <1>4, <1>6, <2>1 DEF IInv, ListInv, Published, Allocated
    <3>3. \A x \in Published' : refs'[x] = 0 =>
            \/ x \in Elements(<<e>>)
            \/ \E u \in Thread : u # t /\ x \in Elements(last_ref_list[u])
      BY <1>3, <1>6, <1>7, <2>1 DEF IInv, ListInv, Published, Allocated
    <3> QED BY <1>2, <1>3, <1>7, <1>8, <3>1, <3>2, <3>3, UnlockList
  <2>11. CapacityInv'
    <3>1. usage \in Nat /\ capacity \in Nat
      BY DEF IInv, TypeOK
    <3> QED BY <1>2, <1>3, <1>8, <2>3, <2>4, <3>1 DEF IInv, CapacityInv
  <2> QED
    BY <2>3, <2>4, <2>6, <2>7, <2>8, <2>9, <2>10, <2>11 DEF IInv
<1>9. CASE ReleaseLastRef(t, e)
  BY <1>8, <1>9 DEF ReleaseLastRef
<1>10. CASE ReleaseEvict(t, e)
  BY <1>8, <1>10 DEF ReleaseEvict
<1>11. CASE ReleaseKeep(t, e)
  <2>1. /\ refs[e] # 1
        /\ refs' = [refs EXCEPT ![e] = @ - 1]
        /\ lru' = IF refs[e] = 2 /\ e \in in_cache THEN Append(lru, e) ELSE lru
        /\ refs[e] = 2 /\ e \in in_cache => ~(usage > capacity)
        /\ Unlock(t, <<>>)
        /\ UNCHANGED <<in_cache, table, usage>>
    BY <1>11 DEF ReleaseKeep
  <2>2. /\ refs' \in [Entry -> Nat] /\ refs'[e] = refs[e] - 1 /\ refs'[e] > 0
        /\ \A x \in Entry : x # e => refs'[x] = refs[x]
    <3>1. refs \in [Entry -> Nat] /\ refs[e] \in Nat /\ refs[e] - 1 \in Nat
      BY <1>4 DEF IInv, TypeOK
    <3>2. refs[e] - 1 > 0
      BY <1>4, <2>1, <3>1
    <3> QED BY <2>1, <3>1, <3>2
  <2>3. /\ MutexInv' /\ ScanInv' /\ mutex' = Nil
        /\ pc' \in [Thread -> {"idle", "free"} \cup Critical]
        /\ last_ref_list' \in [Thread -> Seq(Entry)]
    BY <1>2, <1>3, <1>7, <2>1, UnlockMutex
  <2>4. /\ lru' \in Seq(Entry) /\ Distinct(lru')
        /\ Elements(lru') = IF refs[e] = 2 /\ e \in in_cache
                            THEN Elements(lru) \cup {e} ELSE Elements(lru)
    <3>1. lru \in Seq(Entry) /\ Distinct(lru)
      BY DEF IInv, TypeOK, LruIsIdle, Distinct
    <3>2. CASE refs[e] = 2 /\ e \in in_cache
      <4>1. lru' = Append(lru, e)
        BY <2>1, <3>2
      <4> QED BY <1>4, <3>1, <3>2, <4>1, AppendSeq
    <3>3. CASE ~(refs[e] = 2 /\ e \in in_cache)
      <4>1. lru' = lru
        BY <2>1, <3>3, Zenon
      <4> QED BY <3>1, <3>3, <4>1
    <3> QED BY <3>2, <3>3
  <2>5. TypeOK'
    <3>1. lru' \in Seq(Entry)
      BY <2>4
    <3> QED BY <1>2, <1>5, <2>1, <2>2, <2>3, <3>1 DEF IInv, TypeOK
  <2>6. EntryInv'
    BY <1>2, <1>4, <1>5, <2>1, <2>2 DEF IInv, EntryInv
  <2>7. TableInv'
    BY <1>2, <1>6, <2>1 DEF IInv, TableInv
  <2>8. LruIsIdle'
    <3>1. Elements(lru') = {x \in Published : x \in in_cache /\ refs'[x] = 1}
      <4>1. Elements(lru) = {x \in Published : x \in in_cache /\ refs[x] = 1}
        BY DEF IInv, LruIsIdle
      <4>2. refs'[e] = 1 <=> refs[e] = 2
        BY <1>4, <2>2
      <4>3. \A x \in Published : x # e => refs'[x] = refs[x]
        BY <2>2 DEF Published, Allocated
      <4>4. ASSUME NEW x
            PROVE  x \in Elements(lru') <=>
                     x \in Published /\ x \in in_cache /\ refs'[x] = 1
        <5>1. CASE x = e
          BY <5>1, <1>4, <2>4, <4>2
        <5>2. CASE x # e
          BY <5>2, <2>4, <4>1, <4>3
        <5> QED BY <5>1, <5>2
      <4> QED BY <4>4
    <3> QED BY <1>6, <2>1, <2>4, <3>1 DEF LruIsIdle, Distinct
  <2>9. ListInv'
    <3>1. \A u \in Thread : u # t => \A x \in Elements(last_ref_list[u]) :
            x \in Published' /\ refs'[x] = 0
      BY <1>4, <1>6, <2>2 DEF IInv, ListInv, Published, Allocated
    <3>2. \A x \in Published' : refs'[x] = 0 =>
            \E u \in Thread : u # t /\ x \in Elements(last_ref_list[u])
      BY <1>3, <1>6, <1>7, <2>2 DEF IInv, ListInv, Published, Allocated
    <3> QED BY <1>2, <1>3, <1>7, <2>1, <3>1, <3>2, UnlockList
  <2>10. UsageInv'
    <3>1. Resident' = Resident
      BY <1>4, <1>6, <2>2 DEF Resident, Published, Allocated
    <3> QED BY <1>2, <2>1, <3>1 DEF IInv, UsageInv, UsageIsFootprint, Footprint
  <2>11. CapacityInv'
    BY <1>2, <1>3, <2>1 DEF IInv, CapacityInv
  <2> QED
    BY <2>3, <2>5, <2>6, <2>7, <2>8, <2>9, <2>10, <2>11 DEF IInv
<1> QED BY <1>9, <1>10, <1>11 DEF Release

\* erase keeps the invariant, whether or not clients hold the entry.
LEMMA ErasePreserves ==
    ASSUME IInv, NEW t \in Thread, NEW k \in Key, Erase(t, k)
    PROVE  IInv'
<1> DEFINE e == table[k]
<1>1. /\ CanLock(t) /\ e # Nil
      /\ table' = [table EXCEPT ![k] = Nil]
      /\ in_cache' = in_cache \ {e}
      /\ refs' = [refs EXCEPT ![e] = @ - 1]
      /\ UNCHANGED <<key, charge, priority, capacity, lookup_count, hit_count,
                     arg, cur, handles>>
  BY DEF Erase
<1>2. arg = Nil /\ mutex = Nil /\ last_ref_list[t] = <<>>
  BY <1>1, MutexFree DEF CanLock
<1>3. /\ e \in Entry /\ e # arg /\ key[e] = k /\ key[e] # Nil
      /\ e \in Published /\ e \in in_cache
      /\ refs[e] = handles[e] + 1
      /\ e \in Resident /\ charge[e] \in Nat
      /\ \A u \in Thread : e \notin Elements(last_ref_list[u])
      /\ refs[e] = 1 <=> e \in Elements(lru)
  BY <1>1, TableEntry
<1>4. /\ handles[e] \in Nat /\ refs' \in [Entry -> Nat] /\ refs'[e] = handles[e]
      /\ \A x \in Entry : x # e => refs'[x] = refs[x]
  BY <1>1, <1>3 DEF IInv, TypeOK
<1>5. Published' = Published
  BY <1>1 DEF Published, Allocated
<1>6. /\ <<e>> \in Seq(Entry) /\ Distinct(<<e>>) /\ Elements(<<e>>) = {e}
      /\ <<>> \in Seq(Entry) /\ Distinct(<<>>) /\ Elements(<<>>) = {}
  BY <1>3, OneElement
<1>7. EntryInv'
  BY <1>1, <1>3, <1>4 DEF IInv, EntryInv
<1>8. TableInv' /\ table' \in [Key -> Entry \cup {Nil}] /\ in_cache' \subseteq Entry
  BY <1>1, <1>3, <1>5 DEF IInv, TableInv, TypeOK, Published, Allocated
<1>9. /\ lru' \in Seq(Entry) /\ Distinct(lru')
      /\ Elements(lru') = Elements(lru) \ {e}
      /\ lru = <<>> => lru' = <<>>
  <2>1. lru \in Seq(Entry) /\ Distinct(lru)
    BY DEF IInv, TypeOK, LruIsIdle, Distinct
  <2>2. CASE refs[e] = 1
    <3>1. lru' = Without(lru, e)
      BY <1>3, <2>2 DEF Erase
    <3>2. lru # <<>>
      BY <1>3, <2>2 DEF Elements
    <3> QED BY <1>3, <2>2, <3>1, <3>2, LruRemove
  <2>3. CASE refs[e] # 1
    <3>1. lru' = lru
      BY <2>3 DEF Erase
    <3> QED BY <1>3, <2>1, <2>3, <3>1
  <2> QED BY <2>2, <2>3
<1>10. LruIsIdle'
  BY <1>1, <1>3, <1>4, <1>5, <1>9
     DEF IInv, LruIsIdle, Distinct, Published, Allocated
<1>11. /\ UsageInv' /\ usage' \in Nat /\ usage' <= usage
       /\ MutexInv' /\ ScanInv' /\ mutex' = Nil /\ ListInv'
       /\ pc' \in [Thread -> {"idle", "free"} \cup Critical]
       /\ last_ref_list' \in [Thread -> Seq(Entry)]
  <2>1. \A u \in Thread : u # t => \A x \in Elements(last_ref_list[u]) :
          x \in Published' /\ refs'[x] = 0
    BY <1>3, <1>4, <1>5 DEF IInv, ListInv, Published, Allocated
  <2>2. \A x \in Published' : refs'[x] = 0 =>
          \/ x = e /\ refs[e] = 1
          \/ \E u \in Thread : u # t /\ x \in Elements(last_ref_list[u])
    BY <1>2, <1>3, <1>4, <1>5, <1>6 DEF IInv, ListInv, Published, Allocated
  <2>3. CASE refs[e] = 1
    <3>1. usage' = usage - charge[e] /\ Unlock(t, <<e>>)
      BY <2>3 DEF Erase
    <3>2. refs'[e] = 0
      BY <1>3, <1>4, <2>3
    <3>3. UsageInv' /\ usage' \in Nat /\ usage' <= usage
      BY <1>1, <1>3, <1>4, <3>1, <3>2, RefundPreserves
    <3>4. \A x \in Elements(<<e>>) :
            /\ x \in Published' /\ refs'[x] = 0
            /\ \A u \in Thread : u # t => x \notin Elements(last_ref_list[u])
      BY <1>3, <1>5, <1>6, <3>2
    <3>5. \A x \in Published' : refs'[x] = 0 =>
            \/ x \in Elements(<<e>>)
            \/ \E u \in Thread : u # t /\ x \in Elements(last_ref_list[u])
      BY <1>6, <2>2
    <3>6. ListInv'
      BY <1>1, <1>2, <1>6, <2>1, <3>1, <3>4, <3>5, UnlockList
    <3> QED BY <1>1, <1>2, <1>6, <3>1, <3>3, <3>6, UnlockMutex
  <2>4. CASE refs[e] # 1
    <3>1. usage' = usage /\ Unlock(t, <<>>)
      BY <2>4 DEF Erase
    <3>2. Resident' = Resident
      BY <1>3, <1>4, <1>5, <2>4 DEF Resident, Published, Allocated
    <3>3. UsageInv' /\ usage' \in Nat /\ usage' <= usage
      BY <1>1, <3>1, <3>2
         DEF IInv, TypeOK, UsageInv, UsageIsFootprint, Footprint
    <3>4. ListInv'
      BY <1>1, <1>2, <1>6, <2>1, <2>2, <2>4, <3>1, UnlockList
    <3> QED BY <1>1, <1>2, <1>6, <3>1, <3>3, <3>4, UnlockMutex
  <2> QED BY <2>3, <2>4
<1>12. TypeOK'
  BY <1>1, <1>2, <1>4, <1>8, <1>9, <1>11 DEF IInv, TypeOK
<1>13. CapacityInv'
  <2>1. usage \in Nat /\ capacity \in Nat
    BY DEF IInv, TypeOK
  <2> QED BY <1>1, <1>2, <1>9, <1>11, <2>1 DEF IInv, CapacityInv
<1> QED BY <1>7, <1>8, <1>10, <1>11, <1>12, <1>13 DEF IInv

\* Taking the mutex for set_capacity or prune keeps the invariant.
LEMMA LockPreserves ==
    ASSUME IInv, NEW t \in Thread,
           PruneLock(t) \/ \E c \in Capacity : SetCapacityLock(t, c)
    PROVE  IInv'
<1>1. /\ CanLock(t) /\ mutex' = t /\ capacity' \in Nat /\ cur' \in Nat
      /\ UNCHANGED <<key, charge, priority, refs, in_cache, table, lru, usage,
                     lookup_count, hit_count, arg, last_ref_list, handles>>
      /\ \/ pc' = [pc EXCEPT ![t] = "prune"] /\ UNCHANGED capacity
         \/ pc' = [pc EXCEPT ![t] = "normal"] /\ cur' = 0
  <2>1. CASE PruneLock(t)
    BY <2>1 DEF PruneLock, IInv, TypeOK
  <2>2. ASSUME NEW c \in Capacity, SetCapacityLock(t, c)
        PROVE  <1>1!:
    <3>1. c \in Nat
      BY LRUCacheAssumption
    <3> QED BY <2>2, <3>1 DEF SetCapacityLock
  <2> QED BY <2>1, <2>2
<1>2. /\ arg = Nil /\ mutex = Nil /\ t # Nil
      /\ \A u \in Thread : pc[u] \in {"idle", "free"}
      /\ last_ref_list[t] = <<>>
  BY <1>1, MutexFree, LRUCacheAssumption DEF CanLock
<1>3. Published' = Published /\ Resident' = Resident
  BY <1>1 DEF Published, Allocated, Resident
<1>4. /\ pc' \in [Thread -> {"idle", "free"} \cup Critical]
      /\ pc'[t] \in {"normal", "prune"}
      /\ \A u \in Thread : u # t => pc'[u] = pc[u]
  BY <1>1 DEF IInv, TypeOK, Critical
<1>5. TypeOK'
  BY <1>1, <1>4 DEF IInv, TypeOK
<1>6. MutexInv'
  BY <1>1, <1>2, <1>4 DEF MutexInv, Critical
<1>7. EntryInv' /\ TableInv' /\ LruIsIdle'
  BY <1>1, <1>3 DEF IInv, EntryInv, TableInv, LruIsIdle
<1>8. ListInv'
  <2>1. \A u \in Thread : pc'[u] \in {"idle", "free"} => u # t
    BY <1>4
  <2> QED BY <1>1, <1>3, <1>4, <2>1 DEF IInv, ListInv
<1>9. UsageInv'
  BY <1>1, <1>3 DEF IInv, UsageInv, UsageIsFootprint, Footprint
<1>10. CapacityInv'
  <2>1. CASE pc' = [pc EXCEPT ![t] = "prune"] /\ UNCHANGED capacity
    BY <1>1, <1>2, <2>1 DEF IInv, CapacityInv
  <2>2. CASE pc' = [pc EXCEPT ![t] = "normal"]
    BY <1>1, <1>2, <2>2 DEF CapacityInv, IInv, TypeOK
  <2> QED BY <1>1, <2>1, <2>2
<1>11. ScanInv'
  <2>1. \A u \in Thread : /\ pc'[u] = "normal" => u = t /\ cur' = 0
                          /\ pc'[u] # "durable"
    BY <1>1, <1>2, <1>4 DEF IInv, TypeOK
  <2>2. Len(lru') \in Nat
    BY <1>1 DEF IInv, TypeOK
  <2> QED BY <2>1, <2>2 DEF ScanInv
<1> QED BY <1>5, <1>6, <1>7, <1>8, <1>9, <1>10, <1>11 DEF IInv

\* A thread in a loop holds the mutex, and no other thread is in one.
LEMMA MutexOwner ==
    ASSUME IInv, NEW t \in Thread, pc[t] \in Critical
    PROVE  mutex = t /\ t # Nil /\ \A u \in Thread : pc[u] \in Critical => u = t
BY LRUCacheAssumption DEF IInv, MutexInv

\* Phase 1 evicts a NORMAL entry.
LEMMA EvictNormalPreserves ==
    ASSUME IInv, NEW t \in Thread, EvictNormal(t)
    PROVE  IInv'
<1> DEFINE p == cur + 1
<1>1. /\ pc[t] = "normal" /\ cur < Len(lru) /\ EvictOneEntry(t, lru[p])
      /\ UNCHANGED <<key, charge, priority, capacity, lookup_count, hit_count,
                     mutex, pc, arg, cur, handles>>
  BY DEF EvictNormal
<1>2. p \in 1..Len(lru) /\ pc[t] \in Critical /\ cur \in Nat /\ Len(lru) \in Nat
  BY <1>1 DEF IInv, TypeOK, Critical
<1>3. /\ TypeOK' /\ MutexInv' /\ EntryInv' /\ TableInv' /\ LruIsIdle'
      /\ ListInv' /\ UsageInv' /\ CapacityInv'
  BY <1>1, <1>2, EvictOneEntryPreserves
<1>4. \A u \in Thread : pc[u] \in Critical => u = t
  BY <1>2, MutexOwner
<1>5. /\ Len(lru') = Len(lru) - 1
      /\ \A i \in 1..(Len(lru) - 1) : lru'[i] = IF i < p THEN lru[i] ELSE lru[i + 1]
  <2>1. lru \in Seq(Entry) /\ Distinct(lru) /\ lru' = Without(lru, lru[p])
    BY <1>1 DEF IInv, TypeOK, LruIsIdle, Distinct, EvictOneEntry
  <2> QED BY <1>2, <2>1, WithoutSeq
<1>6. cur <= Len(lru') /\ \A i \in 1..cur : priority[lru'[i]] = "DURABLE"
  <2>1. \A i \in 1..cur : priority[lru[i]] = "DURABLE"
    BY <1>1 DEF IInv, ScanInv
  <2>2. \A i \in 1..cur : lru'[i] = lru[i]
    BY <1>1, <1>2, <1>5
  <2> QED BY <1>1, <1>2, <1>5, <2>1, <2>2
<1>7. ScanInv'
  BY <1>1, <1>4, <1>6 DEF ScanInv, Critical
<1> QED BY <1>3, <1>7 DEF IInv

\* Phase 2 evicts from the head of a list that has only DURABLE entries.
LEMMA EvictDurablePreserves ==
    ASSUME IInv, NEW t \in Thread, EvictDurable(t)
    PROVE  IInv'
<1>1. /\ pc[t] = "durable" /\ NeedsSpace /\ lru # <<>> /\ EvictOneEntry(t, lru[1])
      /\ UNCHANGED <<key, charge, priority, capacity, lookup_count, hit_count,
                     mutex, pc, arg, cur, handles>>
  BY DEF EvictDurable
<1>2. 1 \in 1..Len(lru) /\ pc[t] \in Critical /\ Len(lru) \in Nat
  BY <1>1 DEF IInv, TypeOK, Critical
<1>3. /\ TypeOK' /\ MutexInv' /\ EntryInv' /\ TableInv' /\ LruIsIdle'
      /\ ListInv' /\ UsageInv' /\ CapacityInv'
  BY <1>1, <1>2, EvictOneEntryPreserves
<1>4. \A u \in Thread : pc[u] \in Critical => u = t
  BY <1>2, MutexOwner
<1>5. /\ Len(lru') = Len(lru) - 1
      /\ \A i \in 1..(Len(lru) - 1) : lru'[i] = IF i < 1 THEN lru[i] ELSE lru[i + 1]
  <2>1. lru \in Seq(Entry) /\ Distinct(lru) /\ lru' = Without(lru, lru[1])
    BY <1>1 DEF IInv, TypeOK, LruIsIdle, Distinct, EvictOneEntry
  <2> QED BY <1>2, <2>1, WithoutSeq
<1>6. \A i \in 1..Len(lru') : priority[lru'[i]] = "DURABLE"
  <2>1. \A i \in 1..Len(lru) : priority[lru[i]] = "DURABLE"
    BY <1>1 DEF IInv, ScanInv
  <2>2. \A i \in 1..Len(lru') : i + 1 \in 1..Len(lru) /\ lru'[i] = lru[i + 1]
    BY <1>2, <1>5
  <2> QED BY <2>1, <2>2
<1>7. ScanInv'
  BY <1>1, <1>4, <1>6 DEF ScanInv, Critical
<1> QED BY <1>3, <1>7 DEF IInv

\* prune drops the oldest entry.
LEMMA PruneOnePreserves ==
    ASSUME IInv, NEW t \in Thread, PruneOne(t)
    PROVE  IInv'
<1>1. /\ pc[t] = "prune" /\ lru # <<>> /\ EvictOneEntry(t, lru[1])
      /\ UNCHANGED <<key, charge, priority, capacity, lookup_count, hit_count,
                     mutex, pc, arg, cur, handles>>
  BY DEF PruneOne
<1>2. 1 \in 1..Len(lru) /\ pc[t] \in Critical
  BY <1>1 DEF IInv, TypeOK, Critical
<1>3. /\ TypeOK' /\ MutexInv' /\ EntryInv' /\ TableInv' /\ LruIsIdle'
      /\ ListInv' /\ UsageInv' /\ CapacityInv'
  BY <1>1, <1>2, EvictOneEntryPreserves
<1>4. \A u \in Thread : pc[u] \in Critical => u = t
  BY <1>2, MutexOwner
<1>5. ScanInv'
  BY <1>1, <1>4 DEF ScanInv, Critical
<1> QED BY <1>3, <1>5 DEF IInv

\* Phase 1 walks over a DURABLE entry, or ends.
LEMMA ScanPreserves ==
    ASSUME IInv, NEW t \in Thread, SkipDurable(t) \/ EndNormal(t)
    PROVE  IInv'
<1>1. /\ pc[t] = "normal"
      /\ UNCHANGED <<key, charge, priority, refs, in_cache, table, lru, usage,
                     capacity, lookup_count, hit_count, mutex, arg,
                     last_ref_list, handles>>
      /\ cur' \in Nat /\ cur \in Nat
  BY DEF SkipDurable, EndNormal, IInv, TypeOK
<1>2. mutex = t /\ t # Nil /\ \A u \in Thread : pc[u] \in Critical => u = t
  BY <1>1, MutexOwner DEF Critical
<1>3. Published' = Published /\ Resident' = Resident
  BY <1>1 DEF Published, Allocated, Resident
<1>4. /\ pc' \in [Thread -> {"idle", "free"} \cup Critical]
      /\ pc'[t] \in {"normal", "durable"}
      /\ \A u \in Thread : u # t => pc'[u] = pc[u]
  BY <1>1 DEF SkipDurable, EndNormal, IInv, TypeOK, Critical
<1>5. TypeOK'
  BY <1>1, <1>4 DEF IInv, TypeOK
<1>6. MutexInv'
  BY <1>1, <1>2, <1>4 DEF IInv, MutexInv, Critical
<1>7. EntryInv' /\ TableInv' /\ LruIsIdle'
  BY <1>1, <1>3 DEF IInv, EntryInv, TableInv, LruIsIdle
<1>8. ListInv'
  <2>1. \A u \in Thread : pc'[u] \in {"idle", "free"} => u # t
    BY <1>4
  <2> QED BY <1>1, <1>3, <1>4, <2>1 DEF IInv, ListInv
<1>9. UsageInv'
  BY <1>1, <1>3 DEF IInv, UsageInv, UsageIsFootprint, Footprint
<1>10. CapacityInv'
  BY <1>1, <1>2, <1>4 DEF CapacityInv
<1>11. ScanInv'
  <2>1. cur <= Len(lru) /\ (\A i \in 1..cur : priority[lru[i]] = "DURABLE") /\ Len(lru) \in Nat
    BY <1>1 DEF IInv, ScanInv, TypeOK
  <2>2. NeedsSpace' <=> NeedsSpace
    BY <1>1 DEF NeedsSpace
  <2>3. \A u \in Thread : u # t => pc'[u] \notin {"normal", "durable"}
    BY <1>2, <1>4 DEF Critical
  <2>4. CASE SkipDurable(t)
    <3>1. cur < Len(lru) /\ priority[lru[cur + 1]] = "DURABLE" /\ cur' = cur + 1 /\ pc' = pc
      BY <2>4 DEF SkipDurable
    <3>2. cur' <= Len(lru) /\ \A i \in 1..cur' : priority[lru[i]] = "DURABLE"
      BY <1>1, <2>1, <3>1
    <3> QED BY <1>1, <2>3, <3>1, <3>2 DEF ScanInv
  <2>5. CASE EndNormal(t)
    <3>1. ~(NeedsSpace /\ cur < Len(lru)) /\ pc'[t] = "durable"
      BY <2>5 DEF EndNormal, IInv, TypeOK
    <3>2. NeedsSpace => \A i \in 1..Len(lru) : priority[lru[i]] = "DURABLE"
      BY <1>1, <2>1, <3>1
    <3> QED BY <1>1, <2>2, <2>3, <3>1, <3>2 DEF ScanInv
  <2> QED BY <2>4, <2>5
<1> QED BY <1>5, <1>6, <1>7, <1>8, <1>9, <1>10, <1>11 DEF IInv

\* insert prepares a fresh entry and takes the mutex.
LEMMA InsertLockPreserves ==
    ASSUME IInv, NEW t \in Thread, NEW k \in Key, NEW c \in Charge,
           NEW p \in Priority, InsertLock(t, k, c, p)
    PROVE  IInv'
<1>1. PICK e \in Entry \ Allocated :
        /\ key' = [key EXCEPT ![e] = k]
        /\ charge' = [charge EXCEPT ![e] = c]
        /\ priority' = [priority EXCEPT ![e] = p]
        /\ refs' = [refs EXCEPT ![e] = 2]
        /\ in_cache' = in_cache \cup {e}
        /\ arg' = e
  BY DEF InsertLock
<1>2. /\ CanLock(t) /\ mutex' = t /\ cur' = 0
      /\ pc' = [pc EXCEPT ![t] = "normal"]
      /\ UNCHANGED <<table, lru, usage, capacity, lookup_count, hit_count,
                     last_ref_list, handles>>
  BY DEF InsertLock
<1>3. /\ arg = Nil /\ mutex = Nil /\ t # Nil /\ Published = Allocated
      /\ \A u \in Thread : pc[u] \in {"idle", "free"}
      /\ c \in Nat /\ k # Nil
  BY <1>2, MutexFree, LRUCacheAssumption DEF CanLock
<1>4. e \in Entry /\ key[e] = Nil /\ e \notin Published /\ handles[e] = 0
  BY <1>3 DEF Allocated, IInv, EntryInv
<1>5. /\ key' \in [Entry -> Key \cup {Nil}] /\ charge' \in [Entry -> Nat]
      /\ priority' \in [Entry -> Priority] /\ refs' \in [Entry -> Nat]
      /\ in_cache' \subseteq Entry /\ arg' \in Entry
      /\ key'[e] = k /\ refs'[e] = 2
      /\ \A x \in Entry : x # e => /\ key'[x] = key[x] /\ charge'[x] = charge[x]
                                   /\ priority'[x] = priority[x]
                                   /\ refs'[x] = refs[x]
  BY <1>1, <1>3 DEF IInv, TypeOK
<1>6. Published' = Published
  BY <1>1, <1>3, <1>4, <1>5 DEF Published, Allocated
<1>7. \A x \in Published : /\ x \in Entry /\ x # e /\ key'[x] = key[x]
                           /\ charge'[x] = charge[x] /\ refs'[x] = refs[x]
                           /\ x \in in_cache' <=> x \in in_cache
  BY <1>1, <1>4, <1>5 DEF Published, Allocated
<1>8. /\ pc' \in [Thread -> {"idle", "free"} \cup Critical]
      /\ pc'[t] = "normal"
      /\ \A u \in Thread : u # t => pc'[u] = pc[u]
  BY <1>2 DEF IInv, TypeOK, Critical
<1>9. TypeOK'
  <2>1. mutex' \in Thread \cup {Nil} /\ cur' \in Nat /\ arg' \in Entry \cup {Nil}
    BY <1>2, <1>5
  <2> QED BY <1>2, <1>5, <1>8, <2>1 DEF IInv, TypeOK
<1>10. MutexInv'
  BY <1>2, <1>3, <1>8 DEF MutexInv, Critical
<1>11. EntryInv'
  <2> SUFFICES ASSUME NEW x \in Entry
               PROVE  /\ key'[x] = Nil => refs'[x] = 0 /\ x \notin in_cache' /\ handles'[x] = 0
                      /\ x = arg' => /\ key'[x] # Nil /\ refs'[x] = 2 /\ x \in in_cache'
                                     /\ handles'[x] = 0
                      /\ key'[x] # Nil /\ x # arg' =>
                           refs'[x] = handles'[x] + (IF x \in in_cache' THEN 1 ELSE 0)
    BY DEF EntryInv
  <2>1. CASE x = e
    BY <1>1, <1>2, <1>3, <1>4, <1>5, <2>1
  <2>2. CASE x # e
    <3>1. /\ key'[x] = key[x] /\ refs'[x] = refs[x] /\ handles'[x] = handles[x]
          /\ (x \in in_cache' <=> x \in in_cache) /\ x # arg' /\ x # arg
      BY <1>1, <1>2, <1>3, <1>5, <2>2, LRUCacheAssumption
    <3>2. /\ key[x] = Nil => refs[x] = 0 /\ x \notin in_cache /\ handles[x] = 0
          /\ key[x] # Nil => refs[x] = handles[x] + (IF x \in in_cache THEN 1 ELSE 0)
      BY <3>1 DEF IInv, EntryInv
    <3>3. CASE x \in in_cache
      BY <3>1, <3>2, <3>3
    <3>4. CASE x \notin in_cache
      BY <3>1, <3>2, <3>4
    <3> QED BY <3>3, <3>4
  <2> QED BY <2>1, <2>2
<1>12. TableInv'
  BY <1>2, <1>6, <1>7 DEF IInv, TableInv
<1>13. LruIsIdle'
  BY <1>2, <1>6, <1>7 DEF IInv, LruIsIdle
<1>14. ListInv'
  <2>1. \A u \in Thread : pc'[u] \in {"idle", "free"} => u # t
    BY <1>8
  <2> QED BY <1>2, <1>6, <1>7, <1>8, <2>1, ZenonT(40) DEF IInv, ListInv
<1>15. UsageInv'
  <2>1. Resident' = Resident
    BY <1>6, <1>7 DEF Resident
  <2>2. \A x \in Resident : charge'[x] = charge[x]
    BY <1>7 DEF Resident
  <2>3. Bytes(charge', Resident) = Bytes(charge, Resident)
    BY <2>2, BytesSame
  <2> QED BY <1>2, <2>1, <2>3 DEF IInv, UsageInv, UsageIsFootprint, Footprint
<1>16. CapacityInv'
  BY <1>2, <1>3, <1>8 DEF CapacityInv
<1>17. ScanInv'
  <2>1. \A u \in Thread : pc'[u] # "durable"
    BY <1>3, <1>8
  <2>2. Len(lru') \in Nat
    BY <1>9 DEF TypeOK
  <2> QED BY <1>2, <2>1, <2>2 DEF ScanInv
<1> QED
  BY <1>9, <1>10, <1>11, <1>12, <1>13, <1>14, <1>15, <1>16, <1>17 DEF IInv

\* The end of set_capacity and of prune.
LEMMA UnlockPreserves ==
    ASSUME IInv, NEW t \in Thread, SetCapacityUnlock(t) \/ PruneUnlock(t)
    PROVE  IInv'
<1>1. /\ pc[t] \in Critical
      /\ Unlock(t, last_ref_list[t])
      /\ UNCHANGED <<key, charge, priority, refs, in_cache, table, lru, usage,
                     capacity, lookup_count, hit_count, arg, cur, handles>>
  BY DEF SetCapacityUnlock, PruneUnlock, EvictionDone, Critical
<1>2. mutex = t /\ t # Nil
  BY <1>1, MutexOwner
<1>3. arg = Nil
  <2>1. CASE SetCapacityUnlock(t)
    BY <2>1 DEF SetCapacityUnlock
  <2>2. CASE PruneUnlock(t)
    BY <1>2, <2>2 DEF PruneUnlock, IInv, MutexInv
  <2> QED BY <2>1, <2>2
<1>4. Published' = Published /\ Resident' = Resident
  BY <1>1 DEF Published, Allocated, Resident
<1>5. last_ref_list[t] \in Seq(Entry)
  BY DEF IInv, TypeOK
<1>6. /\ MutexInv' /\ ScanInv' /\ mutex' = Nil
      /\ pc' \in [Thread -> {"idle", "free"} \cup Critical]
      /\ last_ref_list' \in [Thread -> Seq(Entry)]
  BY <1>1, <1>2, <1>3, <1>5, UnlockMutex
<1>7. TypeOK'
  BY <1>1, <1>6 DEF IInv, TypeOK
<1>8. EntryInv' /\ TableInv' /\ LruIsIdle'
  BY <1>1, <1>4 DEF IInv, EntryInv, TableInv, LruIsIdle
<1>9. ListInv'
  <2>1. Distinct(last_ref_list[t])
    BY DEF IInv, ListInv
  <2>2. \A x \in Elements(last_ref_list[t]) :
          /\ x \in Published' /\ refs'[x] = 0
          /\ \A u \in Thread : u # t => x \notin Elements(last_ref_list[u])
    BY <1>1, <1>4 DEF IInv, ListInv
  <2>3. \A u \in Thread : u # t => \A x \in Elements(last_ref_list[u]) :
          x \in Published' /\ refs'[x] = 0
    BY <1>1, <1>4 DEF IInv, ListInv
  <2>4. \A x \in Published' : refs'[x] = 0 =>
          \/ x \in Elements(last_ref_list[t])
          \/ \E u \in Thread : u # t /\ x \in Elements(last_ref_list[u])
    BY <1>1, <1>4 DEF IInv, ListInv
  <2> QED BY <1>1, <1>2, <1>3, <1>5, <2>1, <2>2, <2>3, <2>4, UnlockList
<1>10. UsageInv'
  BY <1>1, <1>4 DEF IInv, UsageInv, UsageIsFootprint, Footprint
<1>11. CapacityInv'
  <2>1. CASE SetCapacityUnlock(t)
    <3>1. ~(usage > capacity /\ lru # <<>>)
      BY <1>3, <2>1 DEF SetCapacityUnlock, EvictionDone, NeedsSpace, IInv, TypeOK
    <3> QED BY <1>1, <3>1 DEF CapacityInv
  <2>2. CASE PruneUnlock(t)
    BY <2>2 DEF PruneUnlock, CapacityInv
  <2> QED BY <2>1, <2>2
<1> QED BY <1>6, <1>7, <1>8, <1>9, <1>10, <1>11 DEF IInv

\* Running the deleter of one entry after the mutex is released.
LEMMA FreePreserves ==
    ASSUME IInv, NEW t \in Thread, Free(t)
    PROVE  IInv'
<1> DEFINE L == last_ref_list[t]
           e == Head(L)
<1>1. /\ pc[t] = "free"
      /\ key' = [key EXCEPT ![e] = Nil]
      /\ charge' = [charge EXCEPT ![e] = 0]
      /\ priority' = [priority EXCEPT ![e] = "NORMAL"]
      /\ last_ref_list' = [last_ref_list EXCEPT ![t] = Tail(L)]
      /\ pc' = [pc EXCEPT ![t] = IF Tail(L) = <<>> THEN "idle" ELSE "free"]
      /\ UNCHANGED <<refs, in_cache, table, lru, usage, capacity, lookup_count,
                     hit_count, mutex, arg, cur, handles>>
  BY DEF Free, IInv, TypeOK
<1>2. L \in Seq(Entry) /\ L # <<>> /\ Distinct(L)
  BY <1>1 DEF IInv, ListInv, TypeOK
<1>3. /\ Tail(L) \in Seq(Entry) /\ Distinct(Tail(L)) /\ e = L[1]
      /\ e \in Elements(L) /\ Elements(Tail(L)) = Elements(L) \ {e}
  <2>1. /\ Len(L) \in Nat \ {0} /\ e = L[1] /\ Tail(L) \in Seq(Entry)
        /\ Len(Tail(L)) = Len(L) - 1
        /\ \A i \in 1..(Len(L) - 1) : Tail(L)[i] = L[i + 1]
    BY <1>2
  <2>2. Distinct(Tail(L))
    BY <1>2, <2>1 DEF Distinct
  <2>3. e \in Elements(L)
    BY <2>1 DEF Elements
  <2>4. Elements(Tail(L)) \subseteq Elements(L) \ {e}
    BY <1>2, <2>1 DEF Elements, Distinct
  <2>5. Elements(L) \ {e} \subseteq Elements(Tail(L))
    <3> SUFFICES ASSUME NEW x \in Elements(L), x # e PROVE x \in Elements(Tail(L))
      OBVIOUS
    <3>1. PICK i \in 1..Len(L) : x = L[i]
      BY DEF Elements
    <3>2. i # 1 /\ i - 1 \in 1..Len(Tail(L)) /\ Tail(L)[i - 1] = x
      BY <2>1, <3>1
    <3> QED BY <3>2 DEF Elements
  <2> QED BY <2>1, <2>2, <2>3, <2>4, <2>5
<1>4. /\ e \in Published /\ e \in Entry /\ key[e] # Nil /\ e # arg /\ refs[e] = 0
      /\ e \notin Resident
  BY <1>3 DEF IInv, ListInv, Published, Allocated, Resident
<1>5. e \notin in_cache /\ handles[e] = 0
  BY <1>4 DEF IInv, EntryInv, TypeOK
<1>6. /\ key' \in [Entry -> Key \cup {Nil}] /\ charge' \in [Entry -> Nat]
      /\ priority' \in [Entry -> Priority] /\ key'[e] = Nil
      /\ \A x \in Entry : x # e => key'[x] = key[x] /\ charge'[x] = charge[x]
                                   /\ priority'[x] = priority[x]
  BY <1>1, <1>4 DEF IInv, TypeOK, Priority
<1>7. Published' = Published \ {e}
  BY <1>1, <1>4, <1>6 DEF Published, Allocated
<1>8. /\ pc' \in [Thread -> {"idle", "free"} \cup Critical]
      /\ pc'[t] = IF Tail(L) = <<>> THEN "idle" ELSE "free"
      /\ last_ref_list' \in [Thread -> Seq(Entry)] /\ last_ref_list'[t] = Tail(L)
      /\ \A u \in Thread : u # t => /\ pc'[u] = pc[u]
                                    /\ last_ref_list'[u] = last_ref_list[u]
  BY <1>1, <1>3 DEF IInv, TypeOK
<1>9. TypeOK'
  BY <1>1, <1>6, <1>8 DEF IInv, TypeOK
<1>10. MutexInv'
  <2>1. mutex # t /\ pc'[t] \notin Critical
    BY <1>1, <1>8 DEF IInv, MutexInv, Critical
  <2>2. mutex \in Thread \cup {Nil}
    BY DEF IInv, TypeOK
  <2> QED BY <1>1, <1>8, <2>1, <2>2 DEF IInv, MutexInv
<1>11. EntryInv'
  BY <1>1, <1>4, <1>5, <1>6 DEF IInv, EntryInv
<1>12. TableInv'
  <2>1. \A x \in Published \ {e} : x \in Entry /\ key'[x] = key[x]
    BY <1>6 DEF Published, Allocated
  <2>2. \A k \in Key : table[k] # Nil => table[k] # e
    BY <1>5 DEF IInv, TableInv
  <2> QED BY <1>1, <1>7, <2>1, <2>2 DEF IInv, TableInv
<1>13. LruIsIdle'
  BY <1>1, <1>5, <1>7 DEF IInv, LruIsIdle
<1>14. ListInv'
  <2>1. ASSUME NEW u \in Thread
        PROVE  /\ Distinct(last_ref_list'[u])
               /\ \A x \in Elements(last_ref_list'[u]) : x \in Published' /\ refs'[x] = 0
               /\ pc'[u] = "idle" => last_ref_list'[u] = <<>>
               /\ pc'[u] = "free" => last_ref_list'[u] # <<>>
    <3>1. CASE u = t
      <4>1. \A x \in Elements(L) : x \in Published /\ refs[x] = 0
        BY DEF IInv, ListInv
      <4> QED BY <1>1, <1>3, <1>7, <1>8, <3>1, <4>1
    <3>2. CASE u # t
      <4>1. e \notin Elements(last_ref_list[u])
        BY <1>3, <3>2 DEF IInv, ListInv
      <4> QED BY <1>1, <1>7, <1>8, <3>2, <4>1 DEF IInv, ListInv
    <3> QED BY <3>1, <3>2
  <2>2. \A u, v \in Thread : u # v =>
          Elements(last_ref_list'[u]) \cap Elements(last_ref_list'[v]) = {}
    <3>1. \A u \in Thread : Elements(last_ref_list'[u]) \subseteq Elements(last_ref_list[u])
      BY <1>3, <1>8
    <3> QED BY <3>1 DEF IInv, ListInv
  <2>3. \A x \in Published' : refs'[x] = 0 =>
          \E u \in Thread : x \in Elements(last_ref_list'[u])
    <3> SUFFICES ASSUME NEW x \in Published', refs'[x] = 0
                 PROVE  \E u \in Thread : x \in Elements(last_ref_list'[u])
      OBVIOUS
    <3>1. x \in Published /\ x # e /\ refs[x] = 0
      BY <1>1, <1>7
    <3>2. PICK u \in Thread : x \in Elements(last_ref_list[u])
      BY <3>1 DEF IInv, ListInv
    <3> QED BY <1>3, <1>8, <3>1, <3>2
  <2> QED BY <2>1, <2>2, <2>3 DEF ListInv
<1>15. UsageInv'
  <2>1. Resident' = Resident
    BY <1>1, <1>4, <1>7 DEF Resident
  <2>2. \A x \in Resident : charge'[x] = charge[x]
    BY <1>4, <1>6 DEF Resident, Published, Allocated
  <2>3. Bytes(charge', Resident) = Bytes(charge, Resident)
    BY <2>2, BytesSame
  <2> QED BY <1>1, <2>1, <2>3 DEF IInv, UsageInv, UsageIsFootprint, Footprint
<1>16. CapacityInv'
  <2>1. mutex # Nil => mutex \in Thread /\ mutex # t
    BY <1>1 DEF IInv, TypeOK, MutexInv, Critical
  <2> QED BY <1>1, <1>8, <2>1 DEF IInv, CapacityInv
<1>17. ScanInv'
  <2>1. lru \in Seq(Entry) /\ \A i \in 1..Len(lru) : lru[i] # e /\ lru[i] \in Entry
    BY <1>5 DEF IInv, TypeOK, LruIsIdle, Elements
  <2>2. \A i \in 1..Len(lru) : priority'[lru[i]] = priority[lru[i]]
    BY <1>6, <2>1
  <2>3. NeedsSpace' <=> NeedsSpace
    <3>1. arg \in Entry \cup {Nil}
      BY DEF IInv, TypeOK
    <3> QED BY <1>1, <1>4, <1>6, <3>1 DEF NeedsSpace
  <2>4. \A u \in Thread : pc'[u] \in {"normal", "durable"} => pc[u] = pc'[u]
    BY <1>8
  <2>5. Len(lru) \in Nat /\ cur \in Nat
    BY DEF IInv, TypeOK
  <2>6. ASSUME NEW u \in Thread, pc'[u] = "normal"
        PROVE  cur' <= Len(lru') /\ \A i \in 1..cur' : priority'[lru'[i]] = "DURABLE"
    <3>1. cur <= Len(lru) /\ \A i \in 1..cur : priority[lru[i]] = "DURABLE"
      BY <2>4, <2>6 DEF IInv, ScanInv
    <3> QED BY <1>1, <2>2, <2>5, <3>1
  <2>7. ASSUME NEW u \in Thread, pc'[u] = "durable", NeedsSpace'
        PROVE  \A i \in 1..Len(lru') : priority'[lru'[i]] = "DURABLE"
    BY <1>1, <2>2, <2>3, <2>4, <2>7 DEF IInv, ScanInv
  <2> QED BY <2>6, <2>7 DEF ScanInv
<1> QED
  BY <1>9, <1>10, <1>11, <1>12, <1>13, <1>14, <1>15, <1>16, <1>17 DEF IInv

\* The entry that insert publishes, and the one it replaces.
LEMMA InsertPublishPreserves ==
    ASSUME IInv, NEW t \in Thread, InsertPublish(t)
    PROVE  IInv'
<1> DEFINE e == arg
           k == key[arg]
           old == table[k]
           dropped == old # Nil /\ refs[old] = 1
           L == IF dropped THEN Append(last_ref_list[t], old) ELSE last_ref_list[t]
<1>1. /\ EvictionDone(t) /\ e # Nil /\ arg' = Nil
      /\ table' = [table EXCEPT ![k] = e]
      /\ in_cache' = in_cache \ {old}
      /\ refs' = [x \in Entry |-> IF x = old THEN refs[x] - 1 ELSE refs[x]]
      /\ lru' = IF dropped THEN Without(lru, old) ELSE lru
      /\ usage' = IF dropped THEN (usage + charge[e]) - charge[old]
                  ELSE usage + charge[e]
      /\ Unlock(t, L)
      /\ handles' = [handles EXCEPT ![e] = 1]
      /\ UNCHANGED <<key, charge, priority, capacity, lookup_count, hit_count, cur>>
  BY DEF InsertPublish
<1>2. mutex = t /\ t # Nil
  BY <1>1, MutexOwner DEF EvictionDone, Critical
<1>3. /\ e \in Entry /\ k \in Key /\ k # Nil /\ refs[e] = 2 /\ e \in in_cache
      /\ handles[e] = 0 /\ charge[e] \in Nat /\ e \notin Published /\ Nil \notin Entry
      /\ usage \in Nat /\ capacity \in Nat
  BY <1>1, LRUCacheAssumption DEF IInv, TypeOK, EntryInv, Published
<1>4. Published' = Published \cup {e}
  BY <1>1, <1>3 DEF Published, Allocated
<1>5. old # Nil =>
        /\ old \in Entry /\ old # e /\ key[old] = k /\ old \in Published
        /\ old \in in_cache /\ refs[old] = handles[old] + 1
        /\ handles[old] \in Nat
        /\ old \in Resident /\ charge[old] \in Nat
        /\ \A u \in Thread : old \notin Elements(last_ref_list[u])
        /\ refs[old] = 1 <=> old \in Elements(lru)
  BY <1>3, TableEntry DEF IInv, TypeOK
<1>6. /\ refs' \in [Entry -> Nat] /\ refs'[e] = 2
      /\ \A x \in Entry : x # old => refs'[x] = refs[x]
      /\ old # Nil => refs'[old] = handles[old]
  <2>1. refs \in [Entry -> Nat] /\ old \in Entry \cup {Nil}
    BY <1>3 DEF IInv, TypeOK
  <2>2. \A x \in Entry : refs'[x] = IF x = old THEN refs[x] - 1 ELSE refs[x]
    BY <1>1
  <2>3. ASSUME NEW x \in Entry PROVE refs'[x] \in Nat
    <3>1. CASE x = old
      <4>1. refs[x] = handles[x] + 1 /\ handles[x] \in Nat
        BY <1>3, <1>5, <3>1
      <4> QED BY <2>2, <3>1, <4>1
    <3>2. CASE x # old
      BY <2>1, <2>2, <3>2
    <3> QED BY <3>1, <3>2
  <2>4. refs' \in [Entry -> Nat]
    BY <1>1, <2>3
  <2>5. refs'[e] = 2
    BY <1>3, <1>5, <2>2
  <2>6. old # Nil => refs'[old] = handles[old]
    BY <1>5, <2>2
  <2> QED BY <2>2, <2>4, <2>5, <2>6
<1>7. /\ handles' \in [Entry -> Nat] /\ handles'[e] = 1
      /\ \A x \in Entry : x # e => handles'[x] = handles[x]
  BY <1>1, <1>3 DEF IInv, TypeOK
<1>8. /\ lru' \in Seq(Entry) /\ Distinct(lru')
      /\ Elements(lru') = Elements(lru) \ {old}
      /\ lru = <<>> => lru' = <<>>
      /\ dropped => lru # <<>>
  <2>1. lru \in Seq(Entry) /\ Distinct(lru)
    BY DEF IInv, TypeOK, LruIsIdle, Distinct
  <2>2. CASE dropped
    <3>1. lru' = Without(lru, old) /\ old \in Elements(lru)
      BY <1>1, <1>5, <2>2
    <3>2. lru # <<>>
      BY <3>1 DEF Elements
    <3> QED BY <3>1, <3>2, LruRemove
  <2>3. CASE ~dropped
    <3>1. lru' = lru
      BY <1>1, <2>3
    <3>2. old \notin Elements(lru)
      BY <1>3, <1>5, <2>1, <2>3 DEF Elements
    <3> QED BY <2>1, <2>3, <3>1, <3>2
  <2> QED BY <2>2, <2>3
<1>9. /\ L \in Seq(Entry) /\ Distinct(L)
      /\ Elements(L) = IF dropped THEN Elements(last_ref_list[t]) \cup {old}
                       ELSE Elements(last_ref_list[t])
  <2>1. last_ref_list[t] \in Seq(Entry) /\ Distinct(last_ref_list[t])
    BY DEF IInv, TypeOK, ListInv
  <2>2. CASE dropped
    BY <1>5, <2>1, <2>2, AppendSeq
  <2>3. CASE ~dropped
    BY <2>1, <2>3
  <2> QED BY <2>2, <2>3
<1>10. /\ MutexInv' /\ ScanInv' /\ mutex' = Nil
       /\ pc' \in [Thread -> {"idle", "free"} \cup Critical]
       /\ last_ref_list' \in [Thread -> Seq(Entry)]
  BY <1>1, <1>2, <1>9, UnlockMutex
<1>11. UsageInv' /\ usage' \in Nat
  <2>1. /\ IsFiniteSet(Bytes(charge, Resident))
        /\ usage = Cardinality(Bytes(charge, Resident))
    BY DEF IInv, UsageInv, UsageIsFootprint, Footprint
  <2>2. e \notin Resident
    BY <1>3 DEF Resident
  <2>3. CASE dropped
    <3>1. Resident' = (Resident \ {old}) \cup {e}
      BY <1>3, <1>4, <1>5, <1>6, <2>3 DEF Resident, Published, Allocated
    <3>2. /\ IsFiniteSet(Bytes(charge, Resident \ {old}))
          /\ Cardinality(Bytes(charge, Resident \ {old})) = usage - charge[old]
          /\ usage - charge[old] \in Nat
      BY <1>5, <2>1, <2>3, BytesRemove
    <3>3. /\ IsFiniteSet(Bytes(charge, (Resident \ {old}) \cup {e}))
          /\ Cardinality(Bytes(charge, (Resident \ {old}) \cup {e})) =
               (usage - charge[old]) + charge[e]
      <4> DEFINE R == Resident \ {old}
      <4>1. e \notin R /\ IsFiniteSet(Bytes(charge, R)) /\ charge[e] \in Nat
        BY <1>3, <2>2, <3>2
      <4> HIDE DEF R
      <4>2. /\ IsFiniteSet(Bytes(charge, R \cup {e}))
            /\ Cardinality(Bytes(charge, R \cup {e})) =
                 Cardinality(Bytes(charge, R)) + charge[e]
        BY <4>1, BytesAdd
      <4> QED BY <3>2, <4>2 DEF R
    <3>4. usage' = (usage - charge[old]) + charge[e] /\ usage' \in Nat
      BY <1>1, <1>3, <1>5, <2>3, <3>2
    <3> QED BY <1>1, <3>1, <3>3, <3>4 DEF UsageInv, UsageIsFootprint, Footprint
  <2>4. CASE ~dropped
    <3>1. Resident' = Resident \cup {e}
      BY <1>3, <1>4, <1>5, <1>6, <2>4 DEF Resident, Published, Allocated
    <3>2. /\ IsFiniteSet(Bytes(charge, Resident \cup {e}))
          /\ Cardinality(Bytes(charge, Resident \cup {e})) = usage + charge[e]
      BY <1>3, <2>1, <2>2, BytesAdd
    <3>3. usage' = usage + charge[e] /\ usage' \in Nat
      BY <1>1, <1>3, <2>4
    <3> QED BY <1>1, <3>1, <3>2, <3>3 DEF UsageInv, UsageIsFootprint, Footprint
  <2> QED BY <2>3, <2>4
<1>12. /\ table' \in [Key -> Entry \cup {Nil}] /\ table'[k] = e
       /\ \A j \in Key : j # k => table'[j] = table[j]
  BY <1>1, <1>3 DEF IInv, TypeOK
<1>13. TypeOK'
  <2>1. in_cache' \subseteq Entry /\ arg' \in Entry \cup {Nil}
    BY <1>1 DEF IInv, TypeOK
  <2>2. lru' \in Seq(Entry)
    BY <1>8
  <2> QED BY <1>1, <1>6, <1>7, <1>10, <1>11, <1>12, <2>1, <2>2 DEF IInv, TypeOK
<1>14. EntryInv'
  <2> SUFFICES ASSUME NEW x \in Entry
               PROVE  /\ key[x] = Nil => refs'[x] = 0 /\ x \notin in_cache' /\ handles'[x] = 0
                      /\ key[x] # Nil =>
                           refs'[x] = handles'[x] + (IF x \in in_cache' THEN 1 ELSE 0)
    BY <1>1, <1>3 DEF EntryInv
  <2>1. CASE x = e
    <3>1. e \in in_cache' /\ key[e] # Nil
      BY <1>1, <1>3, <1>5
    <3> QED BY <1>6, <1>7, <2>1, <3>1
  <2>2. CASE x = old
    <3>1. x # e /\ x \notin in_cache' /\ key[x] # Nil /\ refs'[x] = handles'[x] /\ handles'[x] \in Nat
      BY <1>1, <1>3, <1>5, <1>6, <1>7, <2>2
    <3> QED BY <3>1
  <2>3. CASE x # e /\ x # old
    BY <1>1, <1>6, <1>7, <2>3 DEF IInv, EntryInv
  <2> QED BY <2>1, <2>2, <2>3
<1>15. TableInv'
  <2>1. ASSUME NEW j \in Key, table'[j] # Nil
        PROVE  /\ table'[j] \in Published' /\ key[table'[j]] = j
               /\ table'[j] \in in_cache'
    <3>1. CASE j = k
      BY <1>1, <1>3, <1>4, <1>5, <1>12, <3>1
    <3>2. CASE j # k
      <4>1. /\ table'[j] = table[j] /\ table[j] \in Published /\ key[table[j]] = j
            /\ table[j] \in in_cache
        BY <1>12, <2>1, <3>2 DEF IInv, TableInv
      <4>2. table[j] # old
        BY <1>3, <1>5, <3>2, <4>1 DEF Published, Allocated
      <4> QED BY <1>1, <1>4, <4>1, <4>2
    <3> QED BY <3>1, <3>2
  <2>2. ASSUME NEW x \in Published', x \in in_cache'
        PROVE  table'[key[x]] = x
    <3>1. CASE x = e
      BY <1>12, <3>1
    <3>2. CASE x # e
      <4>1. x \in Published /\ x \in in_cache /\ x # old /\ key[x] \in Key
        BY <1>1, <1>4, <2>2, <3>2 DEF Published, Allocated, IInv, TypeOK
      <4>2. table[key[x]] = x
        BY <4>1 DEF IInv, TableInv
      <4> QED BY <1>12, <4>1, <4>2
    <3> QED BY <3>1, <3>2
  <2> QED BY <1>1, <2>1, <2>2 DEF TableInv
<1>16. LruIsIdle'
  <2>1. Elements(lru') = {x \in Published' : x \in in_cache' /\ refs'[x] = 1}
    <3>1. Elements(lru) = {x \in Published : x \in in_cache /\ refs[x] = 1}
      BY DEF IInv, LruIsIdle
    <3>2. \A x \in Published : x \in Entry
      BY DEF Published, Allocated
    <3> QED BY <1>1, <1>4, <1>6, <1>8, <3>1, <3>2
  <2> QED BY <1>8, <2>1 DEF LruIsIdle, Distinct
<1>17. ListInv'
  <2>1. \A x \in Elements(L) :
          /\ x \in Published' /\ refs'[x] = 0
          /\ \A u \in Thread : u # t => x \notin Elements(last_ref_list[u])
    <3>1. \A x \in Elements(last_ref_list[t]) :
            /\ x \in Published /\ x \in Entry /\ refs[x] = 0 /\ x # old
            /\ \A u \in Thread : u # t => x \notin Elements(last_ref_list[u])
      <4> SUFFICES ASSUME NEW x \in Elements(last_ref_list[t])
                   PROVE  /\ x \in Published /\ x \in Entry /\ refs[x] = 0 /\ x # old
                          /\ \A u \in Thread : u # t => x \notin Elements(last_ref_list[u])
        OBVIOUS
      <4>1. x \in Published /\ refs[x] = 0
        BY DEF IInv, ListInv
      <4>2. x \in Entry
        BY <4>1 DEF Published, Allocated
      <4>3. x # old
        BY <1>3, <1>5, <4>2
      <4>4. \A u \in Thread : u # t => x \notin Elements(last_ref_list[u])
        BY DEF IInv, ListInv
      <4> QED BY <4>1, <4>2, <4>3, <4>4
    <3>2. dropped => old \in Published /\ refs'[old] = 0
      BY <1>5, <1>6
    <3> QED BY <1>4, <1>5, <1>6, <1>9, <3>1, <3>2
  <2>2. \A u \in Thread : u # t => \A x \in Elements(last_ref_list[u]) :
          x \in Published' /\ refs'[x] = 0
    BY <1>3, <1>4, <1>5, <1>6 DEF IInv, ListInv, Published, Allocated
  <2>3. \A x \in Published' : refs'[x] = 0 =>
          \/ x \in Elements(L)
          \/ \E u \in Thread : u # t /\ x \in Elements(last_ref_list[u])
    <3> SUFFICES ASSUME NEW x \in Published', refs'[x] = 0
                 PROVE  \/ x \in Elements(L)
                        \/ \E u \in Thread : u # t /\ x \in Elements(last_ref_list[u])
      OBVIOUS
    <3>1. x # e /\ x \in Published /\ x \in Entry
      BY <1>4, <1>6 DEF Published, Allocated
    <3>2. CASE x = old
      <4>1. dropped
        BY <1>3, <1>5, <1>6, <3>1, <3>2
      <4> QED BY <1>9, <3>2, <4>1
    <3>3. CASE x # old
      <4>1. refs[x] = 0
        BY <1>6, <3>1, <3>3
      <4>2. PICK u \in Thread : x \in Elements(last_ref_list[u])
        BY <3>1, <4>1 DEF IInv, ListInv
      <4> QED BY <1>9, <4>2
    <3> QED BY <3>2, <3>3
  <2> QED BY <1>1, <1>2, <1>9, <2>1, <2>2, <2>3, UnlockList, ZenonT(40)
<1>18. CapacityInv'
  <2>1. ~(usage + charge[e] > capacity) \/ lru = <<>>
    BY <1>1, <1>3 DEF EvictionDone, NeedsSpace
  <2>2. CASE dropped
    <3>1. usage' = (usage + charge[e]) - charge[old] /\ charge[old] \in Nat
      BY <1>1, <1>5, <2>2
    <3>2. ~(usage' > capacity)
      BY <1>3, <1>8, <2>1, <2>2, <3>1
    <3> QED BY <1>1, <3>2 DEF CapacityInv
  <2>3. CASE ~dropped
    <3>1. usage' = usage + charge[e]
      BY <1>1, <2>3
    <3> QED BY <1>1, <1>8, <2>1, <3>1 DEF CapacityInv
  <2> QED BY <2>2, <2>3
<1> QED
  BY <1>10, <1>11, <1>13, <1>14, <1>15, <1>16, <1>17, <1>18 DEF IInv

-----------------------------------------------------------------------------
(***************************************************************************)
(* The theorems.                                                           *)
(***************************************************************************)

\* The empty shard satisfies the invariant.
LEMMA InitIInv == Init => IInv
<1> SUFFICES ASSUME Init PROVE IInv
  OBVIOUS
<1>1. Allocated = {} /\ Published = {} /\ Resident = {}
  BY DEF Init, Allocated, Published, Resident
<1>2. TypeOK
  BY DEF Init, TypeOK, Priority
<1>3. MutexInv
  BY LRUCacheAssumption DEF Init, MutexInv, Critical
<1>4. EntryInv
  BY LRUCacheAssumption DEF Init, EntryInv
<1>5. TableInv
  BY <1>1 DEF Init, TableInv
<1>6. LruIsIdle
  BY <1>1 DEF Init, LruIsIdle, Elements
<1>7. ListInv
  BY <1>1 DEF Init, ListInv, Elements, Distinct
<1>8. UsageInv
  <2>1. Footprint = {}
    BY <1>1 DEF Footprint, Bytes
  <2> QED BY <2>1, FS_EmptySet DEF Init, UsageInv, UsageIsFootprint
<1>9. CapacityInv /\ ScanInv
  BY DEF Init, CapacityInv, ScanInv
<1> QED BY <1>2, <1>3, <1>4, <1>5, <1>6, <1>7, <1>8, <1>9 DEF IInv

\* Every step of every thread keeps the invariant.
LEMMA NextIInv == IInv /\ [Next]_vars => IInv'
<1> SUFFICES ASSUME IInv, [Next]_vars PROVE IInv'
  OBVIOUS
<1>1. CASE UNCHANGED vars
  <2>1. lookup_count' \in Nat /\ hit_count' \in Nat
    BY <1>1 DEF vars, IInv, TypeOK
  <2> QED BY <1>1, <2>1, OnlyCounts DEF vars
<1>2. ASSUME NEW t \in Thread, Call(t) PROVE IInv'
  BY <1>2, LookupPreserves, ErasePreserves, ReleasePreserves, InsertLockPreserves,
     LockPreserves DEF Call
<1>3. ASSUME NEW t \in Thread, Proceed(t) PROVE IInv'
  BY <1>3, ScanPreserves, EvictNormalPreserves, EvictDurablePreserves,
     InsertPublishPreserves, UnlockPreserves, PruneOnePreserves, FreePreserves
     DEF Proceed
<1> QED BY <1>1, <1>2, <1>3 DEF Next

\* The conjunction of the parts is an invariant of the shard.
THEOREM Invariance == Spec => []IInv
BY InitIInv, NextIInv, PTL DEF Spec

\* Every variable keeps its type; _usage never wraps below zero.
THEOREM TypeCorrect == Spec => []TypeOK
<1>1. IInv => TypeOK
  BY DEF IInv
<1> QED BY <1>1, Invariance, PTL

\* _usage is at all times the sum of the charges of the cached and held entries.
THEOREM UsageExact == Spec => []UsageIsFootprint
<1>1. IInv => UsageIsFootprint
  BY DEF IInv, UsageInv
<1> QED BY <1>1, Invariance, PTL

\* The LRU list is at all times exactly the unpinned cached entries.
THEOREM LruExact == Spec => []LruIsIdle
<1>1. IInv => LruIsIdle
  BY DEF IInv
<1> QED BY <1>1, Invariance, PTL

\* A shard is over its capacity between calls only with pinned entries.
THEOREM OnlyPinnedOverCapacity == Spec => []OverCapacityOnlyPinned
<1>1. IInv => OverCapacityOnlyPinned
  <2> SUFFICES ASSUME IInv, mutex = Nil, usage > capacity, NEW e \in Resident
               PROVE  handles[e] > 0
    BY DEF OverCapacityOnlyPinned
  <2>1. lru = <<>>
    BY DEF IInv, CapacityInv
  <2>2. e \notin Elements(lru)
    BY <2>1 DEF Elements
  <2>3. e \in Published /\ e \in Entry /\ refs[e] > 0 /\ key[e] # Nil /\ e # arg
    BY DEF Resident, Published, Allocated
  <2>4. ~(e \in in_cache /\ refs[e] = 1)
    BY <2>2, <2>3 DEF IInv, LruIsIdle
  <2>5. refs[e] = handles[e] + (IF e \in in_cache THEN 1 ELSE 0) /\ handles[e] \in Nat
    BY <2>3 DEF IInv, EntryInv, TypeOK
  <2> QED BY <2>3, <2>4, <2>5
<1> QED BY <1>1, Invariance, PTL

\* A handle a client holds always refers to live, charged memory.
THEOREM HeldNeverFreed == Spec => []HeldIsValid
<1>1. IInv => HeldIsValid
  BY HeldEntry DEF HeldIsValid
<1> QED BY <1>1, Invariance, PTL

\* A dropped entry is in exactly one list to be freed: no leak, no double free.
THEOREM FreedOnce == Spec => []DroppedIsFreedOnce
<1>1. IInv => DroppedIsFreedOnce
  <2> SUFFICES ASSUME IInv PROVE DroppedIsFreedOnce
    OBVIOUS
  <2>1. \A t \in Thread : Elements(last_ref_list[t]) \subseteq Published
    BY DEF IInv, ListInv
  <2>2. ASSUME NEW t \in Thread, NEW u \in Thread,
               NEW i \in 1..Len(last_ref_list[t]), NEW j \in 1..Len(last_ref_list[u]),
               last_ref_list[t][i] = last_ref_list[u][j]
        PROVE  t = u /\ i = j
    <3>1. /\ last_ref_list[t][i] \in Elements(last_ref_list[t])
          /\ last_ref_list[t][i] \in Elements(last_ref_list[u])
      BY <2>2 DEF Elements
    <3>2. t = u
      BY <3>1 DEF IInv, ListInv
    <3> QED BY <2>2, <3>2 DEF IInv, ListInv, Distinct
  <2>3. \A e \in Published : refs[e] = 0 =>
          \E t \in Thread : e \in Elements(last_ref_list[t])
    BY DEF IInv, ListInv
  <2> QED BY <2>1, <2>2, <2>3 DEF DroppedIsFreedOnce
<1> QED BY <1>1, Invariance, PTL

\* Eviction takes the oldest NORMAL entry first, and the oldest DURABLE one only
\* when no NORMAL one is left on the list.
THEOREM EvictsInOrder == Spec => EvictionOrder
<1> DEFINE A == \A e \in Entry : Evicted(e) =>
                  \A i, j \in 1..Len(lru) :
                    lru[j] = e /\ priority[lru[i]] \in {"NORMAL", priority[e]} =>
                      priority[lru[i]] = priority[e] /\ j <= i
<1>1. IInv /\ [Next]_vars => [A]_vars
  <2> SUFFICES ASSUME IInv, Next,
                      NEW e \in Entry, Evicted(e),
                      NEW i \in 1..Len(lru), NEW j \in 1..Len(lru),
                      lru[j] = e, priority[lru[i]] \in {"NORMAL", priority[e]}
               PROVE  priority[lru[i]] = priority[e] /\ j <= i
    OBVIOUS
  <2>1. PICK t \in Thread : Call(t) \/ Proceed(t)
    BY DEF Next
  <2>2. /\ mutex \in Thread /\ pc[mutex] \in {"normal", "durable"}
        /\ table[key[e]] = e /\ table'[key[e]] = Nil /\ e # arg /\ key[e] \in Key
    BY DEF Evicted, Allocated, IInv, TypeOK
  <2>3. mutex # Nil /\ e # Nil
    BY <2>2, LRUCacheAssumption
  <2>4. table' # table
    BY <2>2, <2>3
  <2>5. ~Call(t)
    <3>1. ~CanLock(t)
      BY <2>3 DEF CanLock
    <3> QED BY <3>1 DEF Call, Lookup, Erase, Release, InsertLock, SetCapacityLock,
                        PruneLock
  <2>6. pc[t] \in Critical => t = mutex
    BY DEF IInv, MutexInv
  <2>7. lru \in Seq(Entry) /\ Distinct(lru) /\ cur \in Nat /\ Len(lru) \in Nat
    <3>1. lru \in Seq(Entry) /\ cur \in Nat
      BY DEF IInv, TypeOK
    <3>2. Distinct(lru)
      BY DEF IInv, LruIsIdle, Distinct
    <3> QED BY <3>1, <3>2
  <2>8. ASSUME NEW p \in 1..Len(lru), EvictOneEntry(t, lru[p])
        PROVE  j = p
    <3>1. /\ table' = [table EXCEPT ![key[lru[p]]] = Nil] /\ key[lru[p]] \in Key
          /\ table[key[lru[p]]] = lru[p]
      BY <2>8, LruEntry DEF EvictOneEntry
    <3>2. key[lru[p]] = key[e]
      BY <2>2, <2>3, <3>1 DEF IInv, TypeOK
    <3> QED BY <2>2, <2>7, <3>1, <3>2 DEF Distinct
  <2>9. CASE EvictNormal(t)
    <3>1. /\ pc[t] = "normal" /\ cur < Len(lru) /\ priority[lru[cur + 1]] # "DURABLE"
          /\ EvictOneEntry(t, lru[cur + 1])
      BY <2>9 DEF EvictNormal
    <3>2. cur + 1 \in 1..Len(lru)
      BY <2>7, <3>1
    <3>3. j = cur + 1
      BY <2>8, <3>1, <3>2
    <3>4. \A n \in 1..cur : priority[lru[n]] = "DURABLE"
      BY <3>1 DEF IInv, ScanInv
    <3>5. priority[e] = "NORMAL"
      BY <3>1, <3>3 DEF IInv, TypeOK, Priority
    <3>6. ~(i <= cur) /\ priority[lru[i]] = "NORMAL"
      BY <2>7, <3>4, <3>5
    <3> QED BY <2>7, <3>3, <3>5, <3>6
  <2>10. CASE EvictDurable(t)
    <3>1. pc[t] = "durable" /\ NeedsSpace /\ EvictOneEntry(t, lru[1])
      BY <2>10 DEF EvictDurable
    <3>2. priority[lru[i]] = "DURABLE"
      BY <3>1 DEF IInv, ScanInv
    <3>3. j = 1
      BY <2>7, <2>8, <3>1
    <3> QED BY <3>2, <3>3
  <2>11. CASE InsertPublish(t)
    <3>1. table' = [table EXCEPT ![key[arg]] = arg] /\ arg # Nil
      BY <2>11 DEF InsertPublish
    <3> QED BY <2>2, <2>3, <3>1 DEF IInv, TypeOK
  <2>12. CASE PruneOne(t)
    BY <2>2, <2>6, <2>12 DEF PruneOne, Critical
  <2>13. CASE \/ SkipDurable(t) \/ EndNormal(t) \/ SetCapacityUnlock(t)
              \/ PruneUnlock(t) \/ Free(t)
    BY <2>4, <2>13 DEF SkipDurable, EndNormal, SetCapacityUnlock, PruneUnlock, Free
  <2> QED BY <2>1, <2>5, <2>9, <2>10, <2>11, <2>12, <2>13 DEF Proceed
<1>2. EvictionOrder <=> [][A]_vars
  BY DEF EvictionOrder
<1> HIDE DEF A
<1> QED BY <1>1, <1>2, Invariance, PTL DEF Spec


-----------------------------------------------------------------------------
(***************************************************************************)
(* A shard implements CacheSpec: every step of a thread is a step of the   *)
(* abstract cache or leaves the abstract cache unchanged.                  *)
(***************************************************************************)

\* Taking e out of the table under its own key is what the abstract cache
\* does, because no other key maps to e.
LEMMA UnmapOne ==
    ASSUME IInv, NEW e \in Entry, key[e] \in Key, table[key[e]] = e
    PROVE  /\ Cache!Mapped(e)
           /\ [table EXCEPT ![key[e]] = Nil] = Cache!Unmapped(e)
<1>1. e # Nil
  BY LRUCacheAssumption
<1>2. \A k \in Key : table[k] = e => k = key[e]
  BY <1>1 DEF IInv, TableInv
<1>3. table \in [Key -> Entry \cup {Nil}]
  BY DEF IInv, TypeOK
<1>4. [table EXCEPT ![key[e]] = Nil] =
        [k \in Key |-> IF table[k] = e THEN Nil ELSE table[k]]
  BY <1>2, <1>3
<1> QED BY <1>4 DEF Cache!Mapped, Cache!Unmapped

\* _evict_one_entry, in whichever loop, is an eviction.
LEMMA EvictOneEntryEvicts ==
    ASSUME IInv, NEW t \in Thread, NEW p \in 1..Len(lru),
           EvictOneEntry(t, lru[p]), UNCHANGED <<key, arg, handles>>
    PROVE  Cache!Next
<1>1. lru[p] \in Entry /\ key[lru[p]] \in Key /\ table[key[lru[p]]] = lru[p]
      /\ handles[lru[p]] = 0
  BY LruEntry
<1>2. table' = [table EXCEPT ![key[lru[p]]] = Nil]
  BY DEF EvictOneEntry
<1>3. Published' = Published
  BY DEF Published, Allocated
<1>4. Cache!Evict(lru[p])
  BY <1>1, <1>2, <1>3, UnmapOne DEF Cache!Evict
<1> QED BY <1>1, <1>4 DEF Cache!Next

\* lookup
LEMMA LookupMaps ==
    ASSUME IInv, NEW t \in Thread, NEW k \in Key, Lookup(t, k)
    PROVE  Cache!Next \/ UNCHANGED Cache!cacheVars
<1>1. UNCHANGED table /\ Published' = Published
  BY DEF Lookup, Published, Allocated
<1>2. CASE table[k] = Nil
  <2>1. UNCHANGED handles
    BY <1>2 DEF Lookup
  <2> QED BY <1>1, <2>1 DEF Cache!cacheVars
<1>3. CASE table[k] # Nil
  <2>1. handles' = [handles EXCEPT ![table[k]] = @ + 1]
    BY <1>3 DEF Lookup
  <2>2. Cache!Lookup(k)
    BY <1>1, <1>3, <2>1 DEF Cache!Lookup
  <2> QED BY <2>2 DEF Cache!Next
<1> QED BY <1>2, <1>3

\* release
LEMMA ReleaseMaps ==
    ASSUME IInv, NEW t \in Thread, NEW e \in Entry, Release(t, e)
    PROVE  Cache!Next
<1>1. /\ handles[e] > 0 /\ handles' = [handles EXCEPT ![e] = @ - 1]
      /\ Published' = Published
  BY DEF Release, Published, Allocated
<1>2. table' = table \/ (handles[e] = 1 /\ table' = Cache!Unmapped(e))
  <2>1. CASE ReleaseLastRef(t, e) \/ ReleaseKeep(t, e)
    BY <2>1 DEF ReleaseLastRef, ReleaseKeep
  <2>2. CASE ReleaseEvict(t, e)
    <3>1. /\ refs[e] = 2 /\ e \in in_cache
          /\ table' = [table EXCEPT ![key[e]] = Nil]
      BY <2>2 DEF ReleaseEvict
    <3>2. /\ key[e] \in Key /\ table[key[e]] = e
          /\ refs[e] = handles[e] + 1 /\ handles[e] \in Nat
      BY <1>1, <3>1, HeldEntry
    <3>3. handles[e] = 1
      BY <3>1, <3>2
    <3> QED BY <3>1, <3>2, <3>3, UnmapOne
  <2> QED BY <2>1, <2>2 DEF Release
<1>3. Cache!Release(e)
  BY <1>1, <1>2 DEF Cache!Release
<1> QED BY <1>3 DEF Cache!Next

\* erase
LEMMA EraseMaps ==
    ASSUME IInv, NEW t \in Thread, NEW k \in Key, Erase(t, k)
    PROVE  Cache!Next
<1>1. /\ table' = [table EXCEPT ![k] = Nil] /\ UNCHANGED handles
      /\ Published' = Published
  BY DEF Erase, Published, Allocated
<1> QED BY <1>1 DEF Cache!Next, Cache!Erase

\* insert: the entry becomes known when it is published.
LEMMA InsertMaps ==
    ASSUME IInv, NEW t \in Thread, InsertPublish(t)
    PROVE  Cache!Next
<1>1. /\ arg # Nil /\ arg' = Nil /\ UNCHANGED key
      /\ table' = [table EXCEPT ![key[arg]] = arg]
      /\ handles' = [handles EXCEPT ![arg] = 1]
  BY DEF InsertPublish
<1>2. arg \in Entry /\ key[arg] # Nil
  BY <1>1 DEF IInv, TypeOK, EntryInv
<1>3. key[arg] \in Key
  BY <1>2 DEF IInv, TypeOK
<1>4. arg \notin Published /\ Published' = Published \cup {arg}
  BY <1>1, <1>2, LRUCacheAssumption DEF Published, Allocated
<1>5. Cache!Insert(key[arg], arg)
  BY <1>1, <1>4 DEF Cache!Insert
<1> QED BY <1>2, <1>3, <1>5 DEF Cache!Next

\* free(): the entry is held by nobody and cached under no key.
LEMMA FreeMaps ==
    ASSUME IInv, NEW t \in Thread, Free(t)
    PROVE  Cache!Next
<1> DEFINE L == last_ref_list[t]
           e == Head(L)
<1>1. pc[t] = "free" /\ key' = [key EXCEPT ![e] = Nil]
      /\ UNCHANGED <<table, arg, handles>>
  BY DEF Free
<1>2. L \in Seq(Entry) /\ L # <<>>
  BY <1>1 DEF IInv, ListInv, TypeOK
<1>3. e \in Elements(L)
  <2>1. Len(L) \in Nat \ {0} /\ e = L[1]
    BY <1>2
  <2> QED BY <2>1 DEF Elements
<1>4. e \in Published /\ refs[e] = 0
  BY <1>3 DEF IInv, ListInv
<1>5. e \in Entry /\ key[e] # Nil /\ e # arg /\ e # Nil
  BY <1>4, LRUCacheAssumption DEF Published, Allocated
<1>6. handles[e] = 0 /\ e \notin in_cache
  <2>1. refs[e] = handles[e] + (IF e \in in_cache THEN 1 ELSE 0)
    BY <1>5 DEF IInv, EntryInv
  <2>2. handles[e] \in Nat
    BY <1>5 DEF IInv, TypeOK
  <2> QED BY <1>4, <2>1, <2>2
<1>7. ~Cache!Mapped(e)
  BY <1>5, <1>6 DEF Cache!Mapped, IInv, TableInv
<1>8. Published' = Published \ {e}
  BY <1>1, <1>5 DEF Published, Allocated, IInv, TypeOK
<1>9. Cache!Free(e)
  BY <1>1, <1>4, <1>6, <1>7, <1>8 DEF Cache!Free
<1> QED BY <1>5, <1>9 DEF Cache!Next

\* Taking or giving back the mutex, and walking the list, change nothing that
\* clients see; neither does preparing an entry that is not published yet.
LEMMA SilentSteps ==
    ASSUME IInv, NEW t \in Thread,
           \/ \E k \in Key, c \in Charge, p \in Priority : InsertLock(t, k, c, p)
           \/ \E c \in Capacity : SetCapacityLock(t, c)
           \/ PruneLock(t) \/ SkipDurable(t) \/ EndNormal(t)
           \/ SetCapacityUnlock(t) \/ PruneUnlock(t)
    PROVE  UNCHANGED Cache!cacheVars
<1>1. UNCHANGED <<table, handles>>
  BY DEF InsertLock, SetCapacityLock, PruneLock, SkipDurable, EndNormal,
         SetCapacityUnlock, PruneUnlock
<1>2. Published' = Published
  <2>1. CASE \E k \in Key, c \in Charge, p \in Priority : InsertLock(t, k, c, p)
    <3>1. PICK k \in Key, c \in Charge, p \in Priority : InsertLock(t, k, c, p)
      BY <2>1
    <3>2. arg = Nil /\ Published = Allocated
      BY <3>1, MutexFree DEF InsertLock
    <3>3. PICK e \in Entry \ Allocated : key' = [key EXCEPT ![e] = k] /\ arg' = e
      BY <3>1 DEF InsertLock
    <3>4. k # Nil /\ key \in [Entry -> Key \cup {Nil}]
      BY LRUCacheAssumption DEF IInv, TypeOK
    <3>5. Allocated' = Allocated \cup {e}
      BY <3>3, <3>4 DEF Allocated
    <3> QED BY <3>2, <3>3, <3>5 DEF Published
  <2>2. CASE UNCHANGED <<key, arg>>
    BY <2>2 DEF Published, Allocated
  <2> QED BY <2>1, <2>2 DEF SetCapacityLock, PruneLock, SkipDurable, EndNormal,
                            SetCapacityUnlock, PruneUnlock
<1> QED BY <1>1, <1>2 DEF Cache!cacheVars

\* Every step of a shard is a step of the abstract cache or a stutter.
LEMMA NextMaps == IInv /\ [Next]_vars => [Cache!Next]_Cache!cacheVars
<1>1. ASSUME IInv, NEW t \in Thread, Call(t)
      PROVE  Cache!Next \/ UNCHANGED Cache!cacheVars
  BY <1>1, LookupMaps, ReleaseMaps, EraseMaps, SilentSteps DEF Call
<1>2. ASSUME IInv, NEW t \in Thread, Proceed(t)
      PROVE  Cache!Next \/ UNCHANGED Cache!cacheVars
  <2>0. lru \in Seq(Entry) /\ Len(lru) \in Nat /\ cur \in Nat
    BY <1>2 DEF IInv, TypeOK
  <2>1. CASE EvictNormal(t)
    <3>1. cur + 1 \in 1..Len(lru)
      BY <2>0, <2>1 DEF EvictNormal
    <3>2. EvictOneEntry(t, lru[cur + 1]) /\ UNCHANGED <<key, arg, handles>>
      BY <2>1 DEF EvictNormal
    <3> QED BY <1>2, <3>1, <3>2, EvictOneEntryEvicts
  <2>2. CASE EvictDurable(t) \/ PruneOne(t)
    <3>1. lru # <<>> /\ EvictOneEntry(t, lru[1]) /\ UNCHANGED <<key, arg, handles>>
      BY <2>2 DEF EvictDurable, PruneOne
    <3>2. 1 \in 1..Len(lru)
      BY <2>0, <3>1
    <3> QED BY <1>2, <3>1, <3>2, EvictOneEntryEvicts
  <2>3. CASE InsertPublish(t)
    BY <1>2, <2>3, InsertMaps
  <2>4. CASE Free(t)
    BY <1>2, <2>4, FreeMaps
  <2>5. CASE \/ SkipDurable(t) \/ EndNormal(t) \/ SetCapacityUnlock(t)
             \/ PruneUnlock(t)
    BY <1>2, <2>5, SilentSteps
  <2> QED BY <1>2, <2>1, <2>2, <2>3, <2>4, <2>5 DEF Proceed
<1>3. UNCHANGED vars => UNCHANGED Cache!cacheVars
  BY DEF vars, Cache!cacheVars, Published, Allocated
<1> QED BY <1>1, <1>2, <1>3 DEF Next

\* The code of a shard keeps the promise of the Cache interface: clients can
\* rely on CacheSpec alone, as BlockCacheInvertedLists does.
THEOREM ShardImplementsCache == Spec => ImplementsCacheSpec
<1>1. Init => Cache!Init
  BY DEF Init, Cache!Init, Published, Allocated
<1> QED BY <1>1, NextMaps, Invariance, PTL DEF Spec, ImplementsCacheSpec, Cache!Spec
=============================================================================
