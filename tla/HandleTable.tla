---------------------------- MODULE HandleTable ----------------------------
(***************************************************************************)
(* The hash table of a shard: class HandleTable of tenann/store/           *)
(* lru_cache.{h,cc}.  Buckets are the heads of chains linked through the   *)
(* next_hash field of the entries; the table doubles when it holds more    *)
(* entries than buckets.  All calls are made with the shard's mutex held,  *)
(* so each is one step; _resize, which ends an insert, is taken apart into *)
(* the turns of its loops, and no call starts before it is done.           *)
(***************************************************************************)
EXTENDS Naturals, FiniteSets

CONSTANTS
    Key,       \* cache keys
    Entry,     \* LRUHandle addresses
    Nil,       \* the null pointer
    KeyOf(_),  \* the key stored in an entry
    Hash(_)    \* the hash of a key, stored in the entry

ASSUME HandleTableAssumption ==
    /\ IsFiniteSet(Entry)
    /\ Nil \notin Entry
    /\ \A e \in Entry : KeyOf(e) \in Key
    /\ \A k \in Key : Hash(k) \in Nat

VARIABLES
    length,     \* _length
    elems,      \* _elems
    list,       \* _list: bucket -> first entry of the chain
    next_hash,  \* entry -> next entry of the chain
    ret,        \* what the last call returns
    pc,         \* "idle", or the loop of _resize: "grow" or "move"
    new_length, new_list, i, h, count  \* locals of _resize

locals == <<new_length, new_list, i, h, count>>
vars == <<length, elems, list, next_hash, ret, pc, locals>>

MinLength == 4

\* What is reached from x in as many turns of a loop as there are entries.
Iterate(f, x) ==
    LET turn[n \in 0..Cardinality(Entry)] == IF n = 0 THEN x ELSE f[turn[n - 1]]
    IN  turn[Cardinality(Entry)]

\* The entries of the chain that starts at first.
Chain(links, first) ==
    Iterate([met \in SUBSET Entry |-> met \cup ({links[e] : e \in met} \ {Nil})],
            {first} \ {Nil})

\* The entries that _resize has yet to move, which are all when it is not at
\* work, and those in the new buckets.
OldBuckets == {b \in 0..(length - 1) : pc = "move" => b > i}
Unmoved == Chain(next_hash, h) \cup UNION {Chain(next_hash, list[b]) : b \in OldBuckets}
Moved == UNION {Chain(next_hash, new_list[b]) : b \in DOMAIN new_list}

\* The entries of the table.
Linked == Unmoved \cup Moved

-----------------------------------------------------------------------------
\* A slot is a bucket or the next_hash field of an entry: an LRUHandle**.
Bucket(b) == <<"list", b>>
NextOf(e) == <<"next_hash", e>>
Slot == {Bucket(b) : b \in 0..(length - 1)} \cup {NextOf(e) : e \in Entry}
Deref(ptr) == IF ptr[1] = "list" THEN list[ptr[2]] ELSE next_hash[ptr[2]]

\* *ptr = e, the links being n.
Store(ptr, e, n) ==
    IF ptr[1] = "list"
    THEN list' = [list EXCEPT ![ptr[2]] = e] /\ next_hash' = n
    ELSE list' = list /\ next_hash' = [n EXCEPT ![ptr[2]] = e]

\* Mutant of Stops: an entry with the hash of k is taken for the entry of k.
StopsByHash(e, k) == e # Nil => Hash(KeyOf(e)) = Hash(k)

\* The condition of the loop of _find_pointer, negated.
Stops(e, k) == e # Nil => Hash(KeyOf(e)) = Hash(k) /\ KeyOf(e) = k

\* The loop of _find_pointer from ptr: to the slot that holds the entry of k,
\* or to the trailing slot.
Walk(ptr, k) ==
    Iterate([p \in Slot |-> IF Stops(Deref(p), k) THEN p ELSE NextOf(Deref(p))], ptr)

\* Mutant of FindPointer: the mask is that of the first table.
FindPointerStaleMask(k) == Walk(Bucket(Hash(k) % MinLength), k)

\* hash & (_length - 1), _length being a power of two.
FindPointer(k) == Walk(Bucket(Hash(k) % length), k)

-----------------------------------------------------------------------------
NoList == [b \in {} |-> Nil]

\* The constructor resizes an empty table.
Init ==
    /\ length = MinLength
    /\ elems = 0
    /\ list = [b \in 0..(MinLength - 1) |-> Nil]
    /\ next_hash = [e \in Entry |-> Nil]
    /\ ret = Nil
    /\ pc = "idle"
    /\ new_length = 0 /\ new_list = NoList /\ i = 0 /\ h = Nil /\ count = 0

Lookup(k) ==
    /\ pc = "idle"
    /\ ret' = Deref(FindPointer(k))
    /\ UNCHANGED <<length, elems, list, next_hash, pc, locals>>

\* What insert does when the table holds n entries: it is done, or _resize
\* begins.
Counted(n) ==
    /\ elems' = n
    /\ IF n > length THEN pc' = "grow" /\ new_length' = MinLength
                     ELSE UNCHANGED <<pc, new_length>>

\* Mutant of Insert: an entry that takes the place of another is counted too.
InsertCountsTwice(e) ==
    /\ pc = "idle"
    /\ e \notin Linked
    /\ LET ptr == FindPointer(KeyOf(e))
           old == Deref(ptr)
           rest == IF old = Nil THEN Nil ELSE next_hash[old]
       IN  /\ ret' = old
           /\ Store(ptr, e, [next_hash EXCEPT ![e] = rest])
           /\ Counted(elems + 1)
    /\ UNCHANGED <<length, new_list, i, h, count>>

\* insert: e, which the shard has just allocated, takes the place of the entry
\* with its key, or goes to the end of the chain, after which the table may
\* have to grow.
Insert(e) ==
    /\ pc = "idle"
    /\ e \notin Linked
    /\ LET ptr == FindPointer(KeyOf(e))
           old == Deref(ptr)
           rest == IF old = Nil THEN Nil ELSE next_hash[old]
       IN  /\ ret' = old
           /\ Store(ptr, e, [next_hash EXCEPT ![e] = rest])
           /\ Counted(IF old = Nil THEN elems + 1 ELSE elems)
    /\ UNCHANGED <<length, new_list, i, h, count>>

Remove(k) ==
    /\ pc = "idle"
    /\ LET ptr == FindPointer(k)
           result == Deref(ptr)
       IN  /\ ret' = result
           /\ IF result = Nil
              THEN UNCHANGED <<elems, list, next_hash>>
              ELSE /\ Store(ptr, next_hash[result], next_hash)
                   /\ elems' = elems - 1
    /\ UNCHANGED <<length, pc, locals>>

\* _resize: the new length is doubled until it holds the elements, ...
Grow ==
    /\ pc = "grow"
    /\ new_length < elems
    /\ new_length' = new_length * 2
    /\ UNCHANGED <<length, elems, list, next_hash, ret, pc, new_list, i, h, count>>

\* ... the new buckets are allocated and the first old bucket is read, ...
Allocate ==
    /\ pc = "grow"
    /\ new_length >= elems
    /\ pc' = "move"
    /\ new_list' = [b \in 0..(new_length - 1) |-> Nil]
    /\ count' = 0
    /\ i' = 0 /\ h' = list[0]
    /\ UNCHANGED <<length, elems, list, next_hash, ret, new_length>>

\* ... a chain is pushed entry by entry on the new chains, ...
MoveEntry ==
    /\ pc = "move" /\ h # Nil
    /\ LET b == Hash(KeyOf(h)) % new_length
       IN  /\ next_hash' = [next_hash EXCEPT ![h] = new_list[b]]
           /\ new_list' = [new_list EXCEPT ![b] = h]
    /\ h' = next_hash[h]
    /\ count' = count + 1
    /\ UNCHANGED <<length, elems, list, ret, pc, new_length, i>>

\* ... bucket by bucket, ...
NextBucket ==
    /\ pc = "move" /\ h = Nil /\ i + 1 < length
    /\ i' = i + 1 /\ h' = list[i + 1]
    /\ UNCHANGED <<length, elems, list, next_hash, ret, pc, new_length, new_list, count>>

\* ... and the new buckets take the place of the old ones, provided that every
\* element was met.  (Otherwise the process is aborted.)
Swap ==
    /\ pc = "move" /\ h = Nil /\ i + 1 = length
    /\ elems = count
    /\ list' = new_list /\ length' = new_length
    /\ pc' = "idle"
    /\ new_length' = 0 /\ new_list' = NoList /\ i' = 0 /\ count' = 0
    /\ UNCHANGED <<elems, next_hash, ret, h>>

Next ==
    \/ \E k \in Key : Lookup(k) \/ Remove(k)
    \/ \E e \in Entry : Insert(e)
    \/ Grow \/ Allocate \/ MoveEntry \/ NextBucket \/ Swap

Spec == Init /\ [][Next]_vars

-----------------------------------------------------------------------------
\* Counters, buckets, links and locals have the types of the members.
TypeOK ==
    /\ length \in Nat \ {0} /\ elems \in Nat /\ count \in Nat /\ new_length \in Nat
    /\ list \in [0..(length - 1) -> Entry \cup {Nil}]
    /\ next_hash \in [Entry -> Entry \cup {Nil}]
    /\ ret \in Entry \cup {Nil} /\ h \in Entry \cup {Nil}
    /\ pc \in {"idle", "grow", "move"}
    /\ i \in 0..(length - 1)
    /\ new_list \in [IF pc = "move" THEN 0..(new_length - 1) ELSE {} -> Entry \cup {Nil}]

\* _elems counts the entries of the table, also while _resize moves them, and
\* count the entries it has moved, so that its check that every element was met
\* never fails.  Between calls no chain is longer than one on average.
ElemsCountsLinked ==
    /\ elems = Cardinality(Linked)
    /\ count = Cardinality(Moved)
    /\ pc = "idle" => elems <= length

\* Every entry is reached from the bucket of its hash, in the old buckets and
\* in the new ones, and no two of the table have a key in common.
ChainsPartitionKeys ==
    /\ \A b \in OldBuckets : \A e \in Chain(next_hash, list[b]) : Hash(KeyOf(e)) % length = b
    /\ \A b \in DOMAIN new_list : \A e \in Chain(next_hash, new_list[b]) :
         Hash(KeyOf(e)) % new_length = b
    /\ \A d, e \in Linked : KeyOf(d) = KeyOf(e) => d = e

\* The table implements the map that the shard works with: a key is mapped to
\* the entry of the table that has it.
EntryOf(S) ==
    [k \in Key |-> IF \E e \in S : KeyOf(e) = k THEN CHOOSE e \in S : KeyOf(e) = k ELSE Nil]
Map == INSTANCE KeyMap WITH map <- EntryOf(Linked)
ImplementsKeyMap == Map!Spec

=============================================================================
