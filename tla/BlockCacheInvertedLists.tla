---------------------- MODULE BlockCacheInvertedLists ----------------------
(***************************************************************************)
(* Inverted lists of an IVF-PQ index read on demand through the index      *)
(* cache: class BlockCacheInvertedLists of tenann/index/index_ivfpq_reader *)
(* and the search threads that scan lists with it (scan_list_func of       *)
(* tenann/index/internal/index_ivfpq.cc).                                  *)
(*                                                                         *)
(* An instance is one opened index: a file descriptor with its position, a *)
(* cache handle and a lock per list.  Instances share the cache, which is  *)
(* the one of CacheSpec.tla: it may drop any entry that nobody holds.  An  *)
(* entry stands for the buffer, the IndexRef and the LRUHandle made for    *)
(* it.  get_ptr is one step per system call and per critical section of    *)
(* the cache.                                                              *)
(***************************************************************************)
EXTENDS Naturals, FiniteSets

CONSTANTS
    File,          \* index files
    Instance,      \* BlockCacheInvertedLists objects
    Thread,        \* search threads
    FileOf,        \* instance -> the file it has opened
    InstanceOf,    \* thread -> the instance it searches
    Entry,         \* buffers that can be allocated
    NList,         \* nlist
    Sizes,         \* list -> number of vectors in it
    OneEntrySize,  \* one_entry_size
    StartOffset,   \* start_offset
    BlockSize,     \* block_size
    TailSize,      \* bytes of the file after the lists
    Nil

List == 0..(NList - 1)

ASSUME BlockCacheAssumption ==
    /\ FileOf \in [Instance -> File]
    /\ InstanceOf \in [Thread -> Instance]
    /\ NList \in Nat \ {0}
    /\ Sizes \in [List -> Nat]
    /\ OneEntrySize \in Nat \ {0}
    /\ StartOffset \in Nat
    /\ BlockSize \in Nat \ {0}
    /\ TailSize \in Nat
    /\ IsFiniteSet(Instance) /\ IsFiniteSet(Thread)
    /\ Nil \notin Entry \cup Thread \cup (File \X Nat \X Nat)

VARIABLES
    map, handles, alive,  \* the cache
    opened,               \* instances whose descriptor is open
    pos,                  \* the position of each instance's descriptor
    cache_handles,        \* instance -> list -> the entry held
    invlist_locks,        \* instance -> list -> the thread that has the lock
    pc, list_no, phase,   \* where each thread is, for which list, codes or ids
    buffer,               \* the buffer a thread has allocated in get_ptr
    old,                  \* the handle swapped out of cache_handles
    codes, ids,           \* the pointers scodes and ids of scan_list_func
    content,              \* entry -> the bytes read into it
    leaked                \* buffers nobody can free any more

cacheVars == <<map, handles, alive>>
vars == <<map, handles, alive, opened, pos, cache_handles, invlist_locks, pc,
          list_no, phase, buffer, old, codes, ids, content, leaked>>

CacheKey == File \X List

Cache == INSTANCE CacheSpec WITH Key <- CacheKey

-----------------------------------------------------------------------------
\* Where read_ArrayInvertedLists puts the lists: one after the other.
Offset[l \in 0..NList] ==
    IF l = 0 THEN StartOffset
    ELSE Offset[l - 1] + Sizes[l - 1] * OneEntrySize

TotSize == Offset[NList] + TailSize

\* The blocks get_ptr reads for a list, and where the list is in them.
AlignedOffset(l) == (Offset[l] \div BlockSize) * BlockSize
OffsetDifference(l) == Offset[l] - AlignedOffset(l)

\* (Mutant of AlignedSize: the bytes before the list are left out.)
AlignedSizeShort(l) ==
    ((Sizes[l] * OneEntrySize + BlockSize - 1) \div BlockSize) * BlockSize

AlignedSize(l) ==
    ((OffsetDifference(l) + Sizes[l] * OneEntrySize + BlockSize - 1)
        \div BlockSize) * BlockSize

\* What read() returns for n bytes at position p.
ReadSize(p, n) ==
    IF TotSize <= p THEN 0 ELSE IF TotSize - p < n THEN TotSize - p ELSE n

ExpectedReadSize(l) == ReadSize(AlignedOffset(l), AlignedSize(l))

-----------------------------------------------------------------------------
Init ==
    /\ Cache!Init
    /\ opened = Instance
    /\ pos = [i \in Instance |-> 0]
    /\ cache_handles = [i \in Instance |-> [l \in List |-> Nil]]
    /\ invlist_locks = [i \in Instance |-> [l \in List |-> Nil]]
    /\ pc = [t \in Thread |-> "idle"]
    /\ list_no = [t \in Thread |-> 0]
    /\ phase = [t \in Thread |-> "codes"]
    /\ buffer = [t \in Thread |-> Nil]
    /\ old = [t \in Thread |-> Nil]
    /\ codes = [t \in Thread |-> Nil]
    /\ ids = [t \in Thread |-> Nil]
    /\ content = [e \in Entry |-> Nil]
    /\ leaked = {}

\* Mutant of KeyFor: the key leaves out the file.
KeyForgetsFile(t) == <<CHOOSE f \in File : TRUE, list_no[t]>>

\* cache_keys[list_no] of the thread's index.
KeyFor(t) == <<FileOf[InstanceOf[t]], list_no[t]>>

\* Buffers the allocator can hand out.
Unused == Entry \ (alive \cup leaked \cup {buffer[t] : t \in Thread})

\* get_ptr returns e, to get_codes and then to get_ids.
Return(t, e) ==
    /\ \/ /\ phase[t] = "codes"
          /\ codes' = [codes EXCEPT ![t] = e]
          /\ phase' = [phase EXCEPT ![t] = "ids"]
          /\ pc' = [pc EXCEPT ![t] = "lookup"]
          /\ UNCHANGED ids
       \/ /\ phase[t] = "ids"
          /\ ids' = [ids EXCEPT ![t] = e]
          /\ pc' = [pc EXCEPT ![t] = "scan"]
          /\ UNCHANGED <<codes, phase>>

\* scan_list_func is left: the pointers go out of scope.
Leave(t) ==
    /\ pc' = [pc EXCEPT ![t] = "idle"]
    /\ phase' = [phase EXCEPT ![t] = "codes"]
    /\ codes' = [codes EXCEPT ![t] = Nil]
    /\ ids' = [ids EXCEPT ![t] = Nil]

\* *handle = IndexCacheHandle(...): the handle kept for the list and the new
\* one change places; the temporary with the old one is destroyed next, with
\* the lock still held.
SwapHandle(t, e) ==
    LET i == InstanceOf[t]
        l == list_no[t]
    IN  /\ cache_handles' = [cache_handles EXCEPT ![i][l] = e]
        /\ old' = [old EXCEPT ![t] = cache_handles[i][l]]
        /\ \/ /\ cache_handles[i][l] # Nil
              /\ invlist_locks' = [invlist_locks EXCEPT ![i][l] = t]
              /\ pc' = [pc EXCEPT ![t] = "swap"]
              /\ UNCHANGED <<codes, ids, phase>>
           \/ /\ cache_handles[i][l] = Nil
              /\ Return(t, e)
              /\ UNCHANGED invlist_locks

CanLock(t) == invlist_locks[InstanceOf[t]][list_no[t]] = Nil

-----------------------------------------------------------------------------
\* scan_list_func begins with a list that is not empty.
ScanList(t, l) ==
    /\ pc[t] = "idle"
    /\ InstanceOf[t] \in opened
    /\ Sizes[l] > 0
    /\ list_no' = [list_no EXCEPT ![t] = l]
    /\ pc' = [pc EXCEPT ![t] = "lookup"]
    /\ UNCHANGED <<cacheVars, opened, pos, cache_handles, invlist_locks, phase,
                   buffer, old, codes, ids, content, leaked>>

\* Mutant of LookupHit: the entry found is not pinned.
LookupHitUnpinned(t) ==
    /\ pc[t] = "lookup"
    /\ CanLock(t)
    /\ map[KeyFor(t)] # Nil
    /\ SwapHandle(t, map[KeyFor(t)])
    /\ UNCHANGED <<cacheVars, opened, pos, list_no, buffer, content, leaked>>

\* The first critical section of get_ptr.
LookupHit(t) ==
    /\ pc[t] = "lookup"
    /\ CanLock(t)
    /\ Cache!Lookup(KeyFor(t))
    /\ SwapHandle(t, map[KeyFor(t)])
    /\ UNCHANGED <<opened, pos, list_no, buffer, content, leaked>>

LookupMiss(t) ==
    /\ pc[t] = "lookup"
    /\ CanLock(t)
    /\ map[KeyFor(t)] = Nil
    /\ pc' = [pc EXCEPT ![t] = "alloc"]
    /\ UNCHANGED <<cacheVars, opened, pos, cache_handles, invlist_locks,
                   list_no, phase, buffer, old, codes, ids, content, leaked>>

\* The destructor of the temporary handle; the lock is given back.
ReleaseOld(t) ==
    /\ pc[t] = "swap"
    /\ Cache!Release(old[t])
    /\ old' = [old EXCEPT ![t] = Nil]
    /\ invlist_locks' = [invlist_locks EXCEPT ![InstanceOf[t]][list_no[t]] = Nil]
    /\ Return(t, cache_handles[InstanceOf[t]][list_no[t]])
    /\ UNCHANGED <<opened, pos, cache_handles, list_no, buffer, content, leaked>>

\* posix_memalign
Allocate(t) ==
    /\ pc[t] = "alloc"
    /\ \E e \in Unused : buffer' = [buffer EXCEPT ![t] = e]
    /\ pc' = [pc EXCEPT ![t] = "seek"]
    /\ UNCHANGED <<cacheVars, opened, pos, cache_handles, invlist_locks,
                   list_no, phase, old, codes, ids, content, leaked>>

AllocateFails(t) ==
    /\ pc[t] = "alloc"
    /\ Leave(t)
    /\ UNCHANGED <<cacheVars, opened, pos, cache_handles, invlist_locks,
                   list_no, buffer, old, content, leaked>>

\* lseek
Seek(t) ==
    /\ pc[t] = "seek"
    /\ pos' = [pos EXCEPT ![InstanceOf[t]] = AlignedOffset(list_no[t])]
    /\ pc' = [pc EXCEPT ![t] = "read"]
    /\ UNCHANGED <<cacheVars, opened, cache_handles, invlist_locks, list_no,
                   phase, buffer, old, codes, ids, content, leaked>>

\* read, from wherever the descriptor stands, when it returns as many bytes as
\* the list asks for ...
Read(t) ==
    LET i == InstanceOf[t]
        l == list_no[t]
        n == ReadSize(pos[i], AlignedSize(l))
    IN  /\ pc[t] = "read"
        /\ n = ExpectedReadSize(l)
        /\ pos' = [pos EXCEPT ![i] = @ + n]
        /\ content' = [content EXCEPT ![buffer[t]] = <<FileOf[i], pos[i], n>>]
        /\ pc' = [pc EXCEPT ![t] = "insert"]
        /\ UNCHANGED <<cacheVars, opened, cache_handles, invlist_locks, list_no,
                       phase, buffer, old, codes, ids, leaked>>

\* Mutant of ReadFails: the read is tried again, without end.
ReadFailsRetries(t) ==
    /\ pc[t] = "read"
    /\ pc' = [pc EXCEPT ![t] = "seek"]
    /\ UNCHANGED <<cacheVars, opened, pos, cache_handles, invlist_locks, list_no,
                   phase, buffer, old, codes, ids, content, leaked>>

\* ... and when it does not: the exception leaves get_ptr and scan_list_func,
\* and nothing frees the buffer.
ReadFails(t) ==
    /\ pc[t] = "read"
    /\ pos' = [pos EXCEPT ![InstanceOf[t]] =
                 @ + ReadSize(@, AlignedSize(list_no[t]))]
    /\ leaked' = leaked \cup {buffer[t]}
    /\ buffer' = [buffer EXCEPT ![t] = Nil]
    /\ Leave(t)
    /\ UNCHANGED <<cacheVars, opened, cache_handles, invlist_locks, list_no,
                   old, content>>

\* The second critical section of get_ptr.
InsertBuffer(t) ==
    /\ pc[t] = "insert"
    /\ CanLock(t)
    /\ Cache!Insert(KeyFor(t), buffer[t])
    /\ SwapHandle(t, buffer[t])
    /\ buffer' = [buffer EXCEPT ![t] = Nil]
    /\ UNCHANGED <<opened, pos, list_no, content, leaked>>

\* scan_codes_range is over.
ScanDone(t) ==
    /\ pc[t] = "scan"
    /\ Leave(t)
    /\ UNCHANGED <<cacheVars, opened, pos, cache_handles, invlist_locks,
                   list_no, buffer, old, content, leaked>>

-----------------------------------------------------------------------------
\* The destructor closes the descriptor, then destroys the handles one by one.
\* An index is destroyed when nobody searches it any more.
Destroy(i) ==
    /\ i \in opened
    /\ \A t \in Thread : InstanceOf[t] = i => pc[t] = "idle"
    /\ opened' = opened \ {i}
    /\ UNCHANGED <<cacheVars, pos, cache_handles, invlist_locks, pc, list_no,
                   phase, buffer, old, codes, ids, content, leaked>>

\* Mutant of DestroyHandle: the handle is dropped without a release.
DestroyHandleLeaks(i, l) ==
    /\ i \notin opened
    /\ cache_handles[i][l] # Nil
    /\ cache_handles' = [cache_handles EXCEPT ![i][l] = Nil]
    /\ UNCHANGED <<cacheVars, opened, pos, invlist_locks, pc, list_no, phase,
                   buffer, old, codes, ids, content, leaked>>

DestroyHandle(i, l) ==
    /\ i \notin opened
    /\ cache_handles[i][l] # Nil
    /\ Cache!Release(cache_handles[i][l])
    /\ cache_handles' = [cache_handles EXCEPT ![i][l] = Nil]
    /\ UNCHANGED <<opened, pos, invlist_locks, pc, list_no, phase, buffer, old,
                   codes, ids, content, leaked>>

\* The index is read again: read_ArrayInvertedLists makes a new object.
Reopen(i) ==
    /\ i \notin opened
    /\ \A l \in List : cache_handles[i][l] = Nil
    /\ opened' = opened \cup {i}
    /\ pos' = [pos EXCEPT ![i] = 0]
    /\ UNCHANGED <<cacheVars, cache_handles, invlist_locks, pc, list_no, phase,
                   buffer, old, codes, ids, content, leaked>>

\* What the cache does on its own, or for its other users.
Evict(e) ==
    /\ Cache!Evict(e)
    /\ UNCHANGED <<opened, pos, cache_handles, invlist_locks, pc, list_no, phase,
                   buffer, old, codes, ids, content, leaked>>

Free(e) ==
    /\ Cache!Free(e)
    /\ content' = [content EXCEPT ![e] = Nil]
    /\ UNCHANGED <<opened, pos, cache_handles, invlist_locks, pc, list_no, phase,
                   buffer, old, codes, ids, leaked>>

-----------------------------------------------------------------------------
\* A step of scan_list_func once it has begun.
Proceed(t) ==
    \/ LookupHit(t) \/ LookupMiss(t) \/ ReleaseOld(t)
    \/ Allocate(t) \/ AllocateFails(t) \/ Seek(t) \/ Read(t) \/ ReadFails(t)
    \/ InsertBuffer(t) \/ ScanDone(t)

Next ==
    \/ \E t \in Thread : Proceed(t) \/ \E l \in List : ScanList(t, l)
    \/ \E i \in Instance : \/ Destroy(i) \/ Reopen(i)
                           \/ \E l \in List : DestroyHandle(i, l)
    \/ \E e \in Entry : Evict(e) \/ Free(e)

Spec == Init /\ [][Next]_vars

\* A search thread that has begun runs on.
FairSpec == Spec /\ \A t \in Thread : WF_vars(Proceed(t))

-----------------------------------------------------------------------------
(***************************************************************************)
(* Properties                                                              *)
(***************************************************************************)

\* Every variable has the type of the member or local it stands for.
TypeOK ==
    /\ map \in [CacheKey -> Entry \cup {Nil}]
    /\ handles \in [Entry -> Nat]
    /\ alive \subseteq Entry
    /\ opened \subseteq Instance
    /\ pos \in [Instance -> Nat]
    /\ cache_handles \in [Instance -> [List -> Entry \cup {Nil}]]
    /\ invlist_locks \in [Instance -> [List -> Thread \cup {Nil}]]
    /\ pc \in [Thread -> {"idle", "lookup", "swap", "alloc", "seek", "read",
                          "insert", "scan"}]
    /\ list_no \in [Thread -> List]
    /\ phase \in [Thread -> {"codes", "ids"}]
    /\ buffer \in [Thread -> Entry \cup {Nil}]
    /\ old \in [Thread -> Entry \cup {Nil}]
    /\ codes \in [Thread -> Entry \cup {Nil}]
    /\ ids \in [Thread -> Entry \cup {Nil}]
    /\ content \in [Entry -> (File \X Nat \X Nat) \cup {Nil}]
    /\ leaked \subseteq Entry

\* The memory a search thread has a pointer to has not been freed: the handle
\* in cache_handles outlives every pointer get_codes and get_ids returned
\* ("Keep references to cache handles, otherwise the allocated memory may be
\* clean").
NoDangling ==
    \A t \in Thread : {codes[t], ids[t]} \ {Nil} \subseteq alive

\* c holds all bytes of list l of file f, where get_ptr looks for them.
Holds(c, f, l) ==
    /\ c # Nil
    /\ c[1] = f
    /\ c[2] + OffsetDifference(l) = Offset[l]
    /\ c[2] + c[3] >= Offset[l] + Sizes[l] * OneEntrySize

\* What is cached for a list is that list: no interleaving of seeks and reads
\* leaves the blocks of another list, or a part of them, under its key.
CachedIsTheList ==
    \A f \in File, l \in List :
        map[<<f, l>>] # Nil => Holds(content[map[<<f, l>>]], f, l)

\* A thread that scans a list reads that list of its own file.
ScansTheList ==
    \A t \in Thread : pc[t] = "scan" =>
        \A e \in {codes[t], ids[t]} :
            Holds(content[e], FileOf[InstanceOf[t]], list_no[t])

\* Every handle is where somebody will release it, once: in cache_handles, or
\* in the temporary of a thread that is swapping.
HandlesAccounted ==
    \A e \in Entry :
        handles[e] =
          Cardinality({p \in Instance \X List : cache_handles[p[1]][p[2]] = e})
          + Cardinality({t \in Thread : old[t] = e})

\* Every scan that begins ends.
ScanEnds == \A t \in Thread : pc[t] # "idle" ~> pc[t] = "idle"

=============================================================================
