# TLA+ verification of TenANN

TenANN (`src/tenann`) is a C++ library for vector indexes: it builds HNSW and
IVF-PQ indexes with faiss, writes them to files, reads them back through a
process-wide cache and searches them. This directory holds TLA+ models of the
parts of it that keep state, TLC configurations that check them on small
instances, and TLAPS proofs for every size.

## The system

| Part | State | Operations | What is hard | What makes it correct |
|---|---|---|---|---|
| Shard of the LRU cache (`store/lru_cache`, `LRUCache`) | hash table, LRU list, `_usage`, `_capacity`, counters, a mutex; per entry `refs`, `in_cache`, `charge`, `priority` | lookup, insert, release, erase, set_capacity, prune | list membership is inferred from `refs`; refunds in six places; deleters run outside the mutex | usage is exact, a held entry is never freed, a dropped entry is freed once, over capacity only with held entries, eviction order |
| Hash table (`HandleTable`) | buckets, chains, `_elems` | lookup, insert, remove, `_resize` | collisions, growing | it is a map; growing loses nothing |
| Sharded cache (`ShardedLRUCache`) | two shards, `_capacity`, `_last_id` | routing, set/adjust capacity, statistics | capacity set shard by shard, sums not atomic, wrap-around | shards agree when nobody resizes; `adjust_capacity` respects its minimum |
| Index cache and handles (`index/index_cache`) | a handle owns one reference | Lookup, Insert, move, destructor | assignment swaps and releases | each handle is released once |
| Inverted lists through the cache (`index/index_ivfpq_reader`, `BlockCacheInvertedLists`) | descriptor and its position, handle and lock per list | get_codes, get_ids (get_ptr), destructor | many search threads, `lseek` then `read`, pointers used after the lock | a pointer in use is alive and shows the right list |
| IVF-PQ index (`index/internal/index_ivfpq`) | inverted lists, reconstruction errors | add, search, range search in parallel | results merged from threads, exceptions inside | every list scanned once; errors aligned with lists |
| Builders (`builder/`) | open/closed, row buffers, faiss index | Open, Add (plain, with ids, with null flags), Flush, Close | training is delayed to the first Flush; calls may fail and be repeated | what is flushed is what was added |
| Reader, writer (`index/index_reader`, `index_writer`) | cache handle, options | ReadIndex, WriteIndex | cache written before the file; overwrites | a hit is what was written |
| Searchers (`searcher/`) | index reference, raw pointers, parameters | ReadIndex, AnnSearch, RangeSearch, SetSearchParams | reloading, limits, filters | results against a reference definition |
| Runtime profile, spin lock, object pool (`util/`) | counter trees, locks | add, merge, update | lock order in merges | no deadlock, sums kept |
| Metadata, parameters, distances, factory, logging, bindings, benchmarks | – | – | pure functions or glue | – |

Interactions: a builder hands its index to a writer, which inserts it into the
global `IndexCache` and writes the file; a searcher's reader looks an index up
in that cache or reads the file; an IVF-PQ index read with the block cache
fetches its inverted lists through the same cache, from every search thread.
Every entry of the cache is reference-counted by the handles of these clients.

## Modules

| Module | Models |
|---|---|
| `LRUCache` | one shard and the threads that call it |
| `CacheSpec` | what the `Cache` interface promises: the abstract specification `LRUCache` implements |
| `HandleTable`, `KeyMap` | the hash table on the level of buckets and links, and the map it implements |
| `ShardedLRUCache` | two shards, the capacity that is divided between them, statistics and pruning |
| `BlockCacheInvertedLists` | inverted lists on top of the actions of `CacheSpec`, with the scanning threads |
| `IndexStore` | whole indexes on top of the actions of `CacheSpec`: writer, readers, searchers that load |
| `IndexBuilder` | the builders' life cycle, with and without row buffers |
| `HnswRangeSearch` | a search of the HNSW searcher: descent, expansion, limits, filters, id map |
| `IvfPqRangeSearch` | adding to an IVF-PQ index and a range search of it, with threads; brute force as the reference |
| `AnnSearcher` | what both searches share: the call, the caller's result vectors, the conversion of ranges and distances |
| `DistanceUtil` | conversions between distances and cosine similarities, used by both searches |
| `RuntimeProfile` | counter trees and child profiles, merging and copying between two of them |
| `MC*` and `*.cfg` | instances for TLC |
| `LRUCacheProofs`, `HandleTableProofs`, `ShardedLRUCacheProofs`, `IndexStoreProofs`, `BlockCacheProofs`, `IndexBuilderProofs`, `RuntimeProfileProofs` | proofs about the module of the same name |
| `RangeSearchProofs` | proofs about `HnswRangeSearch` and `IvfPqRangeSearch` |

Composition: `LRUCache` implements `CacheSpec` (checked and proved), and
`BlockCacheInvertedLists` and `IndexStore` instantiate `CacheSpec` and use its
actions as the calls into the cache. `HandleTable` implements `KeyMap`, which is
the `table` of `LRUCache`.

`LRUCache`. Variables carry the names of the members; `key`, `charge`, `priority`,
`refs`, `in_cache` are the fields of `LRUHandle`, indexed by entry (an address;
an address that was freed may be used again). `lookup`, `release` and `erase`
are one critical section and one step each. `insert`, `set_capacity` and `prune`
take the mutex, run their loops one iteration per step (`pc` is `"normal"` and
`"durable"` for the two passes of `_evict_from_lru`, `"prune"` for `prune`), and
give it back. The entries they dropped are then freed one per step (`Free`),
interleaved with everything other threads do. `handles` counts the handles that
clients hold; a client releases only handles it holds, which is the documented
precondition of `release`. `table` is a function; `HandleTable` justifies that.
`size_t` does not wrap here: the sum of all charges is far below 2^64.

`HandleTable`. The calls are made with the shard's mutex held, so `lookup`, `remove`
and the part of `insert` before `_resize` are one step each. `_find_pointer` walks
over slots (a bucket, or the `next_hash` field of an entry), for as many turns as
there are entries. `_resize` is taken apart into the turns of its loops - doubling
the length, moving an entry, going to the next bucket - and the swap of the
arrays, so that the properties are also about a table half way through. For
`KeyMap` an insert has its effect in its first step, and resizing has none. Hashes
are numbers, `hash & (_length - 1)` is the remainder, and `uint32_t` does not wrap:
there are fewer than 2^31 entries.

`BlockCacheInvertedLists`. An instance is one opened index. `get_ptr` is one step
per critical section and system call: `LookupHit`/`LookupMiss`, `Allocate`,
`Seek`, `Read`, `InsertBuffer`; `*handle = IndexCacheHandle(...)` is `SwapHandle`
followed by `ReleaseOld`, with the list's lock held. `pos` is the position of
the descriptor, `content` the range of bytes that a buffer was filled with.
Offsets and sizes follow `read_ArrayInvertedLists` and the alignment arithmetic
of `get_ptr`; the file goes on after the lists (`TailSize`). Failures of
`posix_memalign` and `read` are steps; a failed `lseek` leaves the same state as
a failed `read` and is covered by it. The cache may evict and free at any time
what nobody holds. An index is destroyed only when no thread searches it, as its
`IndexRef` guarantees.

`IndexBuilder`. `with_buffer` is the class of the builder. Rows are numbers; the faiss index
is the sequence of vector/id pairs it was given; the caller's choices
(`inputs_live_longer_than_this`, null flags, empty batches, failing writes,
training on too few rows, opening again) are nondeterministic. `accepted` and
`promised` record what callers were told, `given` and `late` how they used the
builder; `Careful` is the discipline under which the buffering builder keeps
every row. Running out of memory and interrupts are left out, so `add` does not
fail once training has succeeded, and so is `write_index_cache`.
A null pointer that is followed ends
the behaviour (`crashed`).

`ShardedLRUCache`. One step per shard in the loops of `_set_capacity`, `_get_stat`
and `prune`; only `set_capacity`, `adjust_capacity` and `new_id` take `_mutex`. A
method of a shard is one step, and of a shard only the number of idle and of
pinned entries matters, each of charge one. `size_t` is arithmetic modulo
`2 * Half`, `int64_t` its two's complement, so the casts of `adjust_capacity`
are the code's. `seen` records the capacities that a running `get_capacity()`
may report.

`IndexStore`. A searcher runs in its own thread and owns a reader. `ReadIndex` is
`BeginRead`, then `LookupHit` or `LookupMiss`, `OpenFile`, `ReadFile`,
`InsertRead`, `ReleaseOld` (the destructor of the temporary that got the previous
handle, and the assignment to `index_ref_`) and `OnIndexLoaded`. `WriteIndex`
inserts into the cache, releases its handle, truncates the file and writes it; it
may return early (`memory_only`), fail to open the file, or fail half way. A
version that does not fit is one that `CheckAndUnpackHnsw` rejects. A read that a
write of the same path overlapped may give anything; `tainted` marks what came of
it, and everything a property says about freshness is about the rest. Versions of
an index are never changed in place. An index stays alive as long as some
`IndexRef` refers to it, so it is represented by what it was made from. The key of an
index in the cache is its path: the options' `custom_cache_key` is taken to be empty in
readers (`index_reader.cc:37`) and writers (`index_writer.cc:39`).

`HnswRangeSearch`. A vector is its distance from the query, a graph the neighbour
sets of each level. `GreedyUpdateNearest` is one round of the descent,
`ExpandCandidate` one round of the expansion; the heap of candidates keeps popped
entries in their slots, as faiss's `MinimaxHeap` does. `index.search` of faiss,
used when there is a limit and by `AnnSearch`, may return any ordered sequence of
members of the filter. Cosine similarities are counted in halves, so the
conversions are exact in integers.

`IvfPqRangeSearch`. For a fixed query a vector is the list it is assigned to, the
distance of its code, its reconstruction error and its real distance; the
assumption is the triangle inequality. `AddRow` and `EndBlock` are the loops of
`custom_add_core_o` (block size `bs`), and `AddInterrupted` the exceptions before a
block. In a search the threads take the next probe in any order (`parallel_mode`
1 and 2) or one thread takes all (0, a single query). The library leaves the mode at
faiss's default 0; the others are for users who set it on the faiss index. A list that cannot be read
sets `interrupt`. Ids are consecutive numbers, or the caller's, which are assumed to be
different for different rows. Distances are squares, as in faiss, and the comparisons of the code that
are between square roots are made between squares. Loops and queues are recursive
functions (`Kept`, `Heap`, `Sorted`, `Merged`), one value per turn. `BruteForceRangeSearch`
and `ReserveTopK` are those of `util/`.

`RuntimeProfile`. Methods that hold one lock are one step; `merge` and
`copy_all_counters_from` take the two locks in two steps and visit counters one
load and one store at a time, while `Update` (an atomic addition) needs no lock.
`merge` adds atomically (`Add`), except to the counters of type DOUBLE_VALUE (`Double`),
to which it adds with a load and a store (`LoadSum`, `StoreSum`). The history `updates`
counts what owners added to a counter since it was created; no call changes it.
A counter has the same parent in all profiles, children have no children, and
`TotalTime` is not removed; a client that breaks these breaks `CountersLinked`
(see Hazards).

## Runs

| Run | Shows |
|---|---|
| `shard` | for two threads, two keys, three entries: `UsageIsFootprint`, `LruIsIdle`, `OverCapacityOnlyPinned`, `HeldIsValid`, `DroppedIsFreedOnce`, `EvictionOrder`, the inductive invariant `IInv`, and that the shard implements `CacheSpec` |
| `shard_live` | every call returns, everything dropped is reclaimed |
| `hash_table` | the chains implement `KeyMap`, also across a resize; `_elems` is right |
| `sharded` | `ShardsFollow`, `IdleWithinCapacity`, `ReportedCapacityWasSet`, `AdjustIsExact`, with capacities that wrap |
| `lists_own_files` | different files, one thread per index: no dangling pointer (`NoDangling`), the right list (`ScansTheList`), the right bytes in the cache (`CachedIsTheList`), handles accounted for (`HandlesAccounted`), scans end (`ScanEnds`) |
| `lists_two_threads` | a counterexample, see below |
| `index_store` | what a cached reader serves is charged to the cache (`ServedIsPinned`), no handle is lost (`HandlesAccounted`), a read returns nothing older than the last complete write before it (`ReadIsFresh`) |
| `builder` | both builders, used in every way: for a careful client index and file hold exactly the accepted rows under their ids; for no client a row is indexed twice |
| `hnsw_search` | `AnswerIsSound`, `WideSearchIsExact`, `SearchEnds` |
| `ivfpq_search` | `ErrorsAligned`, `AnswerIsExact`, `FullConfidenceLosesNothing`, `MatchesBruteForce` |
| `profile` | the two maps of counters are one tree (`CountersLinked`), a merge loses no update that owners make meanwhile (`NoUpdateLost`), copies and DOUBLE_VALUE counters set apart |
| `profile_deadlock` | a counterexample to `CallsReturn`, see below |

Every module states a `TypeOK` (`IvfPqTypeOK` in `IvfPqRangeSearch`); `IInv` of
`LRUCache` contains it, and it can be added to the other configurations as an invariant.

Bounds. *Shard*: two threads are enough for a free in one to overlap any call of
the other; three entries give a cached, a replaced and a new one, or two
entries of different priority on the list and a third coming in; charges 1 and 2
with capacities 1 and 3 make inserts that fit, inserts that evict one or
several, and inserts that exceed the capacity; `MaxHandles` and `MaxLookups` only
cap counters. Threads, keys and entries are interchangeable in every definition,
so symmetry is sound; the runs with a liveness property do without it. *Hash table*: six keys
make the table grow once, with full and partial collisions. *Lists*: the first
list ends in the block in which the second begins and the file ends inside a
block; three buffers, one more than the threads fill at a time, are freed and used again. *Builder*:
up to five rows in batches of zero to two give several batches before and after
the first Flush; training needs two rows, so it fails with one.
*Sharded*: with `Half = 4` a `size_t` has three bits; capacities 1, 4 and 7 are
odd, at 2^63 and at the largest value, where `capacity + 1` wraps; deltas of two in
both directions overflow either type; the minima of `adjust_capacity` are 1 and 7.
*Index store*: two versions, one of which does not fit, and two searchers: either
both use the cache, one of them forced to read the file, with a writer that
writes the cache, or one uses it and the other does not, with a writer that
leaves the cache alone; three entries leave one for the writer. *HNSW*: all
directed graphs on three vectors below an upper level, distances with ties,
`efSearch` below, at and above what is needed, limits, filters and an id map that
is no identity. *IVF-PQ*: three rows in blocks of two into two lists, vectors whose
codes are exact, too near and too far, confidences 0, 1/2, 1 and one out of range,
two threads. *Profile*: two profiles and room for their children, three counters of
which one hangs under another, three operations of owners (`MaxOps`) and two calls
on both profiles (`MaxCalls`), which is what a deadlock takes; `n1` is a DOUBLE_VALUE.

Deadlock is checked in the cache, list and index-store runs. The builder run ends
when the bounds on rows and opens are used up, or with a crash; a search ends when
it has returned; the profile runs end when their bounds are used up, and the deadlock
that matters there is the subject of `CallsReturn` in `profile_deadlock`.

Fairness. `FairSpec` asks only that a thread inside a method goes on (weak
fairness of its steps), which the operating system's scheduler provides; nobody
is obliged to make a call, and nothing is assumed about the order in which a
mutex is granted. The searches and the profile ask the same of the thread that runs
them; in the profile calls are finitely many, so a mutex that is free in the end
is got.

### Where the code and its documents disagree

* `lists_two_threads`: two threads miss the same list; the second insert releases
  the entry whose buffer the first has returned. The lock that the header
  promises ends before the pointer is used. Two indexes of one file with a thread
  each run into the same problem (`MCBlockCacheOwn.cfg` with `File = {f1}`,
  `FileOf <- SameFile`, `NList = 1`, `Sizes <- OneSize`): `get_ids` may find an entry that
  the other index inserted after `get_codes`, and overwriting the handle frees the
  codes. `HandlesAccounted` and `ScanEnds` hold there too.
* `profile_deadlock`: a merge of `pB` into `pA` locks `pA` first, a copy from `pB` to `pA`
  locks `pB` first, and they wait for each other. The class says "Thread-safe"
  (`runtime_profile.h:64`) and excludes only merges in reverse order (`:320`). With
  `Calls <- OneOrder`, where both calls lock `pA` first, `CallsReturn` holds.

The following are found with the same modules and other constants:

* `CachedIsTheList` with `MCBlockCacheThreads.cfg`, `NList = 3` and
  `Sizes <- ThreeSizes`: `lseek` and `read` on the shared descriptor are not atomic;
  blocks of another list can be cached under a list's key.
* `IndexIsComplete` with `Buffered = {TRUE}`, `NullFlags = FALSE`, `MaxOpens = 1`: a
  batch kept by reference is forgotten when another was copied
  (`index_builder.h:60` says references suffice).
* `IndexIsComplete` with `Buffered = {TRUE}`, `Live = {FALSE}`, `MaxOpens = 1`: rows
  added with null flags after the first Flush are lost, although
  `index_builder.h:73` allows adding after it.
* `FlushedIsComplete` with `Buffered = {TRUE}`, `Live = {FALSE}`,
  `NullFlags = FALSE`: `Close` does not clear the buffers (a TODO says so), and the
  next build contains the old rows. These three are what `Careful` excludes.
* `AnswerIsSound` with `Apis = {"range_ids_only"}`: the overload of `RangeSearch`
  that returns only ids drops the filter it is given (`ann_searcher.cc:41`), which
  `ann_searcher.h` documents as the user's row id filter.
* `AnswerIsSound` with `CosineLimits = {0}`: the HNSW searcher takes a limit of 0 for no
  limit (`faiss_hnsw_ann_searcher.cc:171`) and returns all it finds, while
  `ann_searcher.h:65` says that limit is the maximum number of results and -1 disables
  it; the IVF-PQ searcher returns nothing for 0.
* `SearchesLiveIndex` in `MCIndexStore.cfg`: when `OnIndexLoaded` rejects an index,
  `ReadIndex` has already replaced `index_ref_`, `faiss_hnsw_` still points into the
  old index, which may be gone, and the next search is not refused
  (`searcher.h:50`).
* `EveryUpdateKept` in `MCRuntimeProfile.cfg`: an update of a DOUBLE_VALUE counter
  between the load and the store of a merge is lost (`Calls <- MergeOnly`), and a
  copy overwrites what was counted at its destination (`Double = {}`).

## Hazards the models set apart

Some preconditions are built into `Init` or a guard because the code relies on
them silently, and dropping them makes properties fail:

* search parameters are those that `Validate` accepts; `SetSearchParams` assigns
  them without validating;
* distances are below `FLT_MAX`: a larger radius would count faiss's padding
  (`-1`) as results;
* profiles that are merged agree on the parent of a counter, and copies are not
  attached under another counter; otherwise a counter is linked twice;
* `remove_counter("TotalTime")` erases `end()` of a set, and `remove_counters`
  without `TotalTime` leaves a profile that cannot be printed;
* no call gives a limit of 0 to the HNSW searcher or a filter to the overload that
  drops it, see above;
* `NoUpdateLost` leaves out DOUBLE_VALUE counters and the destinations of copies, see
  above; `divide`, which is not modelled, also loads and stores instead of adding;
* an empty HNSW index leaves the caller's result vectors as they were.

## Proofs

`LRUCacheProofs` proves, for every number of threads, keys and entries and all
charges and capacities, under `LRUCacheAssumption` (charges and capacities are
naturals; the null pointer is no key, entry or thread):

* `Invariance`: `Spec => []IInv`;
* from it `TypeCorrect`, `UsageExact`, `LruExact`, `OnlyPinnedOverCapacity`,
  `HeldNeverFreed`, `FreedOnce`, each the property of the same meaning that the
  run `shard` checks, and `EvictsInOrder`, an action property.

`IInv` is needed because none of the properties is inductive. That the refund in
`release` is right needs the reference count to be the handles plus the cache's
own reference (`EntryInv`); that eviction may drop an entry needs the LRU list to
be exactly the entries with one reference (`LruIsIdle`) and the table to map each
cached entry's key to it (`TableInv`); that nothing is freed twice needs the
`last_ref_list`s of all threads to be disjoint and unreferenced (`ListInv`); that
phase two meets only DURABLE entries needs what phase one has already passed
(`ScanInv`); and the sum of charges is expressed as the cardinality of a set of
charged bytes (`UsageInv`), so that adding and refunding a charge become facts
about finite sets. `CapacityInv` says that outside the eviction loops a shard
over its capacity has an empty list. There is one lemma per action.

`LRUCacheProofs` also proves `ShardImplementsCache`: `Spec => ImplementsCacheSpec`,
with the table as the abstract map and the published entries as the live ones.
It rests on `IInv`: an evicted entry is held by nobody, a freed one is moreover in
no table. So what is shown of `BlockCacheInvertedLists` over `CacheSpec` holds
over the real shard as far as the cache is concerned.

`ShardedLRUCacheProofs` proves, for every width of `size_t`, all capacities,
deltas and minima and any number of threads (`ShardedAssumption`), the four
properties of the run `sharded`. The inductive invariant says that a thread in
`_set_capacity` is the owner of the mutex, that the shards its loop has passed have
the new capacity and the others the old one, that an idle entry implies a shard
within its capacity, and, for `get_capacity`, that what has been added so far is
a sum of shares of capacities in `seen`. Wrapping is handled by a lemma
on `per_shard`: twice a shard's share exceeds the capacity by at most one.

`HandleTableProofs` proves, for all keys, hashes (numbers of any size) and finite
sets of entries (`HandleTableAssumption`), what the run `hash_table` checks:
`ElemsCounted`, `KeysPartitioned` and `TableImplementsMap`, and in addition

* `ResizeCheckHolds`: the check of `_resize`, whose failure aborts the process, never
  fails;
* `FindPointerEnds`: the walk of `_find_pointer`, which the model cuts off after as
  many turns as there are entries, has always stopped by itself before that.

The invariant `IInv` says that chains end (`Ends`), that the entries of a chain
belong to its bucket (`Home`), that no entry is in two chains and no key in two
entries (`Apart`), what the two counters count (`Counts`), and what `_resize` knows in
each of its loops (`Phase`). Instead of induction along a chain, which the prover does not
have, a chain is characterised as the least set that contains its first entry and
is closed under `next_hash` (`ChainIsReach`, by `SetInduction` over the turns).
From that follow that in a chain that ends no entry is met twice and each but the
first has exactly one predecessor (`ChainLinear`, `OnePredecessor`), and
what unlinking an entry, putting one behind another and putting one in front do to
a chain (`Unlink`, `PushBehind`, `PushFront`).

`RangeSearchProofs` proves of `HnswRangeSearch`, for every graph and call (`HnswAssumption`):

* `SearchInvariant` and `SearchTypeCorrect`;
* `WideSearchExact`: a search without limit whose `efSearch` is at least the number
  of vectors finds exactly the qualifying vectors that can be reached from the end
  of the descent;
* `AnswersAreSound`, under the hypothesis `AsDocumented`: no call of the overload that
  drops its filter carries one, and no limit is 0.

The invariant `IInv` says what the loops know: the inputs do not change and the
phases follow each other (`Inputs`, `Started`), a search in the loops has no limit
(`Unlimited`), the results are the qualifying visited vectors, all reachable
(`Found`), and, in a search with `efSearch` at least the number of vectors, every
visited vector is live or has all its neighbours visited (`Expanded`). The heap is never full because
it holds visited vectors, of which there are no more than `efSearch`
(`WideHeapKeepsAll`). When no candidate is live the visited vectors are closed under
neighbours, so they contain everything reachable (`ReachableLeast`); the step limit
`efSearch` cannot strike first, since each step pops another vector. Soundness rests
on `ReturnIsSound`, which carries order, range, filter and distances from the
nodes to the answer, for both the limited and the unlimited search.

Of `IvfPqRangeSearch` the same module proves, for any rows, block size, lists, calls
and number of threads (`IvfPqAssumption`, of which the triangle inequality is the only
part that is not about types):

* `IvfPqInvariant` and `IvfPqTypeCorrect`;
* `ErrorsStayAligned`: the errors kept beside the lists are those of the rows in them,
  also after an `add` that was interrupted;
* `IvfPqAnswersExact`: whatever the threads' order, an answer is what the probed lists
  hold within the radius, the nearest of them where there is a limit;
* `FullConfidence`: at confidence 1 no row of a probed list that is really within the
  range is left out;
* `AgreesWithBruteForce`: when all lists are probed with some confidence and without a
  filter, and codes are exact, the answer has the distances brute force finds.

The invariant `IvfPqInv` says that no two rows have the same id (`RowsNumbered`) and
that the lists hold them (`ListsHoldRows`, `ErrorsAligned`), that no list is probed
twice (`Searching`), that the threads' results are the hits of the lists scanned so
far, none of them twice and after an interrupt possibly not all (`PartialResults`),
and that an answer that was given is exact (`Answers`). The loops are handled by
induction over sets of numbers (`SetInduction`): a queue holds the nearest of what went
through it (`HeapIs`, `NearestSorted`), and the merged results correspond one to one
to the hits (`AnswerExists`). That the answer and brute force agree does not depend on
how either breaks ties: both have as many results, and the p-th distance of a part is
never below that of the whole (`NotSmaller`), in both directions.

`IndexStoreProofs` proves, for any number of searchers, paths, versions and
entries and any options (`IndexStoreAssumption`: the searchers are finitely many),
type correctness and the three properties of the run `index_store`. The invariant (`StoreInvariant`) says
what is cached or held is alive (`CacheSafe`); which locals of `WriteIndex` and
`ReadIndex` are set where (`Writing`, `Locals`); that a cached reader's entry holds
the index it serves, or, between the swap of the handles and the assignment to
`index_ref_`, the one it is about to serve (`Served`); and, for freshness, that a
file that is not cut off is the version written last (`FileIsWritten`), that a
writer which writes the cache leaves nothing there older than the file or than
what it is about to write (`CacheIsFresh`), and that a read nobody overlapped has
the file as it is (`Fresh`). `HandlesAccounted` counts owners: `CountUpdate` says
how assigning one handle changes the counts.

`BlockCacheProofs` proves in two layers, for any layout of the files
(`BlockCacheAssumption`). For every configuration, also those that share indexes and
files: `BlockCacheInvariant`, `TypeCorrect` and `EveryHandleHasAnOwner`. Under
`OneThreadPerFile` - a hypothesis of the theorems: each file is searched by one thread -
`PointersStayValid`, `CacheHoldsTheLists` and `ScansAreOfTheList`. The hypothesis
is needed: the run `lists_two_threads` and the variants described above violate
each of the three without it. The second invariant (`OneThreadInvariant`) says
that the handle kept for a list is the one cached for it (`KeptIsCached`: nobody
else replaces it), that what `get_ptr` returned is that handle (`Pointers`), and
that between `lseek` and `read` the descriptor is where it was put (`Reads`). That
aligned blocks cover their list is arithmetic on `Offset`, which is recursive;
what it computes is found by induction over the lists, written with sets of
numbers rather than with an operator (`SetInduction`).

`IndexBuilderProofs` proves, for every number of rows, batches and builds
(`IndexBuilderAssumption`): `CarefulIndex` and `CarefulFlush`, completeness for a
careful client, and `RowsAreIndexedOnce`, which needs no care. Rows are numbered as
they are made, and every buffer, the index and the file are increasing
(`RowsInOrder`), so nothing is in them twice; this holds even when the buffers
are out of step. The careful part (`CarefulInv`) says that until the index is
trained the buffers hold exactly the accepted rows, copied or by reference
(`KeepsAccepted`). Leaving out null rows keeps order and completeness: the loop
over the flags (`NotNull`) is again handled by `SetInduction`.

`RuntimeProfileProofs` proves, for any threads, counters, parents and set of calls,
`CountersFormATree` and `MergeKeepsUpdates` (and `ProfileTypeCorrect`). Beyond
`ProfileAssumption` it needs `RoomForChildren`: a child that is created finds a
profile that is not in use, as `new` does. Every profile is a tree unless a merge is
adding to it (`Trees`); such a merge has added, or has still to visit, each counter
of the source, and every other counter hangs under its parent (`MergeState`),
so that adding the links of the source closes the tree (`TreeMerge`). A copy visits
parents first (`CopyState`, `CopyVisits`). Nothing can take the source or the
destination away meanwhile: they are at the top, or children of profiles whose
children lock the merge holds (`Stays`). `Below` and `Ancestors`, the sets that
removal works with, are shown to be the least closed sets (`BelowIs`,
`AncestorsAre`), and removing one leaves a tree (`TreeRemove`, `TreeKeep`). That a counter
shows its updates (`ValuesAt`) needs that a copy in progress writes to a profile of
`CopyTargets`, not to a child (`Aims`), and that the store of a sum is one of a
DOUBLE_VALUE counter that is there (`Works`).
Neither theorem depends on the order of the locks; deadlocks, which do, are a
matter of `CallsReturn`.

Only model-checked: the liveness properties `CallsReturn`, `DroppedIsReclaimed`,
`ScanEnds` and `SearchEnds`, since fairness is outside the prover. Every invariant, every
safety action property and both refinements that the passing runs check are proved.

## Not modelled

The numeric kernels (distances, PQ tables, k-means), JSON metadata and its
validation, logging and the factory hold no protocol. 24,600 of the repository's
38,300 lines of code are the vendored `common/nlohmann.hpp`, so the models cover a
small share of all lines, though most of the library's own stateful code. Of the
rest, not modelled are:

* parsing and storing of metadata and parameters (`store/index_meta`,
  `index/parameter_serde.h`): documents without state;
* `RuntimeProfile`'s info strings, event sequences, derived and high-water-mark
  counters, `divide`, `merge_isomorphic_profiles` and printing;
* `SpinLock`, `ObjectPool`, the stop watches: not shared by modelled code;
* the byte formats of index files, apart from the layout of inverted lists;
* changing search parameters, and `AnnSearch` of the IVF-PQ searcher (one call of
  faiss);
* benchmarks, examples and Python bindings.

What is left of the plan: changing search parameters between calls, and the part of
`RuntimeProfile` listed above.
