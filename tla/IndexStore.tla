----------------------------- MODULE IndexStore -----------------------------
(***************************************************************************)
(* From the file to the searcher: IndexWriter::WriteIndex,                 *)
(* IndexReader::ReadIndex, IndexCache with its handles, and                *)
(* Searcher::ReadIndex, over the cache of CacheSpec.tla.                   *)
(*                                                                         *)
(* Each searcher runs in a thread of its own and owns a reader, whose      *)
(* cache_handle_ pins the entry of the last cached read.  One more thread  *)
(* writes new versions of the index file, in place.  Nothing but the cache *)
(* is shared, and nothing keeps a read apart from a write.                 *)
(*                                                                         *)
(* An Index is immutable and kept alive by every IndexRef to it, so it is  *)
(* known by what it was made from.  One that does not fit is an index that *)
(* CheckAndUnpackHnsw rejects (another index type under the same key, or a *)
(* structure that contradicts the metric).                                 *)
(*                                                                         *)
(* custom_cache_key of readers and writer is empty, as it is by default:   *)
(* the cache key of an index is its path.                                  *)
(***************************************************************************)
EXTENDS Naturals, FiniteSets

CONSTANTS
    Searcher,    \* searchers, each in its thread
    Path,        \* index files, and the cache keys of their indexes
    Entry,       \* addresses an LRUHandle can be allocated at
    MaxVersion,  \* bound: versions of the index that are written
    Misfits,     \* the versions that do not fit what the searchers expect
    Options,     \* reader and writer options a process can run with
    Nil

ASSUME IndexStoreAssumption ==
    /\ MaxVersion \in Nat
    /\ Misfits \subseteq 1..MaxVersion
    /\ Options \subseteq [cache_index_file : SUBSET Searcher, force_read : SUBSET Searcher,
                        write_index_cache : BOOLEAN]
    /\ IsFiniteSet(Searcher)
    /\ Nil \notin Searcher \cup Path \cup Entry

VARIABLES
    map, handles, alive,  \* the cache
    holds,                \* entry -> the index of its leaked IndexRef
    file,                 \* path -> the file
    options,              \* reader and writer options, fixed from the start
    writer,               \* the call of WriteIndex that is going on
    version,              \* the last version given to WriteIndex
    written,              \* history: path -> the last version completely written
    pc, path,             \* where each searcher is in ReadIndex, and its argument
    cache_handle,         \* cache_handle_ of its reader
    old,                  \* the handle swapped out of it
    read,                 \* the IndexRef that ReadIndexFile returned
    index_ref, raw,       \* index_ref_, and the index faiss_hnsw_ points into
    overlapped,           \* history: a WriteIndex of the same path went on meanwhile
    due                   \* history: written[path] when ReadIndex was called

cacheVars == <<map, handles, alive>>
writerVars == <<file, writer, version, written>>
searcherVars == <<pc, path, cache_handle, old, read, index_ref, raw,
                  overlapped, due>>
vars == <<cacheVars, holds, options, writerVars, searcherVars>>

Cache == INSTANCE CacheSpec WITH Key <- Path

\* An index, or a file.  Torn is a file that is cut off, and what a reader can
\* take for an index when the file changes under it; tainted marks what a read
\* gave that a write overlapped.
Index == [version : 0..MaxVersion, fits : BOOLEAN, tainted : BOOLEAN]
Torn == [version |-> 0, fits |-> TRUE, tainted |-> TRUE]

ASSUME NilIsNoIndex == Nil \notin Index

\* cache_index_file and force_read_and_overwrite_cache of the searcher's reader.
Cached(s) == s \in options.cache_index_file
Forced(s) == s \in options.force_read

\* A ReadIndex that has not yet filled the cache.
Reading == {"lookup", "open", "read", "insert"}

NotWriting == [pc |-> "idle", path |-> Nil, index |-> Nil, handle |-> Nil]

Init ==
    /\ Cache!Init
    /\ holds = [e \in Entry |-> Nil]
    /\ file = [p \in Path |-> Nil]
    /\ options \in Options
    /\ writer = NotWriting
    /\ version = 0
    /\ written = [p \in Path |-> 0]
    /\ pc = [s \in Searcher |-> "idle"]
    /\ path = [s \in Searcher |-> Nil]
    /\ cache_handle = [s \in Searcher |-> Nil]
    /\ old = [s \in Searcher |-> Nil]
    /\ read = [s \in Searcher |-> Nil]
    /\ index_ref = [s \in Searcher |-> Nil]
    /\ raw = [s \in Searcher |-> Nil]
    /\ overlapped = [s \in Searcher |-> FALSE]
    /\ due = [s \in Searcher |-> 0]

-----------------------------------------------------------------------------
\* WriteIndex

\* Mutant of BeginWrite: the cache is not written.
BeginWriteUncached(p) ==
    /\ writer.pc = "idle"
    /\ version < MaxVersion
    /\ version' = version + 1
    /\ writer' = [pc |-> "file", path |-> p, handle |-> Nil,
                  index |-> [version |-> version + 1, tainted |-> FALSE,
                             fits |-> version + 1 \notin Misfits]]
    /\ overlapped' = [s \in Searcher |->
                        overlapped[s] \/ (path[s] = p /\ pc[s] \in Reading)]
    /\ UNCHANGED <<cacheVars, holds, options, file, written, pc, path, cache_handle, old,
                   read, index_ref, raw, due>>

\* The call, with a newly built index.  It overlaps every read of p that has not
\* yet filled the cache.
BeginWrite(p) ==
    /\ writer.pc = "idle"
    /\ version < MaxVersion
    /\ version' = version + 1
    /\ writer' = [pc |-> IF options.write_index_cache THEN "insert" ELSE "file",
                  path |-> p, handle |-> Nil,
                  index |-> [version |-> version + 1, tainted |-> FALSE,
                             fits |-> version + 1 \notin Misfits]]
    /\ overlapped' = [s \in Searcher |->
                        overlapped[s] \/ (path[s] = p /\ pc[s] \in Reading)]
    /\ UNCHANGED <<cacheVars, holds, options, file, written, pc, path, cache_handle, old,
                   read, index_ref, raw, due>>

\* index_cache_->Insert(cache_key, index, &handle)
WriterInsert(e) ==
    /\ writer.pc = "insert"
    /\ Cache!Insert(writer.path, e)
    /\ holds' = [holds EXCEPT ![e] = writer.index]
    /\ writer' = [writer EXCEPT !.pc = "release", !.handle = e]
    /\ UNCHANGED <<options, file, version, written, searcherVars>>

\* The handle goes out of scope.
WriterRelease ==
    /\ writer.pc = "release"
    /\ Cache!Release(writer.handle)
    /\ writer' = [writer EXCEPT !.pc = "file", !.handle = Nil]
    /\ UNCHANGED <<holds, options, file, version, written, searcherVars>>

\* memory_only is given, or the file cannot be opened: WriteIndex returns or throws.
WriterSkipsFile ==
    /\ writer.pc = "file"
    /\ writer' = NotWriting
    /\ UNCHANGED <<cacheVars, holds, options, file, version, written,
                   searcherVars>>

\* fopen(path, "wb") truncates the file.
WriterTruncates ==
    /\ writer.pc = "file"
    /\ file' = [file EXCEPT ![writer.path] = Torn]
    /\ writer' = [writer EXCEPT !.pc = "write"]
    /\ UNCHANGED <<cacheVars, holds, options, version, written, searcherVars>>

\* The rest of WriteIndexFile, unless writing fails and leaves the file cut off.
WriterEnds ==
    /\ writer.pc = "write"
    /\ \/ /\ file' = [file EXCEPT ![writer.path] = writer.index]
          /\ written' = [written EXCEPT ![writer.path] = writer.index.version]
       \/ UNCHANGED <<file, written>>
    /\ writer' = NotWriting
    /\ UNCHANGED <<cacheVars, holds, options, version, searcherVars>>

-----------------------------------------------------------------------------
\* ReadIndex

Goto(s, label) == pc' = [pc EXCEPT ![s] = label]

\* ReadIndex is left; the call and its history are forgotten.
Return(s) ==
    /\ Goto(s, "idle")
    /\ path' = [path EXCEPT ![s] = Nil]
    /\ overlapped' = [overlapped EXCEPT ![s] = FALSE]
    /\ due' = [due EXCEPT ![s] = 0]

\* ReadIndex throws before anything of the searcher has changed.
Throw(s) ==
    /\ Return(s)
    /\ UNCHANGED <<cacheVars, holds, options, writerVars, cache_handle, old, read,
                   index_ref, raw>>

BeginRead(s, p) ==
    /\ pc[s] = "idle"
    /\ Goto(s, IF Cached(s) /\ ~Forced(s)
               THEN "lookup" ELSE "open")
    /\ path' = [path EXCEPT ![s] = p]
    /\ overlapped' = [overlapped EXCEPT ![s] = writer.path = p]
    /\ due' = [due EXCEPT ![s] = written[p]]
    /\ UNCHANGED <<cacheVars, holds, options, writerVars, cache_handle, old,
                   read, index_ref, raw>>

\* *handle = IndexCacheHandle(cache, lru_handle): the handles are swapped, and
\* the temporary now has the previous one.
SwapHandle(s, e) ==
    /\ cache_handle' = [cache_handle EXCEPT ![s] = e]
    /\ old' = [old EXCEPT ![s] = cache_handle[s]]

\* Mutant of LookupHit: the previous handle is overwritten.
LookupHitOverwrites(s) ==
    /\ pc[s] = "lookup"
    /\ Cache!Lookup(path[s])
    /\ cache_handle' = [cache_handle EXCEPT ![s] = map[path[s]]]
    /\ Goto(s, "release")
    /\ UNCHANGED <<holds, options, writerVars, path, old, read, index_ref, raw, overlapped,
                   due>>

\* index_cache_->Lookup finds an entry.
LookupHit(s) ==
    /\ pc[s] = "lookup"
    /\ Cache!Lookup(path[s])
    /\ SwapHandle(s, map[path[s]])
    /\ Goto(s, "release")
    /\ UNCHANGED <<holds, options, writerVars, path, read, index_ref, raw, overlapped,
                   due>>

LookupMiss(s) ==
    /\ pc[s] = "lookup"
    /\ map[path[s]] = Nil
    /\ Goto(s, "open")
    /\ UNCHANGED <<cacheVars, holds, options, writerVars, path, cache_handle,
                   old, read, index_ref, raw, overlapped, due>>

\* ReadIndexFile: the file is opened.
OpenFile(s) ==
    /\ pc[s] = "open"
    /\ \/ /\ file[path[s]] # Nil
          /\ Goto(s, "read")
          /\ UNCHANGED <<cacheVars, holds, options, writerVars, path,
                         cache_handle, old, read, index_ref, raw, overlapped, due>>
       \/ file[path[s]] = Nil /\ Throw(s)

\* ReadIndexFile makes an index of what the file holds.  A file that is cut off
\* gives an error, one that changes meanwhile an error or a torn index.
ReadFile(s) ==
    /\ pc[s] = "read"
    /\ \/ /\ \E index \in {file[path[s]]} \cup (IF overlapped[s] THEN {Torn} ELSE {}) :
               /\ index.tainted => overlapped[s]
               /\ read' = [read EXCEPT ![s] = [index EXCEPT !.tainted = overlapped[s]]]
          /\ Goto(s, IF Cached(s) THEN "insert" ELSE "release")
          /\ UNCHANGED <<cacheVars, holds, options, writerVars, path, cache_handle, old,
                         index_ref, raw, overlapped, due>>
       \/ (overlapped[s] \/ file[path[s]].tainted) /\ Throw(s)

\* Mutant of InsertRead: the handle goes to a temporary.
InsertReadUnpinned(s, e) ==
    LET index == [read[s] EXCEPT !.tainted = overlapped[s]] IN
    /\ pc[s] = "insert"
    /\ Cache!Insert(path[s], e)
    /\ holds' = [holds EXCEPT ![e] = index]
    /\ read' = [read EXCEPT ![s] = index]
    /\ old' = [old EXCEPT ![s] = e]
    /\ Goto(s, "release")
    /\ UNCHANGED <<options, writerVars, path, cache_handle, index_ref, raw, overlapped,
                   due>>

\* ForceReadIndexAndOverwriteCache: index_cache_->Insert.
InsertRead(s, e) ==
    LET index == [read[s] EXCEPT !.tainted = overlapped[s]] IN
    /\ pc[s] = "insert"
    /\ Cache!Insert(path[s], e)
    /\ holds' = [holds EXCEPT ![e] = index]
    /\ read' = [read EXCEPT ![s] = index]
    /\ SwapHandle(s, e)
    /\ Goto(s, "release")
    /\ UNCHANGED <<options, writerVars, path, index_ref, raw, overlapped, due>>

\* The temporary's destructor releases the previous entry, and Searcher assigns
\* the IndexRef that ReadIndex returns.
ReleaseOld(s) ==
    /\ pc[s] = "release"
    /\ \/ old[s] # Nil /\ Cache!Release(old[s])
       \/ old[s] = Nil /\ UNCHANGED cacheVars
    /\ old' = [old EXCEPT ![s] = Nil]
    /\ index_ref' = [index_ref EXCEPT ![s] =
                       IF read[s] # Nil THEN read[s] ELSE holds[cache_handle[s]]]
    /\ read' = [read EXCEPT ![s] = Nil]
    /\ Goto(s, "check")
    /\ UNCHANGED <<holds, options, writerVars, path, cache_handle, raw, overlapped,
                   due>>

\* OnIndexLoaded: CheckAndUnpackHnsw throws, and the pointers stay what they were,
\* or they point into the new index.
OnIndexLoaded(s) ==
    /\ pc[s] = "check"
    /\ raw' = [raw EXCEPT ![s] = IF index_ref[s].fits THEN index_ref[s] ELSE @]
    /\ Return(s)
    /\ UNCHANGED <<cacheVars, holds, options, writerVars, cache_handle, old, read,
                   index_ref>>

\* ~Searcher: the reader gives its handle back, and the reference goes.
Destroy(s) ==
    /\ pc[s] = "idle"
    /\ index_ref[s] # Nil
    /\ \/ cache_handle[s] # Nil /\ Cache!Release(cache_handle[s])
       \/ cache_handle[s] = Nil /\ UNCHANGED cacheVars
    /\ cache_handle' = [cache_handle EXCEPT ![s] = Nil]
    /\ index_ref' = [index_ref EXCEPT ![s] = Nil]
    /\ raw' = [raw EXCEPT ![s] = Nil]
    /\ UNCHANGED <<holds, options, writerVars, pc, path, old, read, overlapped,
                   due>>

\* The cache evicts entries, and its deleters delete their IndexRefs.
CacheStep(e) ==
    /\ \/ Cache!Evict(e) /\ UNCHANGED holds
       \/ Cache!Free(e) /\ holds' = [holds EXCEPT ![e] = Nil]
    /\ UNCHANGED <<options, writerVars, searcherVars>>

-----------------------------------------------------------------------------
WriterStep == WriterRelease \/ WriterSkipsFile \/ WriterTruncates \/ WriterEnds
                \/ \E e \in Entry : WriterInsert(e)

ReadStep(s) ==
    \/ LookupHit(s) \/ LookupMiss(s) \/ OpenFile(s) \/ ReadFile(s) \/ ReleaseOld(s)
    \/ OnIndexLoaded(s)
    \/ \E e \in Entry : InsertRead(s, e)

Next ==
    \/ \E p \in Path : BeginWrite(p)
    \/ WriterStep
    \/ \E s \in Searcher : (\E p \in Path : BeginRead(s, p)) \/ ReadStep(s) \/ Destroy(s)
    \/ \E e \in Entry : CacheStep(e)

Spec == Init /\ [][Next]_vars

-----------------------------------------------------------------------------
\* Every variable has its type.
TypeOK ==
    /\ map \in [Path -> Entry \cup {Nil}]
    /\ handles \in [Entry -> Nat]
    /\ alive \subseteq Entry
    /\ holds \in [Entry -> Index \cup {Nil}]
    /\ file \in [Path -> Index \cup {Nil}]
    /\ writer \in [pc : {"idle", "insert", "release", "file", "write"},
                   path : Path \cup {Nil}, index : Index \cup {Nil},
                   handle : Entry \cup {Nil}]
    /\ version \in 0..MaxVersion
    /\ written \in [Path -> 0..MaxVersion]
    /\ pc \in [Searcher -> {"idle", "lookup", "open", "read", "insert", "release", "check"}]
    /\ path \in [Searcher -> Path \cup {Nil}]
    /\ cache_handle \in [Searcher -> Entry \cup {Nil}]
    /\ old \in [Searcher -> Entry \cup {Nil}]
    /\ read \in [Searcher -> Index \cup {Nil}]
    /\ index_ref \in [Searcher -> Index \cup {Nil}]
    /\ raw \in [Searcher -> Index \cup {Nil}]
    /\ overlapped \in [Searcher -> BOOLEAN]
    /\ due \in [Searcher -> 0..MaxVersion]

\* The pointers a search uses (faiss_hnsw_, faiss_transform_, faiss_id_map_) point
\* into the index the searcher keeps alive.  This is so while every load succeeds;
\* a load that throws in OnIndexLoaded leaves the pointers behind, and no search
\* is refused for it.
SearchesLiveIndex ==
    \A s \in Searcher : pc[s] = "idle" /\ index_ref[s] # Nil => raw[s] = index_ref[s]

\* The memory of an index that a cached reader serves is charged to the cache: the
\* reader pins a live entry, and that entry is the one of the index in use.
ServedIsPinned ==
    \A s \in Searcher :
      Cached(s) /\ pc[s] = "idle" /\ index_ref[s] # Nil =>
        /\ cache_handle[s] \in alive
        /\ holds[cache_handle[s]] = index_ref[s]

\* No handle is lost or returned twice when handles are swapped and destroyed, and
\* reads and writes throw: each one the cache counts is held by one owner.
HandlesAccounted ==
    \A e \in Entry :
      handles[e] = Cardinality({s \in Searcher : cache_handle[s] = e})
                     + Cardinality({s \in Searcher : old[s] = e})
                     + (IF writer.handle = e THEN 1 ELSE 0)

\* ReadIndex returns the last version that was completely written before it was
\* called, or a later one, whatever failed or was evicted.  The exceptions are a
\* read that a WriteIndex overlapped, what such a read left in the cache, and a cached
\* reader whose writer does not write to the cache.
ReadIsFresh ==
    \A s \in Searcher :
      pc[s] = "check" =>
        \/ index_ref[s].version >= due[s]
        \/ index_ref[s].tainted
        \/ /\ Cached(s) /\ ~Forced(s)
           /\ ~options.write_index_cache
=============================================================================
