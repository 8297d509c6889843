-------------------------- MODULE IndexStoreProofs --------------------------
(***************************************************************************)
(* Proofs about IndexStore for any number of searchers, files, entries and *)
(* versions, and for any options.                                          *)
(***************************************************************************)
EXTENDS IndexStore, FiniteSetTheorems, TLAPS

(***************************************************************************)
(* The inductive invariant.                                                *)
(***************************************************************************)

\* What is mapped or held is alive, and what is alive has an index.
CacheSafe ==
    /\ \A p \in Path : map[p] # Nil => map[p] \in alive
    /\ \A e \in Entry : handles[e] > 0 => e \in alive
    /\ \A e \in alive : holds[e] # Nil

\* The locals of WriteIndex; the version being written is newer than all others.
Writing ==
    /\ writer.pc = "idle" => writer.path = Nil
    /\ writer.pc # "idle" =>
         /\ writer.path \in Path /\ writer.index \in Index
         /\ writer.index.version = version
         /\ \A p \in Path : written[p] < version
    /\ writer.pc # "release" => writer.handle = Nil
    /\ writer.pc = "release" => writer.handle # Nil
    /\ \A p \in Path : written[p] <= version

\* The locals of ReadIndex: which are set, and which branches lead where.
Locals(s) ==
    /\ pc[s] # "idle" => path[s] \in Path
    /\ pc[s] # "release" => old[s] = Nil
    /\ pc[s] \notin {"insert", "release"} => read[s] = Nil
    /\ pc[s] = "insert" => read[s] # Nil
    /\ pc[s] \in {"lookup", "insert"} => Cached(s)
    /\ pc[s] = "lookup" => ~Forced(s)
    /\ pc[s] = "read" => file[path[s]] # Nil
    /\ pc[s] = "check" => index_ref[s] # Nil
    /\ pc[s] = "release" /\ read[s] = Nil => Cached(s) /\ ~Forced(s)

\* The entry that a cached reader pins is the one of its index: the index it has,
\* or, from the swap of the handles to the assignment, the one it is about to have.
Served(s) ==
    Cached(s) =>
      /\ pc[s] # "release" /\ index_ref[s] # Nil =>
           cache_handle[s] # Nil /\ holds[cache_handle[s]] = index_ref[s]
      /\ pc[s] = "release" =>
           /\ cache_handle[s] # Nil
           /\ read[s] # Nil => holds[cache_handle[s]] = read[s]

\* A file that is not cut off is the version that was written last.
FileIsWritten ==
    \A p \in Path : file[p] # Nil /\ ~file[p].tainted => file[p].version = written[p]

\* i is not older than v, unless a write overlapped the read it comes from.
NotOlder(i, v) == i.tainted \/ i.version >= v

\* With a writer that writes to the cache, what is cached is not older than the
\* file, nor than what the writer, having been at the cache, is about to write.
CacheIsFresh ==
    options.write_index_cache =>
      \A p \in Path : map[p] # Nil =>
        /\ NotOlder(holds[map[p]], written[p])
        /\ writer.path = p /\ writer.pc \in {"release", "file", "write"} =>
             NotOlder(holds[map[p]], writer.index.version)

\* A read that has not yet filled the cache knows of a write that goes on, and one
\* that no write has overlapped has the file as it is.
Fresh(s) ==
    /\ pc[s] \in Reading /\ writer.path = path[s] => overlapped[s]
    /\ pc[s] # "idle" => due[s] <= written[path[s]]
    /\ pc[s] = "insert" /\ ~overlapped[s] => read[s].version = written[path[s]]
    /\ pc[s] = "release" /\ read[s] # Nil => NotOlder(read[s], due[s])
    /\ pc[s] = "release" /\ read[s] = Nil /\ options.write_index_cache =>
         NotOlder(holds[cache_handle[s]], due[s])
    /\ pc[s] = "check" =>
         \/ NotOlder(index_ref[s], due[s])
         \/ Cached(s) /\ ~Forced(s) /\ ~options.write_index_cache

Own(s) == Locals(s) /\ Served(s) /\ Fresh(s)

IInv ==
    /\ TypeOK /\ options \in Options
    /\ CacheSafe
    /\ HandlesAccounted
    /\ Writing
    /\ FileIsWritten
    /\ CacheIsFresh
    /\ \A s \in Searcher : Own(s)

-----------------------------------------------------------------------------
(***************************************************************************)
(* Counting the owners of handles.                                         *)
(***************************************************************************)

Count(f, e) == Cardinality({s \in Searcher : f[s] = e})
Is(a, b) == IF a = b THEN 1 ELSE 0

LEMMA CountType == \A f, e : Count(f, e) \in Nat
<1> SUFFICES ASSUME NEW f, NEW e PROVE Count(f, e) \in Nat
  OBVIOUS
<1>1. IsFiniteSet({s \in Searcher : f[s] = e})
  BY IndexStoreAssumption, FS_Subset
<1> QED BY <1>1, FS_CardinalityType DEF Count

LEMMA CountHeld == \A f : \A s \in Searcher : Count(f, f[s]) > 0
<1> SUFFICES ASSUME NEW f, NEW s \in Searcher PROVE Count(f, f[s]) > 0
  OBVIOUS
<1> DEFINE A == {u \in Searcher : f[u] = f[s]}
<1>1. IsFiniteSet(A)
  BY IndexStoreAssumption, FS_Subset
<1>2. A # {}
  OBVIOUS
<1>3. Cardinality(A) # 0
  BY <1>1, <1>2, FS_EmptySet
<1>4. Count(f, f[s]) = Cardinality(A)
  BY DEF Count
<1>5. Count(f, f[s]) \in Nat
  BY CountType
<1> QED BY <1>3, <1>4, <1>5

\* Assigning to the handle of one searcher changes the counts of the old and the
\* new value by one.
LEMMA CountUpdate ==
  \A f, g, e : \A s \in Searcher :
    (\A u \in Searcher : u # s => g[u] = f[u]) =>
      Count(g, e) = Count(f, e) + Is(g[s], e) - Is(f[s], e)
<1> SUFFICES ASSUME NEW f, NEW g, NEW e, NEW s \in Searcher,
                    \A u \in Searcher : u # s => g[u] = f[u]
             PROVE  Count(g, e) = Count(f, e) + Is(g[s], e) - Is(f[s], e)
  OBVIOUS
<1> DEFINE A == {u \in Searcher : f[u] = e}
           B == {u \in Searcher : g[u] = e}
<1>1. IsFiniteSet(A)
  BY IndexStoreAssumption, FS_Subset
<1>2. Count(f, e) = Cardinality(A) /\ Count(g, e) = Cardinality(B) /\ Cardinality(A) \in Nat
  BY CountType DEF Count
<1>3. CASE g[s] = e
  <2>1. B = A \cup {s}
    BY <1>3
  <2>2. Cardinality(A \cup {s}) = IF s \in A THEN Cardinality(A) ELSE Cardinality(A) + 1
    BY <1>1, FS_AddElement
  <2> QED BY <1>2, <1>3, <2>1, <2>2 DEF Is
<1>4. CASE g[s] # e
  <2>1. B = A \ {s}
    BY <1>4
  <2>2. Cardinality(A \ {s}) = IF s \in A THEN Cardinality(A) - 1 ELSE Cardinality(A)
    BY <1>1, FS_RemoveElement
  <2>3. f[s] = e <=> s \in A
    OBVIOUS
  <2> HIDE DEF A, B
  <2> QED BY <1>2, <1>4, <2>1, <2>2, <2>3 DEF Is
<1> QED BY <1>3, <1>4

\* A handle somebody has is counted, so its entry is alive.
LEMMA HeldIsAlive ==
  ASSUME IInv
  PROVE  /\ \A s \in Searcher : cache_handle[s] # Nil =>
              /\ cache_handle[s] \in Entry /\ cache_handle[s] \in alive
              /\ handles[cache_handle[s]] > 0
         /\ \A s \in Searcher : old[s] # Nil =>
              old[s] \in Entry /\ old[s] \in alive /\ handles[old[s]] > 0
         /\ writer.handle # Nil =>
              /\ writer.handle \in Entry /\ writer.handle \in alive
              /\ handles[writer.handle] > 0
<1>1. /\ cache_handle \in [Searcher -> Entry \cup {Nil}]
      /\ old \in [Searcher -> Entry \cup {Nil}]
      /\ writer.handle \in Entry \cup {Nil}
  BY DEF IInv, TypeOK
<1>2. \A e \in Entry : handles[e] = Count(cache_handle, e) + Count(old, e)
                                      + Is(writer.handle, e)
  BY DEF IInv, HandlesAccounted, Count, Is
<1>3. \A e \in Entry : handles[e] > 0 => e \in alive
  BY DEF IInv, CacheSafe
<1>4. ASSUME NEW s \in Searcher, cache_handle[s] # Nil
      PROVE  cache_handle[s] \in Entry /\ handles[cache_handle[s]] > 0
  BY <1>1, <1>2, <1>4, CountType, CountHeld DEF Is
<1>5. ASSUME NEW s \in Searcher, old[s] # Nil
      PROVE  old[s] \in Entry /\ handles[old[s]] > 0
  BY <1>1, <1>2, <1>5, CountType, CountHeld DEF Is
<1>6. ASSUME writer.handle # Nil
      PROVE  writer.handle \in Entry /\ handles[writer.handle] > 0
  BY <1>1, <1>2, <1>6, CountType DEF Is
<1> QED BY <1>3, <1>4, <1>5, <1>6

-----------------------------------------------------------------------------
(***************************************************************************)
(* Operations of the cache.                                                *)
(***************************************************************************)

CacheTypes ==
    /\ map \in [Path -> Entry \cup {Nil}]
    /\ handles \in [Entry -> Nat]
    /\ alive \subseteq Entry

LEMMA LookupSafe ==
  ASSUME IInv, NEW p \in Path, Cache!Lookup(p), UNCHANGED holds
  PROVE  /\ CacheTypes' /\ CacheSafe' /\ map[p] \in Entry /\ map[p] \in alive
         /\ \A e \in Entry : handles'[e] = handles[e] + Is(e, map[p])
<1>1. CacheTypes /\ CacheSafe
  BY DEF IInv, TypeOK, CacheTypes
<1>2. map[p] \in Entry /\ map[p] \in alive
  BY <1>1 DEF CacheTypes, CacheSafe, Cache!Lookup
<1> QED BY <1>1, <1>2 DEF CacheTypes, CacheSafe, Cache!Lookup, Is

\* An entry that is inserted was not mapped, nor held.
LEMMA InsertSafe ==
  ASSUME IInv, NEW p \in Path, NEW e \in Entry, NEW i \in Index, Cache!Insert(p, e),
         holds' = [holds EXCEPT ![e] = i]
  PROVE  /\ CacheTypes' /\ CacheSafe'
         /\ holds' \in [Entry -> Index \cup {Nil}] /\ holds'[e] = i
         /\ \A x \in alive : holds'[x] = holds[x]
         /\ \A x \in Entry : handles'[x] = handles[x] + Is(x, e)
<1>1. CacheTypes /\ CacheSafe /\ holds \in [Entry -> Index \cup {Nil}]
  BY DEF IInv, TypeOK, CacheTypes
<1>2. e \notin alive /\ handles[e] = 0
  BY <1>1 DEF CacheTypes, CacheSafe, Cache!Insert
<1> QED BY <1>1, <1>2, NilIsNoIndex DEF CacheTypes, CacheSafe, Cache!Insert, Is

LEMMA ReleaseSafe ==
  ASSUME IInv, NEW e \in Entry, Cache!Release(e), UNCHANGED holds
  PROVE  /\ CacheTypes' /\ CacheSafe'
         /\ \A p \in Path : map'[p] = Nil \/ map'[p] = map[p]
         /\ \A x \in Entry : handles'[x] = handles[x] - Is(x, e)
<1>1. CacheTypes /\ CacheSafe
  BY DEF IInv, TypeOK, CacheTypes
<1>2. /\ map' \in [Path -> Entry \cup {Nil}]
      /\ \A p \in Path : map'[p] = Nil \/ map'[p] = map[p]
  BY <1>1 DEF CacheTypes, Cache!Release, Cache!Unmapped
<1> QED BY <1>1, <1>2 DEF CacheTypes, CacheSafe, Cache!Release, Is

\* What stays in the map keeps its index: then nothing in it becomes stale.
LEMMA MapShrinks ==
  ASSUME IInv, UNCHANGED <<options, writer, written>>,
         \A p \in Path : map'[p] = Nil \/ (map'[p] = map[p] /\ holds'[map[p]] = holds[map[p]])
  PROVE  CacheIsFresh'
<1> SUFFICES ASSUME options.write_index_cache, NEW p \in Path, map'[p] # Nil
             PROVE  /\ NotOlder(holds'[map'[p]], written[p])
                    /\ writer.path = p /\ writer.pc \in {"release", "file", "write"} =>
                         NotOlder(holds'[map'[p]], writer.index.version)
  BY DEF CacheIsFresh, NotOlder
<1> QED BY DEF IInv, CacheIsFresh, NotOlder

\* Every handle the cache counts has an owner, also after a swap ...
LEMMA SwapAccounted ==
  ASSUME IInv, NEW s \in Searcher, NEW e \in Entry, old[s] = Nil, SwapHandle(s, e),
         UNCHANGED writer,
         \A x \in Entry : handles'[x] = handles[x] + Is(x, e)
  PROVE  HandlesAccounted'
<1> SUFFICES ASSUME NEW x \in Entry
             PROVE  handles'[x] = Count(cache_handle', x) + Count(old', x)
                                    + Is(writer.handle, x)
  BY DEF HandlesAccounted, Count, Is
<1>1. /\ cache_handle \in [Searcher -> Entry \cup {Nil}]
      /\ old \in [Searcher -> Entry \cup {Nil}] /\ x # Nil
  BY IndexStoreAssumption DEF IInv, TypeOK
<1>2. handles[x] = Count(cache_handle, x) + Count(old, x)
                     + Is(writer.handle, x)
  BY DEF IInv, HandlesAccounted, Count, Is
<1>3. Count(cache_handle', x) = Count(cache_handle, x) + Is(e, x) - Is(cache_handle[s], x)
  <2>1. cache_handle'[s] = e
    BY <1>1 DEF SwapHandle
  <2>2. \A u \in Searcher : u # s => cache_handle'[u] = cache_handle[u]
    BY <1>1 DEF SwapHandle
  <2>3. Count(cache_handle', x) = Count(cache_handle, x) + Is(cache_handle'[s], x) - Is(cache_handle[s], x)
    BY <2>2, CountUpdate, ZenonT(40)
  <2> QED BY <2>1, <2>3
<1>4. Count(old', x) = Count(old, x) + Is(cache_handle[s], x)
  <2>1. old'[s] = cache_handle[s]
    BY <1>1 DEF SwapHandle
  <2>2. \A u \in Searcher : u # s => old'[u] = old[u]
    BY <1>1 DEF SwapHandle
  <2>3. Count(old', x) = Count(old, x) + Is(old'[s], x) - Is(old[s], x)
    BY <2>2, CountUpdate, ZenonT(40)
  <2> QED BY <1>1, <2>1, <2>3, CountType DEF Is
<1> QED BY <1>2, <1>3, <1>4, CountType DEF Is

\* A searcher's handle of e is no longer its own.
GivesBack(s, e) ==
    \/ e = old[s] /\ old' = [old EXCEPT ![s] = Nil] /\ UNCHANGED cache_handle
    \/ /\ e = cache_handle[s]
       /\ cache_handle' = [cache_handle EXCEPT ![s] = Nil] /\ UNCHANGED old

\* ... and after a release of one of a searcher's handles.
LEMMA ReleaseAccounted ==
  ASSUME IInv, NEW s \in Searcher, NEW e \in Entry, Cache!Release(e),
         UNCHANGED <<holds, writer>>, GivesBack(s, e)
  PROVE  HandlesAccounted'
<1> SUFFICES ASSUME NEW x \in Entry
             PROVE  handles'[x] = Count(cache_handle', x) + Count(old', x)
                                    + Is(writer.handle, x)
  BY DEF HandlesAccounted, Count, Is
<1>1. /\ cache_handle \in [Searcher -> Entry \cup {Nil}]
      /\ old \in [Searcher -> Entry \cup {Nil}] /\ x # Nil
  BY IndexStoreAssumption DEF IInv, TypeOK
<1>2. handles[x] = Count(cache_handle, x) + Count(old, x)
                     + Is(writer.handle, x)
  BY DEF IInv, HandlesAccounted, Count, Is
<1>3. handles'[x] = handles[x] - Is(x, e)
  BY ReleaseSafe
<1>4. CASE e = old[s] /\ old' = [old EXCEPT ![s] = Nil] /\ UNCHANGED cache_handle
  <2>1. old'[s] = Nil
    BY <1>1, <1>4
  <2>2. \A u \in Searcher : u # s => old'[u] = old[u]
    BY <1>1, <1>4
  <2>3. Count(old', x) = Count(old, x) + Is(old'[s], x) - Is(old[s], x)
    BY <2>2, CountUpdate, Zenon
  <2> QED BY <1>1, <1>2, <1>3, <1>4, <2>1, <2>3, CountType DEF Is
<1>5. CASE /\ e = cache_handle[s]
           /\ cache_handle' = [cache_handle EXCEPT ![s] = Nil] /\ UNCHANGED old
  <2>1. cache_handle'[s] = Nil
    BY <1>1, <1>5
  <2>2. \A u \in Searcher : u # s => cache_handle'[u] = cache_handle[u]
    BY <1>1, <1>5
  <2>3. Count(cache_handle', x) = Count(cache_handle, x) + Is(cache_handle'[s], x) - Is(cache_handle[s], x)
    BY <2>2, CountUpdate, Zenon
  <2> QED BY <1>1, <1>2, <1>3, <1>5, <2>1, <2>3, CountType DEF Is
<1> QED BY <1>4, <1>5 DEF GivesBack

-----------------------------------------------------------------------------
(***************************************************************************)
(* Steps of a searcher.                                                    *)
(***************************************************************************)

\* What a step of one searcher leaves alone of another.
Same(u) ==
    /\ pc'[u] = pc[u] /\ path'[u] = path[u] /\ cache_handle'[u] = cache_handle[u]
    /\ old'[u] = old[u] /\ read'[u] = read[u] /\ index_ref'[u] = index_ref[u]
    /\ overlapped'[u] = overlapped[u] /\ due'[u] = due[u]

\* A searcher is not disturbed while its entry keeps its index.
LEMMA OthersKeep ==
  ASSUME IInv, NEW u \in Searcher, Same(u), UNCHANGED <<options, writerVars>>,
         cache_handle[u] # Nil => holds'[cache_handle[u]] = holds[cache_handle[u]]
  PROVE  Own(u)'
<1>1. Own(u)
  BY DEF IInv
<1>2. Locals(u)'
  BY <1>1 DEF Own, Locals, Same, Cached, Forced, writerVars
<1>3. Served(u)'
  BY <1>1 DEF Own, Served, Same, Cached
<1>5. Fresh(u)'
  <2>1. pc[u] = "release" /\ read[u] = Nil => cache_handle[u] # Nil
    BY <1>1 DEF Own, Locals, Served
  <2> QED BY <1>1, <2>1 DEF Own, Fresh, Same, NotOlder, Cached, Forced, writerVars
<1> QED BY <1>2, <1>3, <1>5 DEF Own

\* The steps that do not touch the cache and its handles leave everything alone
\* that is not the searcher's own.
LEMMA StoreKeeps ==
  ASSUME IInv, UNCHANGED <<cacheVars, holds, options, writerVars, cache_handle, old>>
  PROVE  /\ options' \in Options /\ CacheSafe' /\ HandlesAccounted' /\ Writing'
         /\ FileIsWritten' /\ CacheIsFresh'
<1>1. options' \in Options /\ CacheSafe' /\ HandlesAccounted'
  BY DEF IInv, CacheSafe, HandlesAccounted, cacheVars, writerVars
<1>2. Writing' /\ FileIsWritten' /\ CacheIsFresh'
  BY DEF IInv, Writing, FileIsWritten, CacheIsFresh, NotOlder, cacheVars, writerVars
<1> QED BY <1>1, <1>2

\* ReadIndex throws early: nothing is kept of the call.
LEMMA ThrowIInv ==
  ASSUME IInv, NEW s \in Searcher, pc[s] \in {"open", "read"}, Throw(s)
  PROVE  IInv'
<1>1. TypeOK'
  BY IndexStoreAssumption DEF IInv, TypeOK, Throw, Return, Goto, cacheVars, writerVars
<1>2. ASSUME NEW u \in Searcher
      PROVE  Own(u)'
  <2>1. CASE u = s
    <3>1. Own(s)
      BY DEF IInv
    <3>2. /\ pc'[s] = "idle"
          /\ UNCHANGED <<holds, options, cache_handle, old, read, index_ref>>
      BY DEF IInv, TypeOK, Throw, Return, Goto
    <3> QED BY <2>1, <3>1, <3>2 DEF Own, Locals, Served, Fresh, Cached, Reading
  <2>2. CASE u # s
    <3>1. Same(u)
      BY <2>2 DEF IInv, TypeOK, Throw, Return, Goto, Same
    <3> QED BY <3>1, OthersKeep DEF Throw
  <2> QED BY <2>1, <2>2
<1> QED BY <1>1, <1>2, StoreKeeps DEF IInv, Throw

LEMMA BeginReadIInv ==
  ASSUME IInv, NEW s \in Searcher, NEW p \in Path, BeginRead(s, p)
  PROVE  IInv'
<1>1. TypeOK'
  BY DEF IInv, TypeOK, BeginRead, Goto, cacheVars, writerVars
<1>2. ASSUME NEW u \in Searcher
      PROVE  Own(u)'
  <2>1. CASE u = s
    <3>1. Own(s) /\ pc[s] = "idle"
      BY DEF IInv, BeginRead
    <3>2. /\ pc'[s] = IF Cached(s) /\ ~Forced(s) THEN "lookup" ELSE "open"
          /\ path'[s] = p /\ overlapped'[s] = (writer.path = p) /\ due'[s] = written[p]
          /\ UNCHANGED <<holds, options, writer, written, cache_handle, old, read,
                         index_ref, raw>>
      BY DEF IInv, TypeOK, BeginRead, Goto, writerVars
    <3>3. written[p] <= written[p]
      BY DEF IInv, TypeOK
    <3>4. Locals(s)' /\ Served(s)'
      BY <3>1, <3>2 DEF Own, Locals, Served, Cached, Forced
    <3>5. Fresh(s)'
      BY <3>2, <3>3 DEF Fresh, Reading
    <3> QED BY <2>1, <3>4, <3>5 DEF Own
  <2>2. CASE u # s
    <3>1. Same(u)
      BY <2>2 DEF IInv, TypeOK, BeginRead, Goto, Same
    <3> QED BY <3>1, OthersKeep DEF BeginRead
  <2> QED BY <2>1, <2>2
<1> QED BY <1>1, <1>2, StoreKeeps DEF IInv, BeginRead

LEMMA LookupMissIInv ==
  ASSUME IInv, NEW s \in Searcher, LookupMiss(s)
  PROVE  IInv'
<1>1. TypeOK'
  BY DEF IInv, TypeOK, LookupMiss, Goto, cacheVars, writerVars
<1>2. ASSUME NEW u \in Searcher
      PROVE  Own(u)'
  <2>1. CASE u = s
    <3>1. Own(s) /\ pc[s] = "lookup"
      BY DEF IInv, LookupMiss
    <3>2. /\ pc'[s] = "open"
          /\ UNCHANGED <<holds, options, writer, written, path, cache_handle, old, read,
                         index_ref, raw, overlapped, due>>
      BY DEF IInv, TypeOK, LookupMiss, Goto, writerVars
    <3> QED BY <2>1, <3>1, <3>2 DEF Own, Locals, Served, Fresh, Cached, Reading
  <2>2. CASE u # s
    <3>1. Same(u)
      BY <2>2 DEF IInv, TypeOK, LookupMiss, Goto, Same
    <3> QED BY <3>1, OthersKeep DEF LookupMiss
  <2> QED BY <2>1, <2>2
<1> QED BY <1>1, <1>2, StoreKeeps DEF IInv, LookupMiss

LEMMA OpenFileIInv ==
  ASSUME IInv, NEW s \in Searcher, OpenFile(s)
  PROVE  IInv'
<1>1. CASE Throw(s)
  BY <1>1, ThrowIInv DEF OpenFile
<1>2. CASE ~Throw(s)
  <2>1. /\ pc[s] = "open" /\ file[path[s]] # Nil /\ Goto(s, "read")
        /\ UNCHANGED <<cacheVars, holds, options, writerVars, path, cache_handle, old, read,
                       index_ref, raw, overlapped, due>>
    BY <1>2 DEF OpenFile
  <2>2. TypeOK'
    BY <2>1 DEF IInv, TypeOK, Goto, cacheVars, writerVars
  <2>3. ASSUME NEW u \in Searcher
        PROVE  Own(u)'
    <3>1. CASE u = s
      <4>1. Own(s) /\ pc'[s] = "read"
        BY <2>1 DEF IInv, TypeOK, Goto
      <4> QED BY <2>1, <3>1, <4>1 DEF Own, Locals, Served, Fresh, Cached, Reading, writerVars
    <3>2. CASE u # s
      <4>1. Same(u)
        BY <2>1, <3>2 DEF IInv, TypeOK, Goto, Same
      <4> QED BY <2>1, <4>1, OthersKeep
    <3> QED BY <3>1, <3>2
  <2> QED BY <2>1, <2>2, <2>3, StoreKeeps DEF IInv
<1> QED BY <1>1, <1>2

\* A read that no write has overlapped gives the version written last; any other
\* is tainted.
LEMMA ReadFileIInv ==
  ASSUME IInv, NEW s \in Searcher, ReadFile(s)
  PROVE  IInv'
<1>1. CASE Throw(s)
  BY <1>1, ThrowIInv DEF ReadFile
<1>2. CASE ~Throw(s)
  <2>1. /\ pc[s] = "read" /\ Goto(s, IF Cached(s) THEN "insert" ELSE "release")
        /\ UNCHANGED <<cacheVars, holds, options, writerVars, path, cache_handle, old,
                       index_ref, raw, overlapped, due>>
    BY <1>2 DEF ReadFile
  <2>2. PICK index \in {file[path[s]]} \cup (IF overlapped[s] THEN {Torn} ELSE {}) :
          /\ index.tainted => overlapped[s]
          /\ read' = [read EXCEPT ![s] = [index EXCEPT !.tainted = overlapped[s]]]
    BY <1>2 DEF ReadFile
  <2>3. Own(s) /\ path[s] \in Path /\ file[path[s]] \in Index
    BY <2>1 DEF IInv, TypeOK, Own, Locals
  <2>4. index \in Index
    <3>1. Torn \in Index
      BY IndexStoreAssumption DEF Index, Torn
    <3>2. index = file[path[s]] \/ index = Torn
      OBVIOUS
    <3> QED BY <2>3, <3>1, <3>2
  <2>5. /\ [index EXCEPT !.tainted = overlapped[s]] \in Index
        /\ [index EXCEPT !.tainted = overlapped[s]].tainted = overlapped[s]
        /\ [index EXCEPT !.tainted = overlapped[s]].version = index.version
    BY <2>4 DEF IInv, TypeOK, Index
  <2>6. ASSUME ~overlapped[s] PROVE index.version = written[path[s]]
    <3>1. index = file[path[s]] /\ ~index.tainted /\ file[path[s]] # Nil
      BY <2>2, <2>3, <2>6, NilIsNoIndex
    <3> QED BY <2>3, <3>1 DEF IInv, FileIsWritten
  <2>7. TypeOK'
    BY <2>1, <2>2, <2>5 DEF IInv, TypeOK, Goto, cacheVars, writerVars
  <2>8. ASSUME NEW u \in Searcher
        PROVE  Own(u)'
    <3>1. CASE u = s
      <4>1. /\ pc'[s] = IF Cached(s) THEN "insert" ELSE "release"
            /\ read'[s] = [index EXCEPT !.tainted = overlapped[s]]
            /\ read'[s] # Nil
        BY <2>1, <2>2, <2>5, NilIsNoIndex DEF IInv, TypeOK, Goto
      <4>2. Locals(s)' /\ Served(s)'
        BY <2>1, <2>3, <4>1 DEF Own, Locals, Served, Cached, Forced
      <4>3. /\ due[s] <= written[path[s]] /\ due[s] \in Nat /\ written[path[s]] \in Nat
        BY <2>1, <2>3 DEF Own, Fresh, IInv, TypeOK
      <4>4. NotOlder(read'[s], due[s])
        BY <2>5, <2>6, <4>1, <4>3 DEF NotOlder
      <4>5. Fresh(s)'
        BY <2>1, <2>3, <2>5, <2>6, <4>1, <4>3, <4>4 DEF Own, Fresh, Reading, NotOlder, writerVars
      <4> QED BY <3>1, <4>2, <4>5 DEF Own
    <3>2. CASE u # s
      <4>1. Same(u)
        BY <2>1, <2>2, <3>2 DEF IInv, TypeOK, Goto, Same
      <4> QED BY <2>1, <4>1, OthersKeep
    <3> QED BY <3>1, <3>2
  <2> QED BY <2>1, <2>7, <2>8, StoreKeeps DEF IInv
<1> QED BY <1>1, <1>2

LEMMA OnIndexLoadedIInv ==
  ASSUME IInv, NEW s \in Searcher, OnIndexLoaded(s)
  PROVE  IInv'
<1>1. Own(s) /\ pc[s] = "check" /\ index_ref[s] \in Index
  BY DEF IInv, TypeOK, Own, Locals, OnIndexLoaded
<1>2. TypeOK'
  BY <1>1, IndexStoreAssumption
     DEF IInv, TypeOK, OnIndexLoaded, Return, Goto, Index, cacheVars, writerVars
<1>3. ASSUME NEW u \in Searcher
      PROVE  Own(u)'
  <2>1. CASE u = s
    <3>1. /\ pc'[s] = "idle"
          /\ UNCHANGED <<holds, options, cache_handle, old, read, index_ref>>
      BY DEF IInv, TypeOK, OnIndexLoaded, Return, Goto
    <3> QED BY <1>1, <2>1, <3>1 DEF Own, Locals, Served, Fresh, Cached, Reading
  <2>2. CASE u # s
    <3>1. Same(u)
      BY <2>2 DEF IInv, TypeOK, OnIndexLoaded, Return, Goto, Same
    <3> QED BY <3>1, OthersKeep DEF OnIndexLoaded
  <2> QED BY <2>1, <2>2
<1> QED BY <1>2, <1>3, StoreKeeps DEF IInv, OnIndexLoaded

\* What a step of a searcher at the cache leaves alone.
LEMMA WriterKeeps ==
  ASSUME IInv, UNCHANGED <<options, writerVars>>
  PROVE  options' \in Options /\ Writing' /\ FileIsWritten'
BY DEF IInv, Writing, FileIsWritten, writerVars

LEMMA LookupHitIInv ==
  ASSUME IInv, NEW s \in Searcher, LookupHit(s)
  PROVE  IInv'
<1> DEFINE e == map[path[s]]
<1>1. /\ pc[s] = "lookup" /\ Cache!Lookup(path[s]) /\ SwapHandle(s, e) /\ Goto(s, "release")
      /\ UNCHANGED <<holds, options, writerVars, path, read, index_ref, raw,
                     overlapped, due>>
  BY DEF LookupHit
<1>2. Own(s) /\ path[s] \in Path /\ old[s] = Nil /\ read[s] = Nil
  BY <1>1 DEF IInv, Own, Locals
<1>3. /\ CacheTypes' /\ CacheSafe' /\ e \in Entry /\ e \in alive
      /\ \A x \in Entry : handles'[x] = handles[x] + Is(x, e)
  BY <1>1, <1>2, LookupSafe
<1>4. TypeOK'
  BY <1>1, <1>3 DEF IInv, TypeOK, CacheTypes, SwapHandle, Goto, writerVars
<1>5. HandlesAccounted'
  BY <1>1, <1>2, <1>3, SwapAccounted DEF writerVars
<1>6. CacheIsFresh'
  BY <1>1, MapShrinks DEF Cache!Lookup, writerVars
<1>7. ASSUME NEW u \in Searcher
      PROVE  Own(u)'
  <2>1. CASE u = s
    <3>1. pc'[s] = "release" /\ cache_handle'[s] = e /\ e # Nil
      BY <1>1, <1>3, IndexStoreAssumption DEF IInv, TypeOK, SwapHandle, Goto
    <3>2. Locals(s)' /\ Served(s)'
      BY <1>1, <1>2, <3>1 DEF Own, Locals, Served, Cached, Forced
    <3>3. due[s] <= written[path[s]] /\ due[s] \in Nat /\ written[path[s]] \in Nat
      BY <1>1, <1>2 DEF Own, Fresh, IInv, TypeOK
    <3>4. holds[e] \in Index
      BY <1>3 DEF IInv, TypeOK, CacheSafe
    <3>5. options.write_index_cache => NotOlder(holds[e], due[s])
      BY <1>2, <3>1, <3>3, <3>4 DEF IInv, CacheIsFresh, NotOlder, Index
    <3>6. Fresh(s)'
      BY <1>1, <1>2, <3>1, <3>3, <3>5 DEF Own, Fresh, Reading, NotOlder, writerVars
    <3> QED BY <2>1, <3>2, <3>6 DEF Own
  <2>2. CASE u # s
    <3>1. Same(u)
      BY <1>1, <2>2 DEF IInv, TypeOK, SwapHandle, Goto, Same
    <3> QED BY <1>1, <3>1, OthersKeep
  <2> QED BY <2>1, <2>2
<1> QED BY <1>1, <1>3, <1>4, <1>5, <1>6, <1>7, WriterKeeps DEF IInv

LEMMA InsertReadIInv ==
  ASSUME IInv, NEW s \in Searcher, NEW e \in Entry, InsertRead(s, e)
  PROVE  IInv'
<1> DEFINE index == [read[s] EXCEPT !.tainted = overlapped[s]]
<1>1. /\ pc[s] = "insert" /\ Cache!Insert(path[s], e) /\ holds' = [holds EXCEPT ![e] = index]
      /\ read' = [read EXCEPT ![s] = index] /\ SwapHandle(s, e) /\ Goto(s, "release")
      /\ UNCHANGED <<options, writerVars, path, index_ref, raw, overlapped, due>>
  BY DEF InsertRead
<1>2. Own(s) /\ path[s] \in Path /\ old[s] = Nil /\ read[s] \in Index
  BY <1>1 DEF IInv, TypeOK, Own, Locals
<1>3. /\ index \in Index /\ index # Nil
      /\ index.tainted = overlapped[s] /\ index.version = read[s].version
  BY <1>2, NilIsNoIndex DEF IInv, TypeOK, Index
<1> HIDE DEF index
<1>4. /\ CacheTypes' /\ CacheSafe'
      /\ holds' \in [Entry -> Index \cup {Nil}] /\ holds'[e] = index
      /\ \A x \in alive : holds'[x] = holds[x]
      /\ \A x \in Entry : handles'[x] = handles[x] + Is(x, e)
  BY <1>1, <1>2, <1>3, InsertSafe
<1>5. TypeOK'
  BY <1>1, <1>3, <1>4 DEF IInv, TypeOK, CacheTypes, SwapHandle, Goto, writerVars
<1>6. HandlesAccounted'
  BY <1>1, <1>2, <1>4, SwapAccounted DEF writerVars
<1>7. /\ due[s] <= written[path[s]] /\ due[s] \in Nat /\ written[path[s]] \in Nat
      /\ ~overlapped[s] => writer.path # path[s] /\ read[s].version = written[path[s]]
  BY <1>1, <1>2 DEF Own, Fresh, IInv, TypeOK, Reading
<1>8. CacheIsFresh'
  <2> SUFFICES ASSUME options.write_index_cache, NEW p \in Path, map'[p] # Nil
               PROVE  /\ NotOlder(holds'[map'[p]], written[p])
                      /\ writer.path = p /\ writer.pc \in {"release", "file", "write"} =>
                           NotOlder(holds'[map'[p]], writer.index.version)
    BY <1>1 DEF CacheIsFresh, NotOlder, writerVars
  <2>1. map' = [map EXCEPT ![path[s]] = e] /\ map \in [Path -> Entry \cup {Nil}]
    BY <1>1 DEF Cache!Insert, IInv, TypeOK
  <2>2. CASE p = path[s]
    <3>1. holds'[map'[p]] = index
      BY <1>4, <2>1, <2>2
    <3> QED BY <1>3, <1>7, <2>2, <3>1 DEF NotOlder
  <2>3. CASE p # path[s]
    <3>1. map'[p] = map[p] /\ map[p] \in alive
      BY <2>1, <2>3 DEF IInv, CacheSafe
    <3>2. holds'[map'[p]] = holds[map[p]]
      BY <1>4, <3>1
    <3> QED BY <3>1, <3>2 DEF IInv, CacheIsFresh
  <2> QED BY <2>2, <2>3
<1>9. ASSUME NEW u \in Searcher
      PROVE  Own(u)'
  <2>1. CASE u = s
    <3>1. /\ pc'[s] = "release" /\ cache_handle'[s] = e /\ e # Nil /\ read'[s] = index
      BY <1>1, IndexStoreAssumption DEF IInv, TypeOK, SwapHandle, Goto
    <3>2. Locals(s)' /\ Served(s)'
      BY <1>1, <1>2, <1>3, <1>4, <3>1 DEF Own, Locals, Served, Cached, Forced
    <3>3. NotOlder(index, due[s])
      BY <1>3, <1>7 DEF NotOlder
    <3>4. Fresh(s)'
      BY <1>1, <1>2, <1>3, <1>7, <3>1, <3>3 DEF Own, Fresh, Reading, NotOlder, writerVars
    <3> QED BY <2>1, <3>2, <3>4 DEF Own
  <2>2. CASE u # s
    <3>1. Same(u)
      BY <1>1, <2>2 DEF IInv, TypeOK, SwapHandle, Goto, Same
    <3>2. cache_handle[u] # Nil => holds'[cache_handle[u]] = holds[cache_handle[u]]
      BY <1>4, HeldIsAlive
    <3> QED BY <1>1, <3>1, <3>2, OthersKeep
  <2> QED BY <2>1, <2>2
<1> QED BY <1>1, <1>4, <1>5, <1>6, <1>8, <1>9, WriterKeeps DEF IInv

\* Releasing the old handle may take its entry out of the map, not the index away
\* from those who hold it.
LEMMA ReleaseOldIInv ==
  ASSUME IInv, NEW s \in Searcher, ReleaseOld(s)
  PROVE  IInv'
<1> DEFINE index == IF read[s] # Nil THEN read[s] ELSE holds[cache_handle[s]]
<1>1. /\ pc[s] = "release" /\ Goto(s, "check")
      /\ old' = [old EXCEPT ![s] = Nil] /\ read' = [read EXCEPT ![s] = Nil]
      /\ index_ref' = [index_ref EXCEPT ![s] = index]
      /\ UNCHANGED <<holds, options, writerVars, path, cache_handle, raw,
                     overlapped, due>>
  BY DEF ReleaseOld
<1>2. Own(s) /\ path[s] \in Path
  BY <1>1 DEF IInv, Own, Locals
<1>3. /\ index \in Index /\ index # Nil
      /\ Cached(s) => holds[cache_handle[s]] = index
      /\ NotOlder(index, due[s]) \/ (Cached(s) /\ ~Forced(s) /\ ~options.write_index_cache)
  <2>1. CASE read[s] # Nil
    BY <1>1, <1>2, <2>1 DEF Own, Served, Fresh, IInv, TypeOK
  <2>2. CASE read[s] = Nil
    <3>1. Cached(s) /\ ~Forced(s) /\ cache_handle[s] # Nil
      BY <1>1, <1>2, <2>2 DEF Own, Locals, Served
    <3>2. holds[cache_handle[s]] \in Index
      BY <3>1, HeldIsAlive DEF IInv, TypeOK, CacheSafe
    <3> QED BY <1>1, <1>2, <2>2, <3>1, <3>2, NilIsNoIndex DEF Own, Fresh
  <2> QED BY <2>1, <2>2
<1> HIDE DEF index
<1>4. /\ CacheTypes' /\ CacheSafe' /\ HandlesAccounted'
      /\ \A p \in Path : map'[p] = Nil \/ map'[p] = map[p]
  <2>1. CASE old[s] # Nil
    <3>1. old[s] \in Entry /\ Cache!Release(old[s])
      BY <2>1 DEF ReleaseOld, IInv, TypeOK
    <3>2. GivesBack(s, old[s])
      BY <1>1 DEF GivesBack
    <3> QED BY <1>1, <3>1, <3>2, ReleaseSafe, ReleaseAccounted DEF writerVars
  <2>2. CASE old[s] = Nil
    <3>1. UNCHANGED cacheVars
      BY <2>2 DEF ReleaseOld
    <3>2. old' = old
      BY <1>1, <2>2 DEF IInv, TypeOK
    <3> QED BY <1>1, <3>1, <3>2 DEF IInv, TypeOK, CacheTypes, CacheSafe, HandlesAccounted,
                                    cacheVars, writerVars
  <2> QED BY <2>1, <2>2
<1>5. TypeOK'
  BY <1>1, <1>3, <1>4 DEF IInv, TypeOK, CacheTypes, Goto, writerVars
<1>6. CacheIsFresh'
  BY <1>1, <1>4, MapShrinks DEF writerVars
<1>7. ASSUME NEW u \in Searcher
      PROVE  Own(u)'
  <2>1. CASE u = s
    <3>1. /\ pc'[s] = "check" /\ old'[s] = Nil /\ read'[s] = Nil /\ index_ref'[s] = index
      BY <1>1 DEF IInv, TypeOK, Goto
    <3>2. Locals(s)' /\ Served(s)'
      BY <1>1, <1>2, <1>3, <3>1 DEF Own, Locals, Served, Cached, Forced
    <3>3. Fresh(s)'
      BY <1>1, <1>2, <1>3, <3>1 DEF Own, Fresh, Reading, NotOlder, Cached, Forced, writerVars
    <3> QED BY <2>1, <3>2, <3>3 DEF Own
  <2>2. CASE u # s
    <3>1. Same(u)
      BY <1>1, <2>2 DEF IInv, TypeOK, Goto, Same
    <3> QED BY <1>1, <3>1, OthersKeep
  <2> QED BY <2>1, <2>2
<1> QED BY <1>1, <1>4, <1>5, <1>6, <1>7, WriterKeeps DEF IInv

\* ~Searcher gives the reader's handle back, and everything else of the searcher goes.
LEMMA DestroyIInv ==
  ASSUME IInv, NEW s \in Searcher, Destroy(s)
  PROVE  IInv'
<1>1. /\ pc[s] = "idle" /\ cache_handle' = [cache_handle EXCEPT ![s] = Nil]
      /\ index_ref' = [index_ref EXCEPT ![s] = Nil]
      /\ raw' = [raw EXCEPT ![s] = Nil]
      /\ UNCHANGED <<holds, options, writerVars, pc, path, old, read, overlapped, due>>
  BY DEF Destroy
<1>2. /\ CacheTypes' /\ CacheSafe' /\ HandlesAccounted'
      /\ \A p \in Path : map'[p] = Nil \/ map'[p] = map[p]
  <2>1. CASE cache_handle[s] # Nil
    <3>1. cache_handle[s] \in Entry /\ Cache!Release(cache_handle[s])
      BY <2>1 DEF Destroy, IInv, TypeOK
    <3>2. GivesBack(s, cache_handle[s])
      BY <1>1 DEF GivesBack
    <3> QED BY <1>1, <3>1, <3>2, ReleaseSafe, ReleaseAccounted DEF writerVars
  <2>2. CASE cache_handle[s] = Nil
    <3>1. UNCHANGED cacheVars
      BY <2>2 DEF Destroy
    <3>2. cache_handle' = cache_handle
      BY <1>1, <2>2 DEF IInv, TypeOK
    <3> QED BY <1>1, <3>1, <3>2 DEF IInv, TypeOK, CacheTypes, CacheSafe, HandlesAccounted,
                                    cacheVars, writerVars
  <2> QED BY <2>1, <2>2
<1>3. TypeOK'
  BY <1>1, <1>2 DEF IInv, TypeOK, CacheTypes, writerVars
<1>4. CacheIsFresh'
  BY <1>1, <1>2, MapShrinks DEF writerVars
<1>5. ASSUME NEW u \in Searcher
      PROVE  Own(u)'
  <2>1. CASE u = s
    <3>1. Own(s) /\ index_ref'[s] = Nil
      BY <1>1 DEF IInv, TypeOK
    <3> QED BY <1>1, <2>1, <3>1 DEF Own, Locals, Served, Fresh, Reading, writerVars
  <2>2. CASE u # s
    <3>1. Same(u)
      BY <1>1, <2>2 DEF IInv, TypeOK, Same
    <3> QED BY <1>1, <3>1, OthersKeep
  <2> QED BY <2>1, <2>2
<1> QED BY <1>1, <1>2, <1>3, <1>4, <1>5, WriterKeeps DEF IInv

\* The cache evicts and frees only what nobody holds.
LEMMA CacheStepIInv ==
  ASSUME IInv, NEW e \in Entry, CacheStep(e)
  PROVE  IInv'
<1>1. UNCHANGED <<options, writerVars, searcherVars>>
  BY DEF CacheStep
<1>2. TypeOK /\ CacheSafe /\ CacheTypes
  BY DEF IInv, TypeOK, CacheTypes
<1>3. /\ CacheTypes' /\ CacheSafe' /\ holds' \in [Entry -> Index \cup {Nil}]
      /\ handles' = handles /\ handles[e] = 0
      /\ \A p \in Path : map'[p] = Nil \/ (map'[p] = map[p] /\ map[p] # e)
      /\ \A x \in Entry : x # e => holds'[x] = holds[x]
  <2>1. CASE Cache!Evict(e) /\ UNCHANGED holds
    BY <1>2, <2>1 DEF CacheTypes, CacheSafe, TypeOK, Cache!Evict, Cache!Unmapped
  <2>2. CASE Cache!Free(e) /\ holds' = [holds EXCEPT ![e] = Nil]
    BY <1>2, <2>2 DEF CacheTypes, CacheSafe, TypeOK, Cache!Free, Cache!Mapped
  <2> QED BY <2>1, <2>2 DEF CacheStep
<1>4. TypeOK'
  BY <1>1, <1>3 DEF IInv, TypeOK, CacheTypes, writerVars, searcherVars
<1>5. HandlesAccounted'
  BY <1>1, <1>3 DEF IInv, HandlesAccounted, writerVars, searcherVars
<1>6. CacheIsFresh'
  <2>1. \A p \in Path : map'[p] = Nil \/ (map'[p] = map[p] /\ holds'[map[p]] = holds[map[p]])
    BY <1>2, <1>3 DEF CacheTypes
  <2> QED BY <1>1, <2>1, MapShrinks DEF writerVars
<1>7. ASSUME NEW u \in Searcher
      PROVE  Own(u)'
  <2>1. cache_handle[u] # Nil => holds'[cache_handle[u]] = holds[cache_handle[u]]
    BY <1>3, HeldIsAlive
  <2>2. Same(u)
    BY <1>1 DEF Same, searcherVars
  <2> QED BY <1>1, <2>1, <2>2, OthersKeep
<1> QED BY <1>1, <1>3, <1>4, <1>5, <1>6, <1>7, WriterKeeps DEF IInv

-----------------------------------------------------------------------------
(***************************************************************************)
(* Steps of the writer.                                                    *)
(***************************************************************************)

\* What a step of the writer may do to a searcher: the file may be written, but
\* under a read that has not filled the cache only when that read is told of it.
Harmless(u) ==
    /\ UNCHANGED <<options, pc, path, cache_handle, old, read, index_ref, raw, due>>
    /\ cache_handle[u] # Nil => holds'[cache_handle[u]] = holds[cache_handle[u]]
    /\ pc[u] \in Reading /\ writer'.path = path[u] => overlapped'[u]
    /\ overlapped[u] => overlapped'[u]
    /\ \A p \in Path : file[p] # Nil => file'[p] # Nil
    /\ \A p \in Path : written[p] <= written'[p]
    /\ pc[u] = "insert" /\ ~overlapped[u] => written'[path[u]] = written[path[u]]

LEMMA SearchersKeep ==
  ASSUME IInv, TypeOK', NEW u \in Searcher, Harmless(u)
  PROVE  Own(u)'
<1>1. Own(u) /\ TypeOK
  BY DEF IInv
<1>2. Locals(u)'
  BY <1>1 DEF Own, Locals, Harmless, Cached, Forced
<1>3. Served(u)'
  BY <1>1 DEF Own, Served, Harmless, Cached
<1>4. Fresh(u)'
  <2>1. pc[u] = "release" /\ read[u] = Nil => cache_handle[u] # Nil
    BY <1>1 DEF Own, Locals, Served
  <2>2. pc[u] # "idle" => due[u] <= written'[path[u]]
    <3>1. due[u] \in Nat /\ (pc[u] # "idle" => path[u] \in Path)
      BY <1>1 DEF TypeOK, Own, Locals
    <3>2. \A p \in Path : written[p] \in Nat /\ written'[p] \in Nat
      BY <1>1 DEF TypeOK
    <3> QED BY <1>1, <3>1, <3>2 DEF Own, Fresh, Harmless
  <2> QED BY <1>1, <2>1, <2>2 DEF Own, Fresh, Harmless, NotOlder, Cached, Forced
<1> QED BY <1>2, <1>3, <1>4 DEF Own

LEMMA BeginWriteIInv ==
  ASSUME IInv, NEW p \in Path, BeginWrite(p)
  PROVE  IInv'
<1> DEFINE index == [version |-> version + 1, tainted |-> FALSE,
                     fits |-> version + 1 \notin Misfits]
<1>1. /\ writer.pc = "idle" /\ version < MaxVersion /\ version' = version + 1
      /\ writer' = [pc |-> IF options.write_index_cache THEN "insert" ELSE "file",
                    path |-> p, handle |-> Nil, index |-> index]
      /\ overlapped' = [u \in Searcher |->
                          overlapped[u] \/ (path[u] = p /\ pc[u] \in Reading)]
      /\ UNCHANGED <<cacheVars, holds, options, file, written, pc, path, cache_handle, old,
                     read, index_ref, raw, due>>
  BY DEF BeginWrite
<1>2. /\ version' \in 0..MaxVersion /\ version \in Nat
      /\ index \in Index /\ index.version = version + 1
  BY <1>1, IndexStoreAssumption DEF IInv, TypeOK, Index
<1> HIDE DEF index
<1>3. /\ writer'.pc \in {"insert", "file"} /\ writer'.path = p /\ writer'.handle = Nil
      /\ writer'.index = index /\ writer.handle = Nil /\ writer.path = Nil
      /\ options.write_index_cache => writer'.pc = "insert"
      /\ writer' \in [pc : {"idle", "insert", "release", "file", "write"},
                      path : Path \cup {Nil}, index : Index \cup {Nil},
                      handle : Entry \cup {Nil}]
  BY <1>1, <1>2 DEF IInv, Writing
<1>4. TypeOK'
  BY <1>1, <1>2, <1>3 DEF IInv, TypeOK, cacheVars
<1>5. Writing'
  BY <1>1, <1>2, <1>3 DEF IInv, TypeOK, Writing
<1>6. CacheSafe' /\ FileIsWritten' /\ options' \in Options
  BY <1>1 DEF IInv, CacheSafe, FileIsWritten, cacheVars
<1>7. HandlesAccounted'
  BY <1>1, <1>3 DEF IInv, HandlesAccounted, cacheVars
<1>8. CacheIsFresh'
  BY <1>1, <1>3 DEF IInv, CacheIsFresh, NotOlder, cacheVars
<1>9. ASSUME NEW u \in Searcher
      PROVE  Own(u)'
  <2>1. \A q \in Path : written[q] <= written'[q]
    BY <1>1 DEF IInv, TypeOK
  <2>2. Harmless(u)
    BY <1>1, <1>3, <2>1 DEF Harmless
  <2> QED BY <1>4, <2>2, SearchersKeep
<1> QED BY <1>4, <1>5, <1>6, <1>7, <1>8, <1>9 DEF IInv

WriterInFlight ==
    /\ writer.path \in Path /\ writer.index \in Index /\ writer.index.version = version
    /\ \A p \in Path : written[p] < version

LEMMA WriterInsertIInv ==
  ASSUME IInv, NEW e \in Entry, WriterInsert(e)
  PROVE  IInv'
<1>1. /\ writer.pc = "insert" /\ Cache!Insert(writer.path, e)
      /\ holds' = [holds EXCEPT ![e] = writer.index]
      /\ writer' = [writer EXCEPT !.pc = "release", !.handle = e]
      /\ UNCHANGED <<options, file, version, written, searcherVars>>
  BY DEF WriterInsert
<1>2. WriterInFlight /\ writer.handle = Nil
  BY <1>1 DEF IInv, Writing, WriterInFlight
<1>3. /\ CacheTypes' /\ CacheSafe'
      /\ holds' \in [Entry -> Index \cup {Nil}] /\ holds'[e] = writer.index
      /\ \A x \in alive : holds'[x] = holds[x]
      /\ \A x \in Entry : handles'[x] = handles[x] + Is(x, e)
  BY <1>1, <1>2, InsertSafe DEF WriterInFlight
<1>4. /\ writer'.pc = "release" /\ writer'.handle = e /\ writer'.path = writer.path
      /\ writer'.index = writer.index /\ e # Nil
      /\ writer' \in [pc : {"idle", "insert", "release", "file", "write"},
                      path : Path \cup {Nil}, index : Index \cup {Nil},
                      handle : Entry \cup {Nil}]
  BY <1>1, IndexStoreAssumption DEF IInv, TypeOK
<1>5. TypeOK'
  BY <1>1, <1>3, <1>4 DEF IInv, TypeOK, CacheTypes, searcherVars
<1>6. HandlesAccounted'
  <2> SUFFICES ASSUME NEW x \in Entry
               PROVE  handles'[x] = Count(cache_handle, x) + Count(old, x) + Is(e, x)
    BY <1>1, <1>4 DEF HandlesAccounted, Count, Is, searcherVars
  <2>1. handles[x] = Count(cache_handle, x) + Count(old, x) + Is(Nil, x) /\ x # Nil
    BY <1>2, IndexStoreAssumption DEF IInv, HandlesAccounted, Count, Is
  <2> QED BY <1>3, <2>1, CountType DEF Is
<1>7. Writing' /\ FileIsWritten' /\ options' \in Options
  BY <1>1, <1>2, <1>4 DEF IInv, Writing, WriterInFlight, FileIsWritten
<1>8. CacheIsFresh'
  <2> SUFFICES ASSUME options.write_index_cache, NEW p \in Path, map'[p] # Nil
               PROVE  /\ NotOlder(holds'[map'[p]], written[p])
                      /\ writer.path = p => NotOlder(holds'[map'[p]], writer.index.version)
    BY <1>1, <1>4 DEF CacheIsFresh, NotOlder
  <2>1. map' = [map EXCEPT ![writer.path] = e] /\ map \in [Path -> Entry \cup {Nil}]
    BY <1>1 DEF Cache!Insert, IInv, TypeOK
  <2>2. CASE p = writer.path
    <3>1. holds'[map'[p]] = writer.index
      BY <1>3, <2>1, <2>2
    <3>2. version \in Nat /\ written[p] \in Nat
      BY DEF IInv, TypeOK
    <3> QED BY <1>2, <3>1, <3>2 DEF NotOlder, WriterInFlight
  <2>3. CASE p # writer.path
    <3>1. map'[p] = map[p] /\ map[p] \in alive
      BY <2>1, <2>3 DEF IInv, CacheSafe
    <3>2. holds'[map'[p]] = holds[map[p]]
      BY <1>3, <3>1
    <3> QED BY <2>3, <3>1, <3>2 DEF IInv, CacheIsFresh
  <2> QED BY <2>2, <2>3
<1>9. ASSUME NEW u \in Searcher
      PROVE  Own(u)'
  <2>1. cache_handle[u] # Nil => holds'[cache_handle[u]] = holds[cache_handle[u]]
    BY <1>3, HeldIsAlive
  <2>2. \A q \in Path : written[q] <= written'[q]
    BY <1>1 DEF IInv, TypeOK
  <2>3. Harmless(u)
    BY <1>1, <1>4, <2>1, <2>2 DEF Harmless, IInv, Own, Fresh, searcherVars
  <2> QED BY <1>5, <2>3, SearchersKeep
<1> QED BY <1>3, <1>5, <1>6, <1>7, <1>8, <1>9 DEF IInv

LEMMA WriterReleaseIInv ==
  ASSUME IInv, WriterRelease
  PROVE  IInv'
<1> DEFINE e == writer.handle
<1>1. /\ writer.pc = "release" /\ Cache!Release(e)
      /\ writer' = [writer EXCEPT !.pc = "file", !.handle = Nil]
      /\ UNCHANGED <<holds, options, file, version, written, searcherVars>>
  BY DEF WriterRelease
<1>2. WriterInFlight /\ e \in Entry
  BY <1>1 DEF IInv, TypeOK, Writing, WriterInFlight
<1> HIDE DEF e
<1>3. /\ CacheTypes' /\ CacheSafe'
      /\ \A p \in Path : map'[p] = Nil \/ map'[p] = map[p]
      /\ \A x \in Entry : handles'[x] = handles[x] - Is(x, e)
  BY <1>1, <1>2, ReleaseSafe
<1>4. /\ writer'.pc = "file" /\ writer'.handle = Nil /\ writer'.path = writer.path
      /\ writer'.index = writer.index
      /\ writer' \in [pc : {"idle", "insert", "release", "file", "write"},
                      path : Path \cup {Nil}, index : Index \cup {Nil},
                      handle : Entry \cup {Nil}]
  BY <1>1 DEF IInv, TypeOK
<1>5. TypeOK'
  BY <1>1, <1>3, <1>4 DEF IInv, TypeOK, CacheTypes, searcherVars
<1>6. HandlesAccounted'
  <2> SUFFICES ASSUME NEW x \in Entry
               PROVE  handles'[x] = Count(cache_handle, x) + Count(old, x) + Is(Nil, x)
    BY <1>1, <1>4 DEF HandlesAccounted, Count, Is, searcherVars
  <2>1. handles[x] = Count(cache_handle, x) + Count(old, x) + Is(e, x) /\ x # Nil
    BY IndexStoreAssumption DEF IInv, HandlesAccounted, Count, Is, e
  <2> QED BY <1>3, <2>1, CountType DEF Is
<1>7. Writing' /\ FileIsWritten' /\ options' \in Options
  BY <1>1, <1>2, <1>4 DEF IInv, Writing, WriterInFlight, FileIsWritten
<1>8. CacheIsFresh'
  <2> SUFFICES ASSUME options.write_index_cache, NEW p \in Path, map'[p] # Nil
               PROVE  /\ NotOlder(holds[map'[p]], written[p])
                      /\ writer.path = p => NotOlder(holds[map'[p]], writer.index.version)
    BY <1>1, <1>4 DEF CacheIsFresh, NotOlder
  <2>1. map'[p] = map[p]
    BY <1>3
  <2> QED BY <1>1, <2>1 DEF IInv, CacheIsFresh
<1>9. ASSUME NEW u \in Searcher
      PROVE  Own(u)'
  <2>1. \A q \in Path : written[q] <= written'[q]
    BY <1>1 DEF IInv, TypeOK
  <2>2. Harmless(u)
    BY <1>1, <1>4, <2>1 DEF Harmless, IInv, Own, Fresh, searcherVars
  <2> QED BY <1>5, <2>2, SearchersKeep
<1> QED BY <1>3, <1>5, <1>6, <1>7, <1>8, <1>9 DEF IInv

LEMMA WriterSkipsFileIInv ==
  ASSUME IInv, WriterSkipsFile
  PROVE  IInv'
<1>1. /\ writer.pc = "file" /\ writer' = NotWriting
      /\ UNCHANGED <<cacheVars, holds, options, file, version, written, searcherVars>>
  BY DEF WriterSkipsFile
<1>2. TypeOK'
  BY <1>1 DEF IInv, TypeOK, NotWriting, cacheVars, searcherVars
<1>3. CacheSafe' /\ FileIsWritten' /\ options' \in Options
  BY <1>1 DEF IInv, CacheSafe, FileIsWritten, cacheVars
<1>4. writer.handle = Nil /\ writer'.handle = Nil /\ writer'.path = Nil /\ writer'.pc = "idle"
  BY <1>1 DEF IInv, Writing, NotWriting
<1>5. HandlesAccounted' /\ Writing'
  BY <1>1, <1>4 DEF IInv, HandlesAccounted, Writing, cacheVars, searcherVars
<1>6. CacheIsFresh'
  BY <1>1, <1>4 DEF IInv, CacheIsFresh, NotOlder, cacheVars
<1>7. ASSUME NEW u \in Searcher
      PROVE  Own(u)'
  <2>1. \A q \in Path : written[q] <= written'[q]
    BY <1>1 DEF IInv, TypeOK
  <2>2. pc[u] \in Reading => path[u] # Nil
    BY IndexStoreAssumption DEF IInv, Own, Locals, Reading
  <2>3. Harmless(u)
    BY <1>1, <1>4, <2>1, <2>2 DEF Harmless, searcherVars
  <2> QED BY <1>2, <2>3, SearchersKeep
<1> QED BY <1>2, <1>3, <1>5, <1>6, <1>7 DEF IInv

LEMMA WriterTruncatesIInv ==
  ASSUME IInv, WriterTruncates
  PROVE  IInv'
<1>1. /\ writer.pc = "file" /\ file' = [file EXCEPT ![writer.path] = Torn]
      /\ writer' = [writer EXCEPT !.pc = "write"]
      /\ UNCHANGED <<cacheVars, holds, options, version, written, searcherVars>>
  BY DEF WriterTruncates
<1>2. Torn \in Index /\ Torn # Nil /\ Torn.tainted
  <2>1. Torn \in Index /\ Torn.tainted
    BY IndexStoreAssumption DEF Index, Torn
  <2> QED BY <2>1, NilIsNoIndex
<1>3. WriterInFlight
  BY <1>1 DEF IInv, Writing, WriterInFlight
<1>4. /\ writer'.pc = "write" /\ writer'.handle = writer.handle /\ writer'.path = writer.path
      /\ writer'.index = writer.index
      /\ writer' \in [pc : {"idle", "insert", "release", "file", "write"},
                      path : Path \cup {Nil}, index : Index \cup {Nil},
                      handle : Entry \cup {Nil}]
  BY <1>1 DEF IInv, TypeOK
<1>5. TypeOK'
  BY <1>1, <1>2, <1>4 DEF IInv, TypeOK, cacheVars, searcherVars
<1>6. CacheSafe' /\ options' \in Options /\ Writing' /\ HandlesAccounted'
  BY <1>1, <1>3, <1>4 DEF IInv, CacheSafe, Writing, WriterInFlight, HandlesAccounted, cacheVars,
                          searcherVars
<1>7. FileIsWritten'
  BY <1>1, <1>2 DEF IInv, TypeOK, FileIsWritten
<1>8. CacheIsFresh'
  BY <1>1, <1>4 DEF IInv, CacheIsFresh, NotOlder, cacheVars
<1>9. ASSUME NEW u \in Searcher
      PROVE  Own(u)'
  <2>1. \A q \in Path : written[q] <= written'[q] /\ (file[q] # Nil => file'[q] # Nil)
    BY <1>1, <1>2 DEF IInv, TypeOK
  <2>2. Harmless(u)
    BY <1>1, <1>4, <2>1 DEF Harmless, IInv, Own, Fresh, searcherVars
  <2> QED BY <1>5, <2>2, SearchersKeep
<1> QED BY <1>5, <1>6, <1>7, <1>8, <1>9 DEF IInv

\* When the file is complete, what was read from it without noticing is of another
\* file, and what is cached has been brought up to it.
LEMMA WriterEndsIInv ==
  ASSUME IInv, WriterEnds
  PROVE  IInv'
<1>1. /\ writer.pc = "write" /\ writer' = NotWriting
      /\ UNCHANGED <<cacheVars, holds, options, version, searcherVars>>
  BY DEF WriterEnds
<1>2. WriterInFlight /\ writer.handle = Nil /\ writer.index # Nil
  BY <1>1, NilIsNoIndex DEF IInv, Writing, WriterInFlight
<1>3. /\ writer'.handle = Nil /\ writer'.path = Nil /\ writer'.pc = "idle"
      /\ version \in 0..MaxVersion
  BY <1>1 DEF NotWriting, IInv, TypeOK
<1>4. \A q \in Path :
        \/ file'[q] = file[q] /\ written'[q] = written[q]
        \/ q = writer.path /\ file'[q] = writer.index /\ written'[q] = version
  BY <1>2 DEF WriterEnds, IInv, TypeOK, WriterInFlight
<1>5. /\ file' \in [Path -> Index \cup {Nil}] /\ written' \in [Path -> 0..MaxVersion]
  BY <1>2, <1>3 DEF WriterEnds, IInv, TypeOK, WriterInFlight
<1>6. TypeOK'
  BY <1>1, <1>5 DEF IInv, TypeOK, NotWriting, cacheVars, searcherVars
<1>7. CacheSafe' /\ HandlesAccounted' /\ options' \in Options
  BY <1>1, <1>2, <1>3 DEF IInv, CacheSafe, HandlesAccounted, cacheVars, searcherVars
<1>8. \A q \in Path : /\ written[q] <= written'[q] /\ written'[q] <= version
                      /\ written[q] \in Nat /\ written'[q] \in Nat
  BY <1>2, <1>3, <1>4, IndexStoreAssumption DEF IInv, TypeOK, WriterInFlight
<1>9. Writing' /\ FileIsWritten'
  <2>1. Writing'
    BY <1>1, <1>3, <1>8 DEF Writing
  <2>2. FileIsWritten'
    BY <1>2, <1>4 DEF IInv, FileIsWritten, WriterInFlight
  <2> QED BY <2>1, <2>2
<1>10. CacheIsFresh'
  <2> SUFFICES ASSUME options.write_index_cache, NEW p \in Path, map[p] # Nil
               PROVE  NotOlder(holds[map[p]], written'[p])
    BY <1>1, <1>3 DEF CacheIsFresh, NotOlder, cacheVars
  <2>1. /\ NotOlder(holds[map[p]], written[p])
        /\ writer.path = p => NotOlder(holds[map[p]], version)
    BY <1>1, <1>2 DEF IInv, CacheIsFresh, WriterInFlight
  <2> QED BY <1>4, <2>1
<1>11. ASSUME NEW u \in Searcher
       PROVE  Own(u)'
  <2>1. /\ pc[u] \in Reading => path[u] # Nil /\ path[u] \in Path
        /\ pc[u] \in Reading /\ writer.path = path[u] => overlapped[u]
    BY IndexStoreAssumption DEF IInv, Own, Locals, Fresh, Reading
  <2>2. \A q \in Path : file[q] # Nil => file'[q] # Nil
    BY <1>2, <1>4
  <2>3. pc[u] = "insert" /\ ~overlapped[u] => written'[path[u]] = written[path[u]]
    BY <1>4, <2>1 DEF Reading
  <2>4. Harmless(u)
    BY <1>1, <1>3, <1>8, <2>1, <2>2, <2>3 DEF Harmless, searcherVars
  <2> QED BY <1>6, <2>4, SearchersKeep
<1> QED BY <1>6, <1>7, <1>9, <1>10, <1>11 DEF IInv

-----------------------------------------------------------------------------
(***************************************************************************)
(* The theorems.                                                           *)
(***************************************************************************)

LEMMA InitIInv == Init => IInv
<1> SUFFICES ASSUME Init PROVE IInv
  OBVIOUS
<1>1. TypeOK /\ options \in Options
  BY IndexStoreAssumption DEF Init, TypeOK, NotWriting, Cache!Init
<1>2. CacheSafe
  BY DEF Init, CacheSafe, Cache!Init
<1>3. HandlesAccounted
  <2> SUFFICES ASSUME NEW e \in Entry
               PROVE  handles[e] = Cardinality({s \in Searcher : cache_handle[s] = e})
                                     + Cardinality({s \in Searcher : old[s] = e})
                                     + (IF writer.handle = e THEN 1 ELSE 0)
    BY DEF HandlesAccounted
  <2>1. e # Nil
    BY IndexStoreAssumption
  <2>2. /\ {s \in Searcher : cache_handle[s] = e} = {} /\ {s \in Searcher : old[s] = e} = {}
        /\ writer.handle # e /\ handles[e] = 0
    BY <2>1 DEF Init, NotWriting, Cache!Init
  <2>3. Cardinality({}) = 0
    BY FS_EmptySet
  <2> QED BY <2>2, <2>3
<1>4. Writing /\ FileIsWritten /\ CacheIsFresh
  BY DEF Init, Writing, FileIsWritten, CacheIsFresh, NotWriting, Cache!Init
<1>5. \A s \in Searcher : Own(s)
  BY DEF Init, Own, Locals, Served, Fresh, Reading
<1> QED BY <1>1, <1>2, <1>3, <1>4, <1>5 DEF IInv

LEMMA NextIInv == IInv /\ [Next]_vars => IInv'
<1> SUFFICES ASSUME IInv, [Next]_vars PROVE IInv'
  OBVIOUS
<1>1. ASSUME NEW p \in Path, BeginWrite(p) PROVE IInv'
  BY <1>1, BeginWriteIInv
<1>2. CASE WriterStep
  BY <1>2, WriterReleaseIInv, WriterSkipsFileIInv, WriterTruncatesIInv, WriterEndsIInv,
     WriterInsertIInv DEF WriterStep
<1>3. ASSUME NEW s \in Searcher, NEW p \in Path, BeginRead(s, p) PROVE IInv'
  BY <1>3, BeginReadIInv
<1>4. ASSUME NEW s \in Searcher, ReadStep(s) PROVE IInv'
  BY <1>4, LookupHitIInv, LookupMissIInv, OpenFileIInv, ReadFileIInv, ReleaseOldIInv,
     OnIndexLoadedIInv, InsertReadIInv DEF ReadStep
<1>5. ASSUME NEW s \in Searcher, Destroy(s) PROVE IInv'
  BY <1>5, DestroyIInv
<1>6. ASSUME NEW e \in Entry, CacheStep(e) PROVE IInv'
  BY <1>6, CacheStepIInv
<1>7. CASE UNCHANGED vars
  <2>1. UNCHANGED <<cacheVars, holds, options, writerVars, searcherVars>>
    BY <1>7 DEF vars
  <2>2. TypeOK'
    BY <2>1 DEF IInv, TypeOK, cacheVars, writerVars, searcherVars
  <2>3. \A u \in Searcher : Own(u)'
    BY <2>1, OthersKeep DEF Same, searcherVars
  <2> QED BY <2>1, <2>2, <2>3, StoreKeeps DEF IInv, searcherVars
<1> QED BY <1>1, <1>2, <1>3, <1>4, <1>5, <1>6, <1>7 DEF Next

\* The invariant above holds in every reachable state, whatever searchers, the
\* writer, evictions and failing files do in whatever order.
THEOREM StoreInvariant == Spec => []IInv
BY InitIInv, NextIInv, PTL DEF Spec

\* Every variable of the readers, the writer and the cache keeps its type.
THEOREM TypeCorrect == Spec => []TypeOK
<1>1. IInv => TypeOK
  BY DEF IInv
<1> QED BY <1>1, StoreInvariant, PTL

\* A cached reader's cache_handle_ pins a live entry, the one of the index that its
\* searcher uses, also after the key was overwritten or the entry evicted.
THEOREM ReadersPinWhatTheyServe == Spec => []ServedIsPinned
<1>1. IInv => ServedIsPinned
  <2> SUFFICES ASSUME IInv, NEW s \in Searcher, Cached(s), pc[s] = "idle", index_ref[s] # Nil
               PROVE  cache_handle[s] \in alive /\ holds[cache_handle[s]] = index_ref[s]
    BY DEF ServedIsPinned
  <2>1. cache_handle[s] # Nil /\ holds[cache_handle[s]] = index_ref[s]
    BY DEF IInv, Own, Served
  <2> QED BY <2>1, HeldIsAlive
<1> QED BY <1>1, StoreInvariant, PTL

\* The cache's count of handles is the number of IndexCacheHandles that exist: the
\* move assignments and destructors neither lose nor return one twice.
THEOREM EveryHandleHasAnOwner == Spec => []HandlesAccounted
<1>1. IInv => HandlesAccounted
  BY DEF IInv
<1> QED BY <1>1, StoreInvariant, PTL

\* ReadIndex gives what was completely written before it was called, or something
\* later, but for the exceptions that ReadIsFresh names.
THEOREM ReadersAreFresh == Spec => []ReadIsFresh
<1>1. IInv => ReadIsFresh
  BY DEF IInv, Own, Fresh, NotOlder, ReadIsFresh
<1> QED BY <1>1, StoreInvariant, PTL
=============================================================================
