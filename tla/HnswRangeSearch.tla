-------------------------- MODULE HnswRangeSearch --------------------------
(***************************************************************************)
(* FaissHnswAnnSearcher: one search of a loaded HNSW index.                *)
(*                                                                         *)
(* A graph has levels 0 .. max_level; the neighbours of a node on a level  *)
(* are a set (the order of a neighbour list only decides between equally   *)
(* near ones, and here either may win).  A vector is abstracted to its L2  *)
(* distance from the query, after the pre-transform if there is one.       *)
(* The index is not written by a search, so one call stands for all.       *)
(***************************************************************************)
EXTENDS AnnSearcher, FiniteSets, Sequences

CONSTANTS
  Node,       \* storage ids
  Graphs,     \* the indexes to search
  NoMap,      \* faiss_id_map_ == nullptr
  FloatMax    \* the distance faiss pads missing results with

\* A graph is a record of entry_point, max_level, neighbors[level][node], dis and
\* id_map; a call one of api, metric, range, order, limit (k for "ann"), filter
\* (a set of row ids) and an efSearch that FaissHnswSearchParams::Validate accepts.
ASSUME HnswAssumption ==
  /\ Node \subseteq Nat /\ IsFiniteSet(Node)
  /\ \A g \in Graphs : /\ g.entry_point \in Node \cup {-1}
                       /\ g.max_level \in Nat
                       /\ \A l \in 0 .. g.max_level, v \in Node : g.neighbors[l][v] \subseteq Node
                       /\ g.dis \in [Node -> Nat]
  /\ \A c \in Calls : /\ c.limit \in Int /\ c.efSearch \in Nat \ {0} /\ c.range \in Int
                      /\ c.metric \in {"l2", "cosine", "inner_product", "other"}
                      /\ c.order \in {"asc", "desc"}

VARIABLES
  graph,
  level, nearest,
  candidates,  \* the MinimaxHeap: its slots, and the live (not yet popped) ones
  visited,     \* vt
  results,     \* the nodes of result_queue
  nstep

\* pc is "call", "greedy", "expand", "collect", "returned" or "thrown".
vars == <<graph, call, pc, level, nearest, candidates, visited, results, nstep,
          result_ids, result_distances>>
-----------------------------------------------------------------------------
(* Filters. *)

\* The overload that returns only ids does not pass its filter on.
FilterUsed == IF call.api = "range_ids_only" THEN NoFilter ELSE call.filter

RowId(v) == IF graph.id_map = NoMap THEN v ELSE graph.id_map[v]

\* Mutant: the adapter is created without id_map.
is_member_unmapped(v) == FilterUsed = NoFilter \/ v \in FilterUsed

is_member(v) == FilterUsed = NoFilter \/ RowId(v) \in FilterUsed

Qualifies(v) == is_member(v) /\ graph.dis[v] <= Radius

\* Calls that RangeSearch refuses before it searches.
Refused ==
  /\ call.api # "ann"
  /\ \/ call.metric \in {"inner_product", "other"}
     \/ call.metric = "cosine" /\ (call.range \notin CosineThresholds \/ call.order # "desc")
     \/ call.metric = "l2" /\ call.order # "asc"
-----------------------------------------------------------------------------
(* faiss. *)

\* MinimaxHeap::push of several nodes: a popped node keeps its slot, and a full
\* heap keeps the nearest.
PushAll(new, kept) ==
  LET offered == candidates.slots \cup new
  IN  /\ kept \subseteq offered
      /\ Cardinality(kept) = IF Cardinality(offered) <= call.efSearch
                             THEN Cardinality(offered) ELSE call.efSearch
      /\ \A v \in kept, w \in offered \ kept : graph.dis[v] <= graph.dis[w]

\* MinimaxHeap::pop_min.
pop_min(v) == v \in candidates.live /\ \A w \in candidates.live : graph.dis[v] <= graph.dis[w]

\* The answers IndexHNSW::search may give for k results, without the padding:
\* some members of the filter, nearest first.
Nearest(k) ==
  {s \in UNION {[1 .. n -> Node] : n \in 0 .. k} :
     \A i \in DOMAIN s : /\ graph.entry_point # -1 /\ is_member(s[i])
                         /\ \A j \in 1 .. i - 1 : s[j] # s[i] /\ graph.dis[s[j]] <= graph.dis[s[i]]}
-----------------------------------------------------------------------------
Init ==
  /\ graph \in Graphs /\ call \in Calls
  /\ pc = "call" /\ level = 0 /\ nearest = -1 /\ nstep = 0
  /\ candidates = [slots |-> {}, live |-> {}] /\ visited = {} /\ results = {}
  /\ result_ids = <<Stale>> /\ result_distances = <<Stale>>

\* Writes the nodes s to the caller's vectors, ids mapped and distances converted.
Return(s) ==
  /\ result_ids' = [i \in DOMAIN s |-> RowId(s[i])]
  /\ result_distances' = [i \in DOMAIN s |-> Reported(graph.dis[s[i]])]
  /\ pc' = "returned"

Refuse ==
  /\ pc = "call" /\ Refused
  /\ pc' = "thrown"
  /\ UNCHANGED <<graph, call, level, nearest, candidates, visited, results, nstep,
                 result_ids, result_distances>>

\* AnnSearch fills k places; the ones faiss has no result for stay (-1, FloatMax).
AnnSearch ==
  /\ pc = "call" /\ call.api = "ann"
  /\ \E s \in Nearest(call.limit) :
       /\ result_ids' = [i \in 1 .. call.limit |-> IF i <= Len(s) THEN RowId(s[i]) ELSE -1]
       /\ result_distances' = [i \in 1 .. call.limit |->
                                 Reported(IF i <= Len(s) THEN graph.dis[s[i]] ELSE FloatMax)]
  /\ pc' = "returned"
  /\ UNCHANGED <<graph, call, level, nearest, candidates, visited, results, nstep>>

\* An index without vectors: the caller's vectors stay as they are.
EmptyIndex ==
  /\ pc = "call" /\ call.api # "ann" /\ ~Refused
  /\ graph.entry_point = -1
  /\ pc' = "returned"
  /\ UNCHANGED <<graph, call, level, nearest, candidates, visited, results, nstep,
                 result_ids, result_distances>>

\* How many of the nodes s, nearest first, are reported: the loop stops at the
\* first that is too far.
Preserved(s) ==
  LET n == Cardinality({i \in DOMAIN s : \A j \in 1 .. i : graph.dis[s[j]] <= Radius})
  IN  IF n < call.limit THEN n ELSE call.limit

\* With a limit: the top max(efSearch, limit), cut at the radius and the limit.
LimitedSearch ==
  /\ pc = "call" /\ call.api # "ann" /\ ~Refused
  /\ graph.entry_point # -1 /\ call.limit > 0
  /\ \E s \in Nearest(IF call.efSearch > call.limit THEN call.efSearch ELSE call.limit) :
       Return(SubSeq(s, 1, Preserved(s)))
  /\ UNCHANGED <<graph, call, level, nearest, candidates, visited, results, nstep>>

\* Without one: descend from the entry point.
StartGreedy ==
  /\ pc = "call" /\ call.api # "ann" /\ ~Refused
  /\ graph.entry_point # -1 /\ call.limit <= 0
  /\ pc' = "greedy" /\ nearest' = graph.entry_point /\ level' = graph.max_level
  /\ UNCHANGED <<graph, call, candidates, visited, results, nstep, result_ids, result_distances>>

\* Mutant: equally near counts as closer.
CloserOrEqual(v) == graph.dis[v] <= graph.dis[nearest]

Closer(v) == graph.dis[v] < graph.dis[nearest]

\* One round of greedy_update_nearest: to the nearest of the closer neighbours,
\* or down a level.
GreedyUpdateNearest ==
  LET closer == {v \in graph.neighbors[level][nearest] : Closer(v)}
  IN  /\ pc = "greedy" /\ level >= 1
      /\ \/ closer = {} /\ level' = level - 1 /\ nearest' = nearest
         \/ /\ nearest' \in {v \in closer : \A w \in closer : graph.dis[v] <= graph.dis[w]}
            /\ level' = level
      /\ UNCHANGED <<graph, call, pc, candidates, visited, results, nstep,
                     result_ids, result_distances>>

\* HnswRangeSearchFromCandidates up to its while loop.
StartExpand ==
  /\ pc = "greedy" /\ level = 0
  /\ candidates' = [slots |-> {nearest}, live |-> {nearest}]
  /\ visited' = {nearest}
  /\ results' = {v \in {nearest} : Qualifies(v)}
  /\ pc' = "expand"
  /\ UNCHANGED <<graph, call, level, nearest, nstep, result_ids, result_distances>>

\* Mutant: what the filter rejects is not expanded.
ExpandMembersOnly ==
  /\ pc = "expand"
  /\ \E v0 \in Node : pop_min(v0) /\
       LET new == {v \in graph.neighbors[0][v0] \ visited : is_member(v)}
       IN  /\ visited' = visited \cup new
           /\ results' = results \cup {v \in new : Qualifies(v)}
           /\ \E kept \in SUBSET (candidates.slots \cup new) :
                /\ PushAll(new, kept)
                /\ candidates' = [slots |-> kept,
                                  live |-> ((candidates.live \ {v0}) \cup new) \cap kept]
  /\ nstep' = nstep + 1
  /\ pc' = IF candidates'.live = {} \/ nstep + 1 > call.efSearch THEN "collect" ELSE "expand"
  /\ UNCHANGED <<graph, call, level, nearest, result_ids, result_distances>>

\* One round of the while loop.
ExpandCandidate ==
  /\ pc = "expand"
  /\ \E v0 \in Node : pop_min(v0) /\
       LET new == graph.neighbors[0][v0] \ visited
       IN  /\ visited' = visited \cup new
           /\ results' = results \cup {v \in new : Qualifies(v)}
           /\ \E kept \in SUBSET (candidates.slots \cup new) :
                /\ PushAll(new, kept)
                /\ candidates' = [slots |-> kept,
                                  live |-> ((candidates.live \ {v0}) \cup new) \cap kept]
  /\ nstep' = nstep + 1
  /\ pc' = IF candidates'.live = {} \/ nstep + 1 > call.efSearch THEN "collect" ELSE "expand"
  /\ UNCHANGED <<graph, call, level, nearest, result_ids, result_distances>>

\* Emptying result_queue, a queue of (distance, node) pairs, from the back.
Collect ==
  /\ pc = "collect"
  /\ \E s \in [1 .. Cardinality(results) -> results] :
       /\ \A i, j \in DOMAIN s : i < j =>
            \/ graph.dis[s[i]] < graph.dis[s[j]]
            \/ graph.dis[s[i]] = graph.dis[s[j]] /\ s[i] < s[j]
       /\ Return(s)
  /\ UNCHANGED <<graph, call, level, nearest, candidates, visited, results, nstep>>

Next ==
  \/ Refuse \/ AnnSearch \/ EmptyIndex \/ LimitedSearch \/ StartGreedy
  \/ GreedyUpdateNearest \/ StartExpand \/ ExpandCandidate \/ Collect

Spec == Init /\ [][Next]_vars

\* The calling thread runs on.
FairSpec == Spec /\ WF_vars(Next)
-----------------------------------------------------------------------------
TypeOK ==
  /\ pc \in {"call", "greedy", "expand", "collect", "returned", "thrown"}
  /\ level \in 0 .. graph.max_level /\ nstep \in Nat
  /\ nearest \in Node \cup {-1}
  /\ visited \subseteq Node /\ results \subseteq visited
  /\ candidates.live \subseteq candidates.slots /\ candidates.slots \subseteq visited

RangeReturned == pc = "returned" /\ call.api # "ann" /\ graph.entry_point # -1

(***************************************************************************)
(* A range search that returns has written, in the order asked for, rows   *)
(* that pass the filter the caller gave (on row ids, not storage ids) and  *)
(* are within the range, each with its own distance or similarity, none    *)
(* twice, and no more than the limit; with limit -1, all that was found.   *)
(* Two kinds of call do not keep this promise of ann_searcher.h and are    *)
(* set apart in Calls: a limit of 0, which is taken as none, and a filter  *)
(* given to the overload that returns only ids, which drops it.            *)
(***************************************************************************)
AnswerIsSound == RangeReturned =>
  \E s \in [DOMAIN result_ids -> Node] :
    /\ DOMAIN result_distances = DOMAIN result_ids
    /\ IF call.limit >= 0 THEN Len(result_ids) <= call.limit
                          ELSE {s[i] : i \in DOMAIN s} = results
    /\ \A i \in DOMAIN s :
         /\ result_ids[i] = RowId(s[i])
         /\ call.filter # NoFilter => result_ids[i] \in call.filter
         /\ IF call.metric = "cosine"
            THEN graph.dis[s[i]] = 2 - result_distances[i] /\ result_distances[i] >= call.range
            ELSE result_distances[i] = graph.dis[s[i]] /\ result_distances[i] <= call.range
         /\ \A j \in 1 .. i - 1 :
              /\ s[j] # s[i]
              /\ IF call.order = "asc" THEN result_distances[j] <= result_distances[i]
                                       ELSE result_distances[j] >= result_distances[i]

\* The nodes that can be reached from v on level 0.
Reachable(v) ==
  {w \in Node : \A S \in SUBSET Node :
     (v \in S /\ \A u \in S : graph.neighbors[0][u] \subseteq S) => w \in S}

(***************************************************************************)
(* A search without limit whose efSearch is at least the number of vectors *)
(* neither overflows the candidate heap nor stops early: it finds every    *)
(* qualifying vector reachable from where the greedy descent ended, and    *)
(* nothing else.                                                           *)
(***************************************************************************)
WideSearchIsExact ==
  (pc = "collect" /\ Cardinality(Node) <= call.efSearch)
    => results = {v \in Reachable(nearest) : Qualifies(v)}

(***************************************************************************)
(* Every search ends: the descent stops although vectors may be equally    *)
(* near, and the expansion although the graph has cycles.                  *)
(***************************************************************************)
SearchEnds == <>(pc \in {"returned", "thrown"})
=============================================================================
