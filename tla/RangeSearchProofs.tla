----------------------- MODULE RangeSearchProofs -----------------------
(***************************************************************************)
(* Proofs about the searches: first one HNSW search, for every graph (of   *)
(* any number of levels, cycles and equally near vectors included) and     *)
(* every call; then an IVF-PQ index, for any rows, blocks, lists, calls    *)
(* and numbers of threads.                                                 *)
(***************************************************************************)
EXTENDS HnswRangeSearch, IvfPqRangeSearch,
        FiniteSetTheorems, SequenceTheorems, WellFoundedInduction, TLAPS

-----------------------------------------------------------------------------
(***************************************************************************)
(* The inductive invariant.                                                *)
(***************************************************************************)

Inputs == graph \in Graphs /\ call \in Calls

\* After the search has started, nearest is a node; no step is counted before
\* the expansion.
Started ==
  /\ pc \in {"greedy", "expand", "collect"} => nearest \in Node
  /\ pc \in {"call", "greedy"} => nstep = 0

\* Only range searches without limit go through the graph here.
Unlimited == pc \in {"greedy", "expand", "collect"} =>
  call.api # "ann" /\ ~Refused /\ graph.entry_point # -1 /\ call.limit <= 0

\* What has been found is what has been visited and qualifies.
Found == pc \in {"expand", "collect"} =>
  /\ nearest \in visited
  /\ visited \subseteq Reachable(nearest)
  /\ results = {v \in visited : Qualifies(v)}

\* A wide search: its heap has room for every node.
Wide == Cardinality(Node) <= call.efSearch

\* A wide search forgets no candidate and expands every candidate it pops, so
\* it has taken as many steps as it has popped candidates.
Expanded == (pc \in {"expand", "collect"} /\ Wide) =>
  /\ candidates.slots = visited
  /\ \A u \in visited \ candidates.live : graph.neighbors[0][u] \subseteq visited
  /\ nstep = Cardinality(visited \ candidates.live)
  /\ pc = "collect" => candidates.live = {}

IInv == TypeOK /\ Inputs /\ Started /\ Unlimited /\ Found /\ Expanded

-----------------------------------------------------------------------------
\* Neighbours are nodes.
LEMMA NeighborsAreNodes ==
  ASSUME Inputs, NEW l \in 0 .. graph.max_level, NEW v \in Node
  PROVE  graph.neighbors[l][v] \subseteq Node
BY HnswAssumption DEF Inputs

LEMMA LevelZero ==
  ASSUME Inputs, NEW v \in Node
  PROVE  graph.neighbors[0][v] \subseteq Node
<1>1. 0 \in 0 .. graph.max_level
  BY HnswAssumption DEF Inputs
<1> QED
  BY <1>1, NeighborsAreNodes

\* Reachable is closed under the links of level 0, and contains its origin.
LEMMA ReachableClosed ==
  ASSUME Inputs, NEW v \in Node
  PROVE  /\ v \in Reachable(v)
         /\ \A u \in Reachable(v) : graph.neighbors[0][u] \subseteq Reachable(v)
<1>1. v \in Reachable(v)
  BY DEF Reachable
<1>2. ASSUME NEW u \in Reachable(v), NEW w \in graph.neighbors[0][u]
      PROVE  w \in Reachable(v)
  <2>1. u \in Node
    BY DEF Reachable
  <2>2. w \in Node
    BY <2>1, LevelZero
  <2>3. ASSUME NEW S \in SUBSET Node, v \in S,
               \A x \in S : graph.neighbors[0][x] \subseteq S
        PROVE  w \in S
    <3>1. u \in S
      BY <2>3 DEF Reachable
    <3> QED
      BY <2>3, <3>1
  <2> QED
    BY <2>2, <2>3 DEF Reachable
<1> QED
  BY <1>1, <1>2

\* A closed set of nodes that contains v contains all that is reachable from v.
LEMMA ReachableLeast ==
  ASSUME NEW v \in Node, NEW S \in SUBSET Node, v \in S,
         \A u \in S : graph.neighbors[0][u] \subseteq S
  PROVE  Reachable(v) \subseteq S
BY DEF Reachable

\* A heap with room for every node keeps all that is pushed.
LEMMA WideHeapKeepsAll ==
  ASSUME Inputs, Wide, NEW new \in SUBSET Node, NEW kept,
         candidates.slots \subseteq Node, PushAll(new, kept)
  PROVE  kept = candidates.slots \cup new
<1> DEFINE offered == candidates.slots \cup new
<1>1. IsFiniteSet(Node) /\ call.efSearch \in Nat
  BY HnswAssumption DEF Inputs
<1>2. IsFiniteSet(offered) /\ Cardinality(offered) <= Cardinality(Node)
  BY <1>1, FS_Subset
<1>3. Cardinality(offered) \in Nat /\ Cardinality(Node) \in Nat
  BY <1>1, <1>2, FS_CardinalityType
<1>4. Cardinality(offered) <= call.efSearch
  BY <1>1, <1>2, <1>3 DEF Wide
<1>5. kept \subseteq offered /\ Cardinality(kept) = Cardinality(offered)
  BY <1>4 DEF PushAll
<1> HIDE DEF offered
<1>6. kept = offered
  BY <1>2, <1>5, FS_Subset
<1> QED
  BY <1>6 DEF offered

-----------------------------------------------------------------------------
LEMMA InitIInv == Init => IInv
<1> SUFFICES ASSUME Init PROVE IInv
  OBVIOUS
<1>1. Inputs
  BY DEF Init, Inputs
<1>2. graph.max_level \in Nat
  BY <1>1, HnswAssumption DEF Inputs
<1>3. TypeOK
  BY <1>2 DEF Init, TypeOK
<1> QED
  BY <1>1, <1>3 DEF Init, IInv, Started, Unlimited, Found, Expanded

\* Steps that touch neither the search nor its results end outside it.
LEMMA OutsideIInv ==
  ASSUME IInv, UNCHANGED <<graph, call, level, nearest, candidates, visited, results, nstep>>,
         pc' \in {"returned", "thrown"}
  PROVE  IInv'
BY DEF IInv, TypeOK, Inputs, Started, Unlimited, Found, Expanded

LEMMA StartExpandIInv ==
  ASSUME IInv, StartExpand
  PROVE  IInv'
<1> USE DEF IInv
<1>1. nearest \in Node
  BY DEF StartExpand, Started
<1>2. TypeOK'
  BY <1>1 DEF StartExpand, TypeOK
<1>3. Inputs' /\ Started' /\ Unlimited'
  BY <1>1 DEF StartExpand, Inputs, Started, Unlimited, Refused
<1>4. Reachable(nearest)' = Reachable(nearest)
  BY DEF StartExpand, Reachable
<1>5. \A v : Qualifies(v)' = Qualifies(v)
  BY DEF StartExpand, Qualifies, is_member, FilterUsed, RowId, Radius
<1>6. Found'
  BY <1>1, <1>4, <1>5, ReachableClosed DEF StartExpand, Found
<1>7. Expanded'
  <2>0. nstep' = 0
    BY DEF StartExpand, Started
  <2>1. visited' \ candidates'.live = {} /\ candidates'.slots = visited'
    BY DEF StartExpand
  <2>2. pc' # "collect"
    BY DEF StartExpand
  <2> QED
    BY <2>0, <2>1, <2>2, FS_EmptySet DEF Expanded
<1> QED
  BY <1>2, <1>3, <1>6, <1>7

LEMMA ExpandCandidateIInv ==
  ASSUME IInv, ExpandCandidate
  PROVE  IInv'
<1> USE DEF IInv
<1>0. /\ pc = "expand" /\ pc' \in {"expand", "collect"}
      /\ graph' = graph /\ call' = call /\ level' = level /\ nearest' = nearest
      /\ nearest \in Node /\ nearest \in visited /\ nstep' = nstep + 1
  BY DEF ExpandCandidate, Started, Found
<1>1. PICK v0 \in Node : /\ pop_min(v0)
                         /\ LET new == graph.neighbors[0][v0] \ visited
                            IN  /\ visited' = visited \cup new
                                /\ results' = results \cup {v \in new : Qualifies(v)}
                                /\ \E kept \in SUBSET (candidates.slots \cup new) :
                                     /\ PushAll(new, kept)
                                     /\ candidates' = [slots |-> kept,
                                          live |-> ((candidates.live \ {v0}) \cup new) \cap kept]
  BY DEF ExpandCandidate
<1> DEFINE new == graph.neighbors[0][v0] \ visited
<1>2. PICK kept \in SUBSET (candidates.slots \cup new) :
        /\ PushAll(new, kept)
        /\ candidates' = [slots |-> kept, live |-> ((candidates.live \ {v0}) \cup new) \cap kept]
  BY <1>1
<1>3. visited' = visited \cup new /\ results' = results \cup {v \in new : Qualifies(v)}
  BY <1>1
<1>4. v0 \in candidates.live /\ v0 \in visited
  BY <1>1 DEF pop_min, TypeOK
<1>5. new \subseteq Node
  BY LevelZero
<1>6. graph.neighbors[0][v0] \subseteq visited'
  BY <1>3
<1>7. TypeOK'
  <2>1. visited' \subseteq Node /\ results' \subseteq visited'
    BY <1>3, <1>5 DEF TypeOK
  <2>2. candidates'.live \subseteq candidates'.slots /\ candidates'.slots \subseteq visited'
    BY <1>2, <1>3 DEF TypeOK
  <2> QED
    BY <1>0, <2>1, <2>2 DEF TypeOK
<1>8. Inputs' /\ Started' /\ Unlimited'
  BY <1>0 DEF Inputs, Started, Unlimited, Refused
<1>9. Found'
  <2>1. \A v : Qualifies(v)' = Qualifies(v)
    BY <1>0 DEF Qualifies, is_member, FilterUsed, RowId, Radius
  <2>2. Reachable(nearest)' = Reachable(nearest)
    BY <1>0 DEF Reachable
  <2>3. visited \subseteq Reachable(nearest) /\ results = {v \in visited : Qualifies(v)}
    BY <1>0 DEF Found
  <2>4. new \subseteq Reachable(nearest)
    BY <1>0, <1>4, <2>3, ReachableClosed
  <2>5. visited' \subseteq Reachable(nearest)
    BY <1>3, <2>3, <2>4
  <2>6. results' = {v \in visited' : Qualifies(v)}
    BY <1>3, <2>3
  <2> QED
    BY <1>0, <1>3, <2>1, <2>2, <2>5, <2>6 DEF Found
<1>10. Expanded'
  <2> SUFFICES ASSUME Wide PROVE Expanded'
    BY <1>0 DEF Expanded, Wide
  <2>1. /\ candidates.slots = visited /\ nstep = Cardinality(visited \ candidates.live)
        /\ \A u \in visited \ candidates.live : graph.neighbors[0][u] \subseteq visited
    BY <1>0 DEF Expanded
  <2>2. candidates.slots \subseteq Node /\ visited \subseteq Node
    BY <2>1 DEF TypeOK
  <2> HIDE DEF new
  <2>3. kept = visited \cup new
    BY <1>2, <1>5, <2>1, <2>2, WideHeapKeepsAll
  <2>4. new \cap visited = {}
    BY DEF new
  <2>5. candidates'.slots = visited' /\ candidates'.live = (candidates.live \ {v0}) \cup new
    BY <1>2, <1>3, <2>1, <2>3 DEF TypeOK
  <2>6. visited' \ candidates'.live = (visited \ candidates.live) \cup {v0}
    BY <1>3, <1>4, <2>4, <2>5
  <2>7. v0 \notin visited \ candidates.live
    BY <1>4
  <2>8. IsFiniteSet(Node) /\ IsFiniteSet(visited \ candidates.live) /\ IsFiniteSet(visited' \ candidates'.live)
    <3>1. IsFiniteSet(Node)
      BY HnswAssumption
    <3>2. visited \ candidates.live \subseteq Node /\ visited' \ candidates'.live \subseteq Node
      BY <1>3, <1>5, <2>2
    <3> QED
      BY <3>1, <3>2, FS_Subset
  <2>9. Cardinality(visited' \ candidates'.live) = nstep + 1
    BY <2>1, <2>6, <2>7, <2>8, FS_AddElement
  <2>10. nstep + 1 <= Cardinality(Node)
    <3>1. visited' \ candidates'.live \subseteq Node
      BY <1>3, <1>5, <2>2
    <3> QED
      BY <2>8, <2>9, <3>1, FS_Subset
  <2>11. ~(nstep + 1 > call.efSearch)
    <3>1. call.efSearch \in Nat /\ nstep \in Nat
      BY HnswAssumption DEF Inputs, TypeOK
    <3>2. Cardinality(Node) \in Nat
      BY <2>8, FS_CardinalityType
    <3> QED
      BY <2>10, <3>1, <3>2 DEF Wide
  <2>12. pc' = "collect" => candidates'.live = {}
    BY <2>11 DEF ExpandCandidate
  <2>13. \A u \in visited' \ candidates'.live : graph.neighbors[0][u] \subseteq visited'
    BY <1>3, <1>6, <2>1, <2>6
  <2> QED
    BY <1>0, <2>5, <2>9, <2>12, <2>13 DEF Expanded
<1> QED
  BY <1>7, <1>8, <1>9, <1>10

LEMMA NextIInv == IInv /\ [Next]_vars => IInv'
<1> SUFFICES ASSUME IInv, [Next]_vars PROVE IInv'
  OBVIOUS
<1>1. CASE Refuse
  BY <1>1, OutsideIInv DEF Refuse
<1>2. CASE AnnSearch
  BY <1>2, OutsideIInv DEF AnnSearch
<1>3. CASE EmptyIndex
  BY <1>3, OutsideIInv DEF EmptyIndex
<1>4. CASE LimitedSearch
  BY <1>4, OutsideIInv DEF LimitedSearch, Return
<1>5. CASE StartGreedy
  <2>1. graph.entry_point \in Node /\ graph.max_level \in Nat
    BY <1>5, HnswAssumption DEF StartGreedy, IInv, Inputs
  <2>2. graph.max_level \in 0 .. graph.max_level
    BY <2>1
  <2> QED
    BY <1>5, <2>1, <2>2 DEF StartGreedy, IInv, TypeOK, Inputs, Started, Unlimited, Refused, Found, Expanded
<1>6. CASE GreedyUpdateNearest
  <2>1. pc = "greedy" /\ nearest \in Node /\ level \in 0 .. graph.max_level
    BY <1>6 DEF GreedyUpdateNearest, IInv, Started, TypeOK
  <2>2. graph.neighbors[level][nearest] \subseteq Node
    BY <2>1, NeighborsAreNodes DEF IInv
  <2>3. nearest' \in Node
    BY <1>6, <2>1, <2>2 DEF GreedyUpdateNearest
  <2>4. level' \in 0 .. graph.max_level
    <3>1. graph.max_level \in Nat
      BY HnswAssumption DEF IInv, Inputs
    <3> QED
      BY <1>6, <2>1, <3>1 DEF GreedyUpdateNearest
  <2> QED
    BY <1>6, <2>1, <2>3, <2>4 DEF GreedyUpdateNearest, IInv, TypeOK, Inputs, Started, Unlimited, Refused, Found, Expanded
<1>7. CASE StartExpand
  BY <1>7, StartExpandIInv
<1>8. CASE ExpandCandidate
  BY <1>8, ExpandCandidateIInv
<1>9. CASE Collect
  BY <1>9, OutsideIInv DEF Collect, Return
<1>10. CASE UNCHANGED vars
  <2>1. Reachable(nearest)' = Reachable(nearest)
    BY <1>10 DEF vars, Reachable
  <2>2. \A v : Qualifies(v)' = Qualifies(v)
    BY <1>10 DEF vars, Qualifies, is_member, FilterUsed, RowId, Radius
  <2> QED
    BY <1>10, <2>1, <2>2 DEF vars, IInv, TypeOK, Inputs, Started, Unlimited, Refused, Found, Expanded, Wide
<1> QED
  BY <1>1, <1>2, <1>3, <1>4, <1>5, <1>6, <1>7, <1>8, <1>9, <1>10 DEF Next

-----------------------------------------------------------------------------
\* The inductive invariant holds in every search: what is found is what was
\* visited and qualifies, and a wide search expands all it visits.
THEOREM SearchInvariant == Spec => []IInv
BY InitIInv, NextIInv, PTL DEF Spec

\* Levels, nodes, the candidate heap and the visited table stay in their types.
THEOREM SearchTypeCorrect == Spec => []TypeOK
<1>1. IInv => TypeOK
  BY DEF IInv
<1> QED
  BY <1>1, SearchInvariant, PTL

\* A search without limit (IndexHnswRangeSearch) whose efSearch is at least the
\* number of vectors finds exactly the qualifying vectors that can be reached
\* from where the greedy descent ended.
THEOREM WideSearchExact == Spec => []WideSearchIsExact
<1>1. IInv => WideSearchIsExact
  <2> SUFFICES ASSUME IInv, pc = "collect", Wide
               PROVE  results = {v \in Reachable(nearest) : Qualifies(v)}
    BY DEF WideSearchIsExact, Wide
  <2>1. /\ nearest \in Node /\ nearest \in visited /\ visited \subseteq Node
        /\ visited \subseteq Reachable(nearest)
        /\ results = {v \in visited : Qualifies(v)}
    BY DEF IInv, Started, Found, TypeOK
  <2>2. \A u \in visited : graph.neighbors[0][u] \subseteq visited
    BY DEF IInv, Expanded
  <2>3. Reachable(nearest) \subseteq visited
    BY <2>1, <2>2, ReachableLeast
  <2>4. visited = Reachable(nearest)
    BY <2>1, <2>3
  <2> QED
    BY <2>1, <2>4
<1> QED
  BY <1>1, SearchInvariant, PTL

-----------------------------------------------------------------------------
(***************************************************************************)
(* What a range search returns.                                            *)
(***************************************************************************)

\* The calls that are answered as ann_searcher.h says: no filter is given to the
\* overload that drops it, and no limit of 0, which is taken as none.
AsDocumented ==
  \A c \in Calls : /\ c.api = "range_ids_only" => c.filter = NoFilter
                   /\ c.api # "ann" => c.limit # 0

\* Distances and the radius are integers.
LEMMA DistanceTypes ==
  ASSUME Inputs
  PROVE  Radius \in Int /\ \A v \in Node : graph.dis[v] \in Nat
<1>1. graph.dis \in [Node -> Nat] /\ call.range \in Int
  BY HnswAssumption DEF Inputs
<1> QED
  BY <1>1 DEF Radius, CosineSimilarityThresholdToL2Distance

\* The loop that counts the results within the radius counts a prefix of them.
LEMMA PrefixCounted ==
  ASSUME Inputs, NEW m \in Nat, NEW s \in [1 .. m -> Node], NEW a \in 1 .. m,
         a <= Cardinality({k \in DOMAIN s : \A j \in 1 .. k : graph.dis[s[j]] <= Radius})
  PROVE  graph.dis[s[a]] <= Radius
<1> DEFINE P == {k \in DOMAIN s : \A j \in 1 .. k : graph.dis[s[j]] <= Radius}
<1> SUFFICES ASSUME ~(graph.dis[s[a]] <= Radius) PROVE FALSE
  OBVIOUS
<1> DEFINE Q == 1 .. (a - 1)
<1>1. P \in SUBSET Q
  OBVIOUS
<1>2. IsFiniteSet(Q) /\ Cardinality(Q) = a - 1
  BY FS_Interval
<1> HIDE DEF P, Q
<1>3. IsFiniteSet(P) /\ Cardinality(P) <= a - 1
  BY <1>1, <1>2, FS_Subset, Zenon
<1>4. Cardinality(P) \in Nat
  BY <1>3, FS_CardinalityType
<1>5. a <= Cardinality(P)
  BY DEF P
<1> QED
  BY <1>3, <1>4, <1>5

\* Writing q, which is sorted, filtered, within the radius and as long as the
\* limit allows, to the caller's vectors makes a sound answer.
LEMMA ReturnIsSound ==
  ASSUME AsDocumented, Inputs, ~Refused, call.api # "ann",
         NEW p \in Nat, NEW q \in [1 .. p -> Node],
         \A a \in 1 .. p : /\ is_member(q[a]) /\ graph.dis[q[a]] <= Radius
                           /\ \A j \in 1 .. a - 1 : q[j] # q[a] /\ graph.dis[q[j]] <= graph.dis[q[a]],
         IF call.limit > 0 THEN p <= call.limit ELSE {q[a] : a \in 1 .. p} = results,
         Return(q), UNCHANGED <<graph, call, results>>
  PROVE  AnswerIsSound'
<1>1. /\ DOMAIN q = 1 .. p
      /\ result_ids' = [a \in 1 .. p |-> RowId(q[a])]
      /\ result_distances' = [a \in 1 .. p |-> Reported(graph.dis[q[a]])]
  BY DEF Return
<1>2. Len(result_ids') = p
  BY <1>1
<1>3. call.filter # NoFilter => FilterUsed = call.filter
  BY DEF AsDocumented, Inputs, FilterUsed
<1>4. /\ call.range \in Int /\ call.metric \in {"l2", "cosine"}
      /\ call.order = IF call.metric = "cosine" THEN "desc" ELSE "asc"
  BY HnswAssumption DEF Inputs, Refused
<1>5. Radius \in Int /\ \A v \in Node : graph.dis[v] \in Nat
  BY DistanceTypes
<1>6. ASSUME NEW a \in 1 .. p
      PROVE  /\ result_ids'[a] = RowId(q[a])
             /\ call.filter # NoFilter => result_ids'[a] \in call.filter
             /\ IF call.metric = "cosine"
                THEN graph.dis[q[a]] = 2 - result_distances'[a] /\ result_distances'[a] >= call.range
                ELSE result_distances'[a] = graph.dis[q[a]] /\ result_distances'[a] <= call.range
             /\ \A j \in 1 .. a - 1 :
                  /\ q[j] # q[a]
                  /\ IF call.order = "asc" THEN result_distances'[j] <= result_distances'[a]
                                           ELSE result_distances'[j] >= result_distances'[a]
  <2>1. result_ids'[a] = RowId(q[a])
    BY <1>1
  <2>2. call.filter # NoFilter => result_ids'[a] \in call.filter
    BY <1>3, <2>1 DEF is_member
  <2>3. \A j \in 1 .. p : result_distances'[j] = Reported(graph.dis[q[j]])
    BY <1>1
  <2>4. \A j \in 1 .. a - 1 : j \in 1 .. p
    OBVIOUS
  <2>5. \A j \in 1 .. p : graph.dis[q[j]] \in Nat
    BY <1>5
  <2>6. CASE call.metric = "cosine"
    <3>1. \A j \in 1 .. p : result_distances'[j] = 2 - graph.dis[q[j]]
      BY <2>3, <2>6 DEF Reported, L2DistanceToCosineSimilarity
    <3>2. Radius = 2 - call.range
      BY <2>6 DEF Radius, CosineSimilarityThresholdToL2Distance
    <3>3. graph.dis[q[a]] <= Radius
      OBVIOUS
    <3>4. graph.dis[q[a]] = 2 - result_distances'[a] /\ result_distances'[a] >= call.range
      <4> DEFINE d == graph.dis[q[a]]
                 e == result_distances'[a]
                 c == call.range
      <4>1. d \in Nat /\ e = 2 - d /\ c \in Int /\ d <= 2 - c
        BY <1>4, <2>5, <3>1, <3>2, <3>3
      <4> HIDE DEF d, e, c
      <4>2. d = 2 - e /\ e >= c
        BY <4>1
      <4> QED
        BY <4>2 DEF d, e, c
    <3>5. ASSUME NEW j \in 1 .. a - 1
          PROVE  q[j] # q[a] /\ result_distances'[j] >= result_distances'[a]
      <4> DEFINE d == graph.dis[q[a]]
                 b == graph.dis[q[j]]
                 e == result_distances'[a]
                 f == result_distances'[j]
      <4>1. q[j] # q[a] /\ b <= d
        OBVIOUS
      <4>2. d \in Nat /\ b \in Nat /\ e = 2 - d /\ f = 2 - b
        BY <2>4, <2>5, <3>1
      <4> HIDE DEF d, b, e, f
      <4>3. f >= e
        BY <4>1, <4>2
      <4> QED
        BY <4>1, <4>3 DEF e, f
    <3> QED
      BY <1>4, <2>1, <2>2, <2>6, <3>4, <3>5
  <2>7. CASE call.metric = "l2"
    <3>1. \A j \in 1 .. p : result_distances'[j] = graph.dis[q[j]]
      BY <2>3, <2>7 DEF Reported
    <3>2. Radius = call.range
      BY <2>7 DEF Radius
    <3> QED
      BY <1>4, <2>1, <2>2, <2>4, <2>5, <2>7, <3>1, <3>2
  <2> QED
    BY <1>4, <2>6, <2>7
<1>7. \A v : RowId(v)' = RowId(v)
  BY DEF RowId
<1>8. q \in [DOMAIN result_ids' -> Node] /\ DOMAIN result_distances' = DOMAIN result_ids'
  BY <1>1
<1>9. DOMAIN q = DOMAIN result_ids' /\ DOMAIN q = 1 .. p
  BY <1>1
<1>10. IF call'.limit >= 0 THEN Len(result_ids') <= call'.limit
                           ELSE {q[a] : a \in DOMAIN q} = results'
  <2>1. call.limit \in Int /\ call.limit # 0
    BY HnswAssumption DEF AsDocumented, Inputs
  <2> QED
    BY <1>2, <1>9, <2>1
<1>11. \A a \in DOMAIN q :
         /\ result_ids'[a] = RowId(q[a])'
         /\ call'.filter # NoFilter => result_ids'[a] \in call'.filter
         /\ IF call'.metric = "cosine"
            THEN graph'.dis[q[a]] = 2 - result_distances'[a] /\ result_distances'[a] >= call'.range
            ELSE result_distances'[a] = graph'.dis[q[a]] /\ result_distances'[a] <= call'.range
         /\ \A j \in 1 .. a - 1 :
              /\ q[j] # q[a]
              /\ IF call'.order = "asc" THEN result_distances'[j] <= result_distances'[a]
                                        ELSE result_distances'[j] >= result_distances'[a]
  BY <1>6, <1>7, <1>9
<1> QED
  BY <1>8, <1>10, <1>11 DEF AnswerIsSound

\* A strictly sorted listing of as many results as there are lists all of them.
LEMMA ListsAll ==
  ASSUME NEW R, IsFiniteSet(R), NEW s \in [1 .. Cardinality(R) -> R],
         \A a, j \in 1 .. Cardinality(R) : a < j => s[a] # s[j]
  PROVE  {s[a] : a \in 1 .. Cardinality(R)} = R
<1> DEFINE n == Cardinality(R)
<1>1. n \in Nat
  BY FS_CardinalityType
<1> SUFFICES ASSUME NEW r \in R, r \notin {s[a] : a \in 1 .. n} PROVE FALSE
  OBVIOUS
<1> DEFINE D == 1 .. n
           T == R \ {r}
<1>2. IsFiniteSet(D) /\ Cardinality(D) = n
  BY <1>1, FS_Interval
<1>3. IsFiniteSet(T) /\ Cardinality(T) = n - 1
  BY FS_RemoveElement
<1>4. s \in [D -> T]
  OBVIOUS
<1>5. \A x, y \in D : x # y => s[x] # s[y]
  BY <1>1
<1> HIDE DEF D, T, n
<1>6. Cardinality(T) < Cardinality(D)
  BY <1>1, <1>2, <1>3
<1>7. \E x, y \in D : x # y /\ s[x] = s[y]
  BY <1>2, <1>3, <1>4, <1>6, FS_PigeonHole
<1> QED
  BY <1>5, <1>7

LEMMA LimitedIsSound ==
  ASSUME AsDocumented, IInv, LimitedSearch
  PROVE  AnswerIsSound'
<1> DEFINE k == IF call.efSearch > call.limit THEN call.efSearch ELSE call.limit
<1>1. Inputs /\ ~Refused /\ call.api # "ann" /\ call.limit > 0
  BY DEF IInv, LimitedSearch
<1>2. PICK s \in Nearest(k) : Return(SubSeq(s, 1, Preserved(s)))
  BY DEF LimitedSearch
<1>3. PICK m \in Nat : s \in [1 .. m -> Node]
  BY DEF Nearest
<1>4. \A a \in 1 .. m : /\ is_member(s[a])
                        /\ \A j \in 1 .. a - 1 : s[j] # s[a] /\ graph.dis[s[j]] <= graph.dis[s[a]]
  BY <1>2, <1>3 DEF Nearest
<1> DEFINE P == {a \in DOMAIN s : \A j \in 1 .. a : graph.dis[s[j]] <= Radius}
           p == Preserved(s)
           q == SubSeq(s, 1, p)
<1>5. IsFiniteSet(P) /\ Cardinality(P) \in Nat /\ Cardinality(P) <= m
  <2>1. P \in SUBSET (1 .. m)
    BY <1>3
  <2>2. IsFiniteSet(1 .. m) /\ Cardinality(1 .. m) = m
    BY FS_Interval
  <2> HIDE DEF P
  <2>3. IsFiniteSet(P) /\ Cardinality(P) <= Cardinality(1 .. m)
    BY <2>1, <2>2, FS_Subset, Zenon
  <2> QED
    BY <2>2, <2>3, FS_CardinalityType
<1>6. call.limit \in Int
  BY <1>1, HnswAssumption DEF Inputs
<1>7. p \in Nat /\ p <= m /\ p <= call.limit /\ p <= Cardinality(P)
  BY <1>1, <1>5, <1>6 DEF Preserved
<1> HIDE DEF p, P
<1>8. q \in [1 .. p -> Node] /\ \A a \in 1 .. p : q[a] = s[a]
  <2>1. \A a \in 1 .. p : s[a] \in Node
    BY <1>3, <1>7
  <2>2. q \in Seq(Node) /\ Len(q) = p /\ \A a \in 1 .. p : q[a] = s[a]
    BY <1>7, <2>1, SubSeqProperties
  <2> HIDE DEF q
  <2>3. DOMAIN q = 1 .. p /\ q = [a \in DOMAIN q |-> q[a]]
    BY <2>2
  <2>4. q \in [1 .. p -> Node]
    BY <2>1, <2>2, <2>3
  <2> QED
    BY <2>2, <2>4
<1>9. \A a \in 1 .. p : graph.dis[s[a]] <= Radius
  <2> TAKE a \in 1 .. p
  <2>1. a \in 1 .. m /\ a <= Cardinality(P)
    BY <1>5, <1>7
  <2> QED
    BY <1>1, <1>3, <2>1, PrefixCounted DEF P
<1>10. Return(q)
  BY <1>2 DEF p
<1> HIDE DEF q
<1>11. \A a \in 1 .. p : /\ is_member(q[a]) /\ graph.dis[q[a]] <= Radius
                         /\ \A j \in 1 .. a - 1 : q[j] # q[a] /\ graph.dis[q[j]] <= graph.dis[q[a]]
  <2> TAKE a \in 1 .. p
  <2>1. a \in 1 .. m /\ \A j \in 1 .. a - 1 : j \in 1 .. p
    BY <1>7
  <2> QED
    BY <1>4, <1>8, <1>9, <2>1
<1> QED
  BY <1>1, <1>7, <1>8, <1>10, <1>11, ReturnIsSound DEF LimitedSearch

LEMMA CollectIsSound ==
  ASSUME AsDocumented, IInv, Collect
  PROVE  AnswerIsSound'
<1> DEFINE p == Cardinality(results)
<1>1. Inputs /\ ~Refused /\ call.api # "ann" /\ ~(call.limit > 0)
  <2>1. call.limit \in Int
    BY HnswAssumption DEF IInv, Inputs
  <2> QED
    BY <2>1 DEF IInv, Unlimited, Collect
<1>2. PICK s \in [1 .. p -> results] :
        /\ \A a, j \in DOMAIN s : a < j =>
             \/ graph.dis[s[a]] < graph.dis[s[j]]
             \/ graph.dis[s[a]] = graph.dis[s[j]] /\ s[a] < s[j]
        /\ Return(s)
  BY DEF Collect
<1>3. results = {v \in visited : Qualifies(v)} /\ results \subseteq Node
  BY DEF IInv, Found, TypeOK, Collect
<1>4. IsFiniteSet(results) /\ p \in Nat
  BY <1>3, HnswAssumption, FS_Subset, FS_CardinalityType
<1> HIDE DEF p
<1>5. \A v \in Node : graph.dis[v] \in Nat /\ v \in Nat
  BY <1>1, DistanceTypes, HnswAssumption
<1>6. s \in [1 .. p -> Node]
  BY <1>2, <1>3
<1>7. \A a, j \in 1 .. p : a < j => s[a] # s[j] /\ graph.dis[s[a]] <= graph.dis[s[j]]
  BY <1>2, <1>5, <1>6
<1>8. {s[a] : a \in 1 .. p} = results
  BY <1>2, <1>4, <1>7, ListsAll DEF p
<1>9. \A a \in 1 .. p : /\ is_member(s[a]) /\ graph.dis[s[a]] <= Radius
                        /\ \A j \in 1 .. a - 1 : s[j] # s[a] /\ graph.dis[s[j]] <= graph.dis[s[a]]
  <2> TAKE a \in 1 .. p
  <2>1. is_member(s[a]) /\ graph.dis[s[a]] <= Radius
    BY <1>2, <1>3 DEF Qualifies
  <2>2. \A j \in 1 .. a - 1 : j \in 1 .. p /\ j < a
    BY <1>4
  <2> QED
    BY <1>7, <2>1, <2>2
<1> QED
  BY <1>1, <1>2, <1>4, <1>6, <1>8, <1>9, ReturnIsSound DEF Collect

\* Whatever IndexHNSW::search finds, and whatever graph is searched, RangeSearch
\* returns rows that pass the caller's filter and are within the range, each
\* once, with their own distances, in the order asked for and within the limit
\* (all that was found, if it is negative), provided the limit is not 0 and the
\* overload that drops the filter is not given one.
THEOREM AnswersAreSound ==
  ASSUME AsDocumented
  PROVE  Spec => []AnswerIsSound
<1>1. Init => AnswerIsSound
  BY DEF Init, AnswerIsSound, RangeReturned
<1>2. IInv /\ AnswerIsSound /\ [Next]_vars => AnswerIsSound'
  <2> SUFFICES ASSUME IInv, AnswerIsSound, [Next]_vars PROVE AnswerIsSound'
    OBVIOUS
  <2>1. CASE LimitedSearch
    BY <2>1, LimitedIsSound
  <2>2. CASE Collect
    BY <2>2, CollectIsSound
  <2>3. CASE AnnSearch \/ EmptyIndex
    BY <2>3 DEF AnnSearch, EmptyIndex, AnswerIsSound, RangeReturned
  <2>4. CASE Refuse \/ StartGreedy \/ GreedyUpdateNearest \/ StartExpand \/ ExpandCandidate
    <3>1. pc' # "returned"
      BY <2>4 DEF Refuse, StartGreedy, GreedyUpdateNearest, StartExpand, ExpandCandidate
    <3> QED
      BY <3>1 DEF AnswerIsSound, RangeReturned
  <2>5. CASE UNCHANGED vars
    BY <2>5 DEF vars, AnswerIsSound, RangeReturned, RowId
  <2> QED
    BY <2>1, <2>2, <2>3, <2>4, <2>5 DEF Next
<1> QED
  BY <1>1, <1>2, SearchInvariant, PTL DEF Spec

-----------------------------------------------------------------------------
(***************************************************************************)
(* IVF-PQ: the inductive invariant.                                        *)
(***************************************************************************)

\* The id of the next row.
NextId == IF xids THEN 10 + Len(rows) ELSE ntotal + i

\* Rows are counted, and no two have the same id.
RowsNumbered ==
  /\ ntotal + i = Len(rows)
  /\ Len(rows) + (left - i) <= MaxRows
  /\ \A a \in DOMAIN rows : rows[a].id < NextId
  /\ \A a, b \in DOMAIN rows : rows[a].id = rows[b].id => a = b

\* The lists hold the rows that were assigned to them, each once.
ListsHoldRows ==
  /\ \A l \in List : \A j \in DOMAIN invlists[l] :
       invlists[l][j].vector.key = l /\ \E a \in DOMAIN rows : rows[a] = invlists[l][j]
  /\ \A a \in DOMAIN rows : rows[a].vector.key >= 0 =>
       \E j \in DOMAIN invlists[rows[a].vector.key] : invlists[rows[a].vector.key][j] = rows[a]
  /\ \A l \in List : \A j, k \in DOMAIN invlists[l] : invlists[l][j].id = invlists[l][k].id => j = k

\* A search is made with one of the calls, and probes no list twice.
Searching ==
  /\ pc = "open" => i = 0
  /\ pc \in {"open", "adding"} =>
       /\ keys = <<>> /\ next = 1 /\ ~interrupt
       /\ \A t \in 1 .. MaxThread : pres[t] = <<>>
  /\ pc \in {"scanning", "returned"} => call \in Calls /\ ~IvfPqRefused(call)
  /\ \A a, b \in DOMAIN keys : keys[a] = keys[b] /\ keys[a] # -1 => a = b

\* The lists that have been scanned.
Scanned == {keys[a] : a \in 1 .. next - 1} \ {-1}

\* The partial results of the threads are, together, the hits of the lists that
\* have been scanned, none twice; when a list could not be read some are missing.
PartialResults == pc = "scanning" =>
  /\ \A t \in 1 .. MaxThread : \A a \in DOMAIN pres[t] :
       \E h \in HitsIn(Scanned) : pres[t][a] = Result(HitRow(h))
  /\ ~interrupt => \A h \in HitsIn(Scanned) :
       \E t \in 1 .. MaxThread : \E a \in DOMAIN pres[t] : pres[t][a] = Result(HitRow(h))
  /\ \A t, u \in 1 .. MaxThread : \A a \in DOMAIN pres[t], b \in DOMAIN pres[u] :
       pres[t][a].id = pres[u][b].id => t = u /\ a = b

Answers == AnswerIsExact /\ FullConfidenceLosesNothing /\ MatchesBruteForce

IvfPqInv ==
  /\ IvfPqTypeOK /\ RowsNumbered /\ ListsHoldRows /\ ErrorsAligned
  /\ Searching /\ PartialResults /\ Answers
-----------------------------------------------------------------------------
(***************************************************************************)
(* Loops.                                                                  *)
(***************************************************************************)

\* Induction over the naturals, with a set of numbers for the claim.
LEMMA SetInduction ==
  ASSUME NEW S, 0 \in S, \A n \in Nat : n \in S => n + 1 \in S
  PROVE  Nat \subseteq S
<1> SUFFICES ASSUME Nat \ S # {} PROVE FALSE
  OBVIOUS
<1>1. IsWellFoundedOn(OpToRel(<, Nat), Nat)
  BY NatLessThanWellFounded
<1>2. PICK n \in Nat \ S : \A m \in Nat \ S : ~(<<m, n>> \in OpToRel(<, Nat))
  BY <1>1, WFMin
<1>3. \A m \in Nat \ S : ~(m < n)
  BY <1>2 DEF OpToRel
<1>4. n # 0 /\ n - 1 \in Nat /\ n - 1 < n
  OBVIOUS
<1>5. n - 1 \in S
  BY <1>3, <1>4
<1>6. (n - 1) + 1 \in S
  BY <1>4, <1>5
<1> QED BY <1>4, <1>6

\* The states of a loop of m turns, whose n-th turn is f[n].
IsLoop(t, m, S, f, x) ==
  /\ t \in [0 .. m -> S]
  /\ t[0] = x
  /\ \A n \in 1 .. m : t[n] = f[n][t[n - 1]]

LEMMA LoopExists ==
  ASSUME NEW S, NEW m \in Nat, NEW f \in [1 .. m -> [S -> S]], NEW x \in S
  PROVE  \E t : IsLoop(t, m, S, f, x)
<1> DEFINE T == {n \in Nat : n <= m => \E t : IsLoop(t, n, S, f, x)}
<1>1. 0 \in T
  <2>1. IsLoop([n \in 0 .. 0 |-> x], 0, S, f, x)
    BY DEF IsLoop
  <2> QED BY <2>1
<1>2. ASSUME NEW n \in Nat, n \in T
      PROVE  n + 1 \in T
  <2> SUFFICES ASSUME n + 1 <= m PROVE \E t : IsLoop(t, n + 1, S, f, x)
    OBVIOUS
  <2>1. PICK t : IsLoop(t, n, S, f, x)
    BY <1>2
  <2> DEFINE u == [l \in 0 .. (n + 1) |-> IF l = n + 1 THEN f[n + 1][t[n]] ELSE t[l]]
  <2>2. u \in [0 .. (n + 1) -> S]
    BY <2>1 DEF IsLoop
  <2>3. u[0] = x
    BY <2>1 DEF IsLoop
  <2>4. ASSUME NEW l \in 1 .. (n + 1)
        PROVE  u[l] = f[l][u[l - 1]]
    <3>1. CASE l = n + 1
      <4>1. l - 1 = n /\ u[n] = t[n] /\ u[n + 1] = f[n + 1][t[n]]
        BY <3>1
      <4> QED BY <3>1, <4>1
    <3>2. CASE l # n + 1
      <4>1. l \in 1 .. n /\ l \in 0 .. (n + 1) /\ l - 1 \in 0 .. (n + 1) /\ l - 1 # n + 1
        BY <3>2
      <4>2. u[l] = t[l] /\ u[l - 1] = t[l - 1]
        BY <3>2, <4>1
      <4> QED BY <2>1, <4>1, <4>2 DEF IsLoop
    <3> QED BY <3>1, <3>2
  <2>5. IsLoop(u, n + 1, S, f, x)
    <3> HIDE DEF u
    <3> QED BY <2>2, <2>3, <2>4 DEF IsLoop
  <2> QED BY <2>5
<1>3. Nat \subseteq T
  <2> HIDE DEF T
  <2> QED BY <1>1, <1>2, SetInduction
<1> QED BY <1>3

\* Kept, turn by turn.
IsKeeping(t, n, S) ==
  /\ t[0] = <<>>
  /\ \A j \in 1 .. n : t[j] = IF j \in S THEN Append(t[j - 1], j) ELSE t[j - 1]
  /\ Kept(n, S) = t[n]

LEMMA KeptLoop ==
  ASSUME NEW n \in Nat, NEW S
  PROVE  \E t : IsKeeping(t, n, S)
<1> DEFINE F(g) == [j \in 0 .. n |-> IF j = 0 THEN <<>>
                                     ELSE IF j \in S THEN Append(g[j - 1], j) ELSE g[j - 1]]
           f == [j \in 1 .. n |-> [q \in Seq(Nat) |-> IF j \in S THEN Append(q, j) ELSE q]]
           kept == CHOOSE g : g = F(g)
<1>1. Kept(n, S) = kept[n]
  BY DEF Kept
<1>2. f \in [1 .. n -> [Seq(Nat) -> Seq(Nat)]] /\ <<>> \in Seq(Nat)
  <2>1. ASSUME NEW j \in 1 .. n, NEW q \in Seq(Nat) PROVE Append(q, j) \in Seq(Nat)
    OBVIOUS
  <2> QED BY <2>1
<1>3. PICK t : IsLoop(t, n, Seq(Nat), f, <<>>)
  <2> HIDE DEF f
  <2> QED BY <1>2, LoopExists
<1>4. \A j \in 0 .. n : t[j] = IF j = 0 THEN <<>>
                               ELSE IF j \in S THEN Append(t[j - 1], j) ELSE t[j - 1]
  <2>1. ASSUME NEW j \in 1 .. n PROVE t[j] = IF j \in S THEN Append(t[j - 1], j) ELSE t[j - 1]
    <3>1. t[j - 1] \in Seq(Nat) /\ t[j] = f[j][t[j - 1]]
      <4> HIDE DEF f
      <4>1. j - 1 \in 0 .. n
        OBVIOUS
      <4> QED BY <1>3, <4>1 DEF IsLoop
    <3> QED BY <3>1
  <2>2. t[0] = <<>>
    BY <1>3 DEF IsLoop
  <2> HIDE DEF f
  <2>3. \A j \in 0 .. n : j = 0 \/ (j # 0 /\ j \in 1 .. n)
    OBVIOUS
  <2> QED BY <2>1, <2>2, <2>3, Zenon
<1>5. t = F(t)
  <2>1. t = [j \in 0 .. n |-> t[j]]
    BY <1>3 DEF IsLoop
  <2> QED BY <1>4, <2>1
<1>6. kept = F(kept)
  BY <1>5
<1> HIDE DEF kept
<1>7. kept[0] = <<>>
  <2>1. 0 \in 0 .. n
    OBVIOUS
  <2> QED BY <1>6, <2>1, Zenon
<1>8. ASSUME NEW j \in 1 .. n
      PROVE  kept[j] = IF j \in S THEN Append(kept[j - 1], j) ELSE kept[j - 1]
  <2>1. j \in 0 .. n /\ j # 0
    OBVIOUS
  <2> QED BY <1>6, <2>1, Zenon
<1>9. IsKeeping(kept, n, S)
  BY <1>1, <1>7, <1>8 DEF IsKeeping
<1> QED BY <1>9

\* The loop keeps the members of S among 1 .. n, in order.
LEMMA KeptIs ==
  ASSUME NEW n \in Nat, NEW S
  PROVE  /\ Kept(n, S) \in Seq(1 .. n)
         /\ \A a \in DOMAIN Kept(n, S) : Kept(n, S)[a] \in S
         /\ \A j \in 1 .. n : j \in S => \E a \in DOMAIN Kept(n, S) : Kept(n, S)[a] = j
         /\ \A a, b \in DOMAIN Kept(n, S) : a < b => Kept(n, S)[a] < Kept(n, S)[b]
<1>0. PICK t : IsKeeping(t, n, S)
  BY KeptLoop
<1>1. /\ t[0] = <<>>
      /\ \A j \in 1 .. n : t[j] = IF j \in S THEN Append(t[j - 1], j) ELSE t[j - 1]
      /\ Kept(n, S) = t[n]
  BY <1>0 DEF IsKeeping
<1> DEFINE Good(q, m) == /\ q \in Seq(1 .. m)
                         /\ \A a \in DOMAIN q : q[a] \in S
                         /\ \A j \in 1 .. m : j \in S => \E a \in DOMAIN q : q[a] = j
                         /\ \A a, b \in DOMAIN q : a < b => q[a] < q[b]
           T == {m \in Nat : m <= n => Good(t[m], m)}
<1>2. 0 \in T
  <2>1. Good(<<>>, 0)
    OBVIOUS
  <2> QED BY <1>1, <2>1
<1>3. ASSUME NEW m \in Nat, m \in T
      PROVE  m + 1 \in T
  <2> SUFFICES ASSUME m + 1 <= n PROVE Good(t[m + 1], m + 1)
    OBVIOUS
  <2>1. t[m + 1] = IF m + 1 \in S THEN Append(t[m], m + 1) ELSE t[m]
    <3>1. m + 1 \in 1 .. n /\ (m + 1) - 1 = m
      OBVIOUS
    <3> QED BY <1>1, <3>1
  <2>2. PICK q : q = t[m]
    OBVIOUS
  <2>3. Good(q, m)
    BY <1>3, <2>2
  <2>4. q \in Seq(1 .. (m + 1)) /\ Len(q) \in Nat /\ DOMAIN q = 1 .. Len(q)
    <3>1. \A a \in DOMAIN q : q[a] \in 1 .. (m + 1)
      BY <2>3
    <3> QED BY <2>3, <3>1
  <2>5. CASE m + 1 \notin S
    <3>1. t[m + 1] = q
      BY <2>1, <2>2, <2>5
    <3>2. \A j \in 1 .. (m + 1) : j \in S => j \in 1 .. m
      BY <2>5
    <3> QED BY <2>3, <2>4, <3>1, <3>2
  <2>6. CASE m + 1 \in S
    <3> DEFINE u == Append(q, m + 1)
    <3>1. t[m + 1] = u
      BY <2>1, <2>2, <2>6
    <3>2. /\ u \in Seq(1 .. (m + 1)) /\ DOMAIN u = 1 .. (Len(q) + 1)
          /\ u[Len(q) + 1] = m + 1 /\ \A a \in DOMAIN q : u[a] = q[a]
      BY <2>4
    <3>3. \A a \in DOMAIN u : a \in DOMAIN q \/ a = Len(q) + 1
      BY <2>4, <3>2
    <3> HIDE DEF u
    <3>4. \A a \in DOMAIN u : u[a] \in S
      BY <2>3, <2>6, <3>2, <3>3
    <3>5. \A j \in 1 .. (m + 1) : j \in S => \E a \in DOMAIN u : u[a] = j
      <4> TAKE j \in 1 .. (m + 1)
      <4>1. CASE j = m + 1
        BY <2>4, <3>2, <4>1
      <4>2. CASE j \in 1 .. m
        BY <2>3, <2>4, <3>2, <4>2
      <4> QED BY <4>1, <4>2
    <3>6. \A a, b \in DOMAIN u : a < b => u[a] < u[b]
      <4> SUFFICES ASSUME NEW a \in DOMAIN u, NEW b \in DOMAIN u, a < b PROVE u[a] < u[b]
        OBVIOUS
      <4>1. a \in DOMAIN q /\ u[a] = q[a] /\ q[a] \in 1 .. m
        BY <2>3, <2>4, <3>2, <3>3
      <4>2. CASE b \in DOMAIN q
        BY <2>3, <3>2, <4>1, <4>2
      <4>3. CASE b = Len(q) + 1
        BY <3>2, <4>1, <4>3
      <4> QED BY <3>3, <4>2, <4>3
    <3> QED BY <3>1, <3>2, <3>4, <3>5, <3>6
  <2> QED BY <2>5, <2>6
<1>4. Nat \subseteq T
  <2> HIDE DEF T
  <2> QED BY <1>2, <1>3, SetInduction
<1>5. Good(t[n], n)
  BY <1>4
<1> QED BY <1>1, <1>5

-----------------------------------------------------------------------------
(***************************************************************************)
(* Priority queues.                                                        *)
(***************************************************************************)

\* What operator< of a priority_queue has to be.
WeakOrder(less, n) ==
  /\ \A a, b \in 1 .. n : <<a, b>> \in less => <<b, a>> \notin less
  /\ \A a, b, c \in 1 .. n : <<a, b>> \notin less /\ <<b, c>> \notin less => <<a, c>> \notin less

\* Subsets of an interval.
LEMMA IntervalSubset ==
  ASSUME NEW n \in Nat, NEW S \in SUBSET (1 .. n)
  PROVE  IsFiniteSet(S) /\ Cardinality(S) \in Nat /\ Cardinality(S) <= n
         /\ (Cardinality(S) = n => S = 1 .. n)
<1>1. IsFiniteSet(1 .. n) /\ Cardinality(1 .. n) = n
  BY FS_Interval
<1> QED BY <1>1, FS_Subset, FS_CardinalityType

\* A queue that is not empty has a top.
LEMMA TopIs ==
  ASSUME NEW n \in Nat, NEW less, WeakOrder(less, n), NEW g \in SUBSET (1 .. n), g # {}
  PROVE  Top(g, less) \in g /\ \A b \in g : <<Top(g, less), b>> \notin less
<1> DEFINE HasTop(S) == \E a \in S : \A b \in S : <<a, b>> \notin less
           T == {m \in Nat : m <= n => \A S \in SUBSET (1 .. m) : S # {} => HasTop(S)}
<1>1. 0 \in T
  <2>1. \A S \in SUBSET (1 .. 0) : S = {}
    OBVIOUS
  <2> QED BY <2>1
<1>2. ASSUME NEW m \in Nat, m \in T
      PROVE  m + 1 \in T
  <2> SUFFICES ASSUME m + 1 <= n, NEW S \in SUBSET (1 .. (m + 1)), S # {}
               PROVE  HasTop(S)
    OBVIOUS
  <2> DEFINE R == S \ {m + 1}
  <2>1. R \in SUBSET (1 .. m) /\ S \subseteq 1 .. n
    OBVIOUS
  <2>2. CASE R = {}
    <3>1. S = {m + 1} /\ m + 1 \in 1 .. n
      BY <2>1, <2>2
    <3>2. <<m + 1, m + 1>> \notin less
      BY <3>1 DEF WeakOrder
    <3> QED BY <3>1, <3>2
  <2>3. CASE R # {}
    <3>1. PICK a \in R : \A b \in R : <<a, b>> \notin less
      <4> HIDE DEF R
      <4>1. m <= n
        OBVIOUS
      <4>2. \A Q \in SUBSET (1 .. m) : Q # {} => HasTop(Q)
        BY <1>2, <4>1
      <4> QED BY <2>1, <2>3, <4>2
    <3>2. CASE m + 1 \notin S \/ <<a, m + 1>> \notin less
      BY <3>1, <3>2
    <3>3. CASE m + 1 \in S /\ <<a, m + 1>> \in less
      <4>1. \A b \in S : b \in 1 .. n
        BY <2>1
      <4>2. <<m + 1, a>> \notin less /\ <<m + 1, m + 1>> \notin less
        BY <3>1, <3>3, <4>1 DEF WeakOrder
      <4>3. \A b \in R : <<m + 1, b>> \notin less
        BY <3>1, <3>3, <4>1, <4>2 DEF WeakOrder
      <4> QED BY <3>3, <4>2, <4>3
    <3> QED BY <3>2, <3>3
  <2> QED BY <2>2, <2>3
<1>3. Nat \subseteq T
  <2> HIDE DEF T
  <2> QED BY <1>1, <1>2, SetInduction
<1>4. HasTop(g)
  BY <1>3
<1> QED BY <1>4 DEF Top

\* Heap, turn by turn.
Pushed(q, j, k, less) ==
  IF Cardinality(q \cup {j}) > k THEN (q \cup {j}) \ {Top(q \cup {j}, less)} ELSE q \cup {j}

IsQueue(t, n, k, less) ==
  /\ t[0] = {}
  /\ \A j \in 1 .. n : t[j] = Pushed(t[j - 1], j, k, less)
  /\ Heap(n, k, less) = t[n]

LEMMA HeapLoop ==
  ASSUME NEW n \in Nat, NEW k \in Nat, NEW less
  PROVE  \E t : IsQueue(t, n, k, less)
<1> DEFINE step(q, j) == Pushed(q, j, k, less)
           F(g) == [j \in 0 .. n |-> IF j = 0 THEN {} ELSE step(g[j - 1], j)]
           f == [j \in 1 .. n |-> [q \in SUBSET (1 .. n) |-> step(q, j)]]
           heap == CHOOSE g : g = F(g)
<1>1. Heap(n, k, less) = heap[n]
  BY DEF Heap, Pushed
<1>2. f \in [1 .. n -> [SUBSET (1 .. n) -> SUBSET (1 .. n)]] /\ {} \in SUBSET (1 .. n)
  <2>1. ASSUME NEW j \in 1 .. n, NEW q \in SUBSET (1 .. n) PROVE step(q, j) \in SUBSET (1 .. n)
    BY DEF Pushed
  <2> HIDE DEF step
  <2> QED BY <2>1
<1> HIDE DEF step
<1>3. PICK t : IsLoop(t, n, SUBSET (1 .. n), f, {})
  <2> HIDE DEF f
  <2> QED BY <1>2, LoopExists
<1>4. \A j \in 0 .. n : t[j] = IF j = 0 THEN {} ELSE step(t[j - 1], j)
  <2>1. ASSUME NEW j \in 1 .. n PROVE t[j] = step(t[j - 1], j)
    <3>1. t[j - 1] \in SUBSET (1 .. n) /\ t[j] = f[j][t[j - 1]]
      <4> HIDE DEF f
      <4>1. j - 1 \in 0 .. n
        OBVIOUS
      <4> QED BY <1>3, <4>1 DEF IsLoop
    <3> QED BY <3>1
  <2>2. t[0] = {}
    BY <1>3 DEF IsLoop
  <2> HIDE DEF f
  <2>3. \A j \in 0 .. n : j = 0 \/ (j # 0 /\ j \in 1 .. n)
    OBVIOUS
  <2> QED BY <2>1, <2>2, <2>3, Zenon
<1>5. t = F(t)
  <2>1. t = [j \in 0 .. n |-> t[j]]
    BY <1>3 DEF IsLoop
  <2> QED BY <1>4, <2>1
<1>6. heap = F(heap)
  BY <1>5
<1> HIDE DEF heap
<1>7. heap[0] = {}
  <2>1. 0 \in 0 .. n
    OBVIOUS
  <2> QED BY <1>6, <2>1, Zenon
<1>8. ASSUME NEW j \in 1 .. n
      PROVE  heap[j] = step(heap[j - 1], j)
  <2>1. j \in 0 .. n /\ j # 0
    OBVIOUS
  <2> QED BY <1>6, <2>1, Zenon
<1>9. IsQueue(heap, n, k, less)
  BY <1>1, <1>7, <1>8 DEF step, IsQueue
<1> QED BY <1>9

\* The lesser of two numbers.
Least(m, k) == IF m < k THEN m ELSE k

\* The queue keeps k members, or all, and none that it drops is before one that it
\* keeps.
LEMMA HeapIs ==
  ASSUME NEW n \in Nat, NEW k \in Nat, NEW less, WeakOrder(less, n)
  PROVE  /\ Heap(n, k, less) \in SUBSET (1 .. n)
         /\ Cardinality(Heap(n, k, less)) = Least(n, k)
         /\ \A a \in Heap(n, k, less), b \in (1 .. n) \ Heap(n, k, less) : <<b, a>> \notin less
<1>0. PICK t : IsQueue(t, n, k, less)
  BY HeapLoop
<1>1. /\ t[0] = {}
      /\ \A j \in 1 .. n : t[j] = Pushed(t[j - 1], j, k, less)
      /\ Heap(n, k, less) = t[n]
  BY <1>0 DEF IsQueue
<1> DEFINE Good(q, m) == /\ q \in SUBSET (1 .. m)
                         /\ Cardinality(q) = Least(m, k)
                         /\ \A a \in q, b \in (1 .. m) \ q : <<b, a>> \notin less
           T == {m \in Nat : m <= n => Good(t[m], m)}
<1>2. 0 \in T
  <2>1. Good({}, 0)
    BY FS_EmptySet DEF Least
  <2> QED BY <1>1, <2>1
<1>3. ASSUME NEW m \in Nat, m \in T
      PROVE  m + 1 \in T
  <2> SUFFICES ASSUME m + 1 <= n PROVE Good(t[m + 1], m + 1)
    OBVIOUS
  <2>1. PICK q : q = t[m]
    OBVIOUS
  <2> DEFINE g == q \cup {m + 1}
  <2>2. t[m + 1] = IF Cardinality(g) > k THEN g \ {Top(g, less)} ELSE g
    <3>1. m + 1 \in 1 .. n /\ (m + 1) - 1 = m
      OBVIOUS
    <3>2. t[m + 1] = Pushed(q, m + 1, k, less)
      BY <1>1, <2>1, <3>1
    <3> QED BY <3>2 DEF Pushed
  <2>3. Good(q, m)
    BY <1>3, <2>1
  <2>4. IsFiniteSet(q) /\ m + 1 \notin q
    BY <2>3, IntervalSubset
  <2>5. IsFiniteSet(g) /\ Cardinality(g) = Least(m, k) + 1
    BY <2>3, <2>4, FS_AddElement
  <2>6. g \in SUBSET (1 .. (m + 1)) /\ g \in SUBSET (1 .. n) /\ g # {}
    BY <2>3
  <2>7. CASE Cardinality(g) > k
    <3>1. PICK top : top = Top(g, less)
      OBVIOUS
    <3>2. top \in g /\ \A b \in g : <<top, b>> \notin less
      BY <2>6, <3>1, TopIs
    <3>3. t[m + 1] = g \ {top}
      BY <2>2, <2>7, <3>1
    <3>4. Cardinality(g \ {top}) = Least(m, k)
      <4>1. Least(m, k) \in Nat
        BY DEF Least
      <4> HIDE DEF g
      <4>2. Cardinality(g \ {top}) = Cardinality(g) - 1
        BY <2>5, <3>2, FS_RemoveElement
      <4> QED BY <2>5, <4>1, <4>2
    <3>5. Least(m, k) = k /\ Least(m + 1, k) = k
      BY <2>5, <2>7 DEF Least
    <3>6. ASSUME NEW a \in g \ {top}, NEW b \in (1 .. (m + 1)) \ (g \ {top})
          PROVE  <<b, a>> \notin less
      <4>1. CASE b = top
        BY <3>2, <4>1
      <4>2. CASE b # top
        <5>1. b \in (1 .. m) \ q
          BY <4>2
        <5>2. CASE a \in q
          BY <2>3, <5>1, <5>2
        <5>3. CASE a = m + 1
          <6>1. top \in q
            BY <3>2, <5>3
          <6>2. <<b, top>> \notin less /\ <<top, a>> \notin less
            BY <2>3, <3>2, <5>1, <6>1
          <6>3. a \in 1 .. n /\ b \in 1 .. n /\ top \in 1 .. n
            BY <2>6, <3>2, <5>1
          <6> QED BY <6>2, <6>3 DEF WeakOrder
        <5> QED BY <5>2, <5>3
      <4> QED BY <4>1, <4>2
    <3>7. g \ {top} \in SUBSET (1 .. (m + 1))
      BY <2>6
    <3> QED BY <3>3, <3>4, <3>5, <3>6, <3>7
  <2>8. CASE ~(Cardinality(g) > k)
    <3>1. m < k /\ Least(m, k) = m /\ Least(m + 1, k) = m + 1
      BY <2>5, <2>8 DEF Least
    <3>2. q = 1 .. m
      BY <2>3, <3>1, IntervalSubset
    <3>3. g = 1 .. (m + 1)
      BY <3>2
    <3>4. t[m + 1] = g /\ Cardinality(g) = m + 1
      BY <2>2, <2>5, <2>8, <3>1
    <3> QED BY <3>1, <3>3, <3>4
  <2> QED BY <2>7, <2>8
<1>4. Nat \subseteq T
  <2> HIDE DEF T
  <2> QED BY <1>2, <1>3, SetInduction
<1>5. Good(t[n], n)
  BY <1>4
<1> QED BY <1>1, <1>5

IsSorted(s, h, m, less) ==
  /\ s \in [1 .. m -> h]
  /\ \A a, b \in 1 .. m : a < b => s[a] # s[b] /\ <<s[b], s[a]>> \notin less

\* A queue can be emptied: there is a sequence as Sorted asks for.
LEMMA SortedIs ==
  ASSUME NEW n \in Nat, NEW less, WeakOrder(less, n), NEW h \in SUBSET (1 .. n)
  PROVE  IsSorted(Sorted(h, less), h, Cardinality(h), less)
<1> DEFINE T == {m \in Nat : \A g \in SUBSET (1 .. n) :
                   Cardinality(g) = m => \E s : IsSorted(s, g, m, less)}
<1>1. 0 \in T
  <2> SUFFICES ASSUME NEW g \in SUBSET (1 .. n), Cardinality(g) = 0
               PROVE  \E s : IsSorted(s, g, 0, less)
    OBVIOUS
  <2>1. IsSorted([a \in 1 .. 0 |-> a], g, 0, less)
    BY DEF IsSorted
  <2> QED BY <2>1
<1>2. ASSUME NEW m \in Nat, m \in T
      PROVE  m + 1 \in T
  <2> SUFFICES ASSUME NEW g \in SUBSET (1 .. n), Cardinality(g) = m + 1
               PROVE  \E s : IsSorted(s, g, m + 1, less)
    OBVIOUS
  <2>1. IsFiniteSet(g) /\ g # {}
    BY IntervalSubset, FS_EmptySet
  <2>2. PICK top : top = Top(g, less)
    OBVIOUS
  <2>3. top \in g /\ \A b \in g : <<top, b>> \notin less
    BY <2>1, <2>2, TopIs
  <2>4. g \ {top} \in SUBSET (1 .. n) /\ Cardinality(g \ {top}) = m
    <3>1. Cardinality(g \ {top}) = Cardinality(g) - 1
      BY <2>1, <2>3, FS_RemoveElement
    <3>2. Cardinality(g \ {top}) = m
      BY <3>1
    <3> QED BY <3>2
  <2>5. PICK s : IsSorted(s, g \ {top}, m, less)
    BY <1>2, <2>4
  <2> DEFINE u == [a \in 1 .. (m + 1) |-> IF a = m + 1 THEN top ELSE s[a]]
  <2>6. \A a \in 1 .. m : a # m + 1 /\ a \in 1 .. (m + 1) /\ u[a] = s[a] /\ s[a] \in g \ {top}
    BY <2>5 DEF IsSorted
  <2>7. u[m + 1] = top /\ \A a \in 1 .. (m + 1) : a \in 1 .. m \/ a = m + 1
    OBVIOUS
  <2>8. u \in [1 .. (m + 1) -> g]
    <3>1. \A a \in 1 .. (m + 1) : u[a] \in g
      BY <2>3, <2>6, <2>7
    <3> QED BY <3>1
  <2> HIDE DEF u
  <2>9. ASSUME NEW a \in 1 .. (m + 1), NEW b \in 1 .. (m + 1), a < b
        PROVE  u[a] # u[b] /\ <<u[b], u[a]>> \notin less
    <3>1. a \in 1 .. m
      BY <2>9
    <3>2. CASE b \in 1 .. m
      BY <2>5, <2>6, <2>9, <3>1, <3>2 DEF IsSorted
    <3>3. CASE b = m + 1
      BY <2>3, <2>6, <2>7, <3>1, <3>3
    <3> QED BY <2>7, <3>2, <3>3
  <2>10. IsSorted(u, g, m + 1, less)
    BY <2>8, <2>9 DEF IsSorted
  <2> QED BY <2>10
<1>3. Nat \subseteq T
  <2> HIDE DEF T
  <2> QED BY <1>1, <1>2, SetInduction
<1>4. Cardinality(h) \in Nat
  BY IntervalSubset
<1>5. PICK s : IsSorted(s, h, Cardinality(h), less)
  BY <1>3, <1>4
<1> DEFINE c == Cardinality(h)
           Right(u) == \A a, b \in DOMAIN u : a < b => u[a] # u[b] /\ <<u[b], u[a]>> \notin less
<1>6. s \in [1 .. c -> h] /\ Right(s)
  BY <1>5 DEF IsSorted
<1>7. Sorted(h, less) = CHOOSE u \in [1 .. c -> h] : Right(u)
  BY DEF Sorted
<1>8. Sorted(h, less) \in [1 .. c -> h] /\ Right(Sorted(h, less))
  <2> HIDE DEF Right, c
  <2> QED BY <1>6, <1>7
<1>9. PICK w : w = Sorted(h, less)
  OBVIOUS
<1>10. w \in [1 .. c -> h] /\ Right(w)
  BY <1>8, <1>9
<1>11. IsSorted(w, h, c, less)
  BY <1>10 DEF IsSorted
<1> QED BY <1>9, <1>11

\* The first k of 1 .. n by the order less, in order.
IsNearest(s, n, k, less) ==
  /\ s \in [1 .. Least(n, k) -> 1 .. n]
  /\ \A a, b \in 1 .. Least(n, k) : a < b => s[a] # s[b]
  /\ \A p \in 1 .. Least(n, k), b \in 1 .. n :
       <<b, s[p]>> \in less => \E q \in 1 .. (p - 1) : b = s[q]
  /\ \A p \in 1 .. Least(n, k) : \A q \in 1 .. p : <<s[p], s[q]>> \notin less

\* Filling a queue with 1 .. n and emptying it gives just that.
LEMMA NearestSorted ==
  ASSUME NEW n \in Nat, NEW k \in Nat, NEW less, WeakOrder(less, n)
  PROVE  IsNearest(Sorted(Heap(n, k, less), less), n, k, less)
<1>1. PICK h : h = Heap(n, k, less)
  OBVIOUS
<1>2. PICK m : m = Least(n, k)
  OBVIOUS
<1>3. /\ h \in SUBSET (1 .. n) /\ Cardinality(h) = m /\ m \in Nat
      /\ \A a \in h, b \in (1 .. n) \ h : <<b, a>> \notin less
  BY <1>1, <1>2, HeapIs DEF Least
<1>4. PICK s : s = Sorted(h, less)
  OBVIOUS
<1>5. IsSorted(s, h, m, less)
  BY <1>3, <1>4, SortedIs
<1>6. /\ s \in [1 .. m -> h]
      /\ \A a, b \in 1 .. m : a < b => s[a] # s[b] /\ <<s[b], s[a]>> \notin less
  BY <1>5 DEF IsSorted
<1>7. IsFiniteSet(h)
  BY <1>3, IntervalSubset
<1>8. {s[a] : a \in 1 .. m} = h
  <2>1. /\ s \in [1 .. Cardinality(h) -> h]
        /\ \A a, b \in 1 .. Cardinality(h) : a < b => s[a] # s[b]
    BY <1>3, <1>6
  <2> QED BY <1>3, <1>7, <2>1, ListsAll
<1>9. s \in [1 .. m -> 1 .. n]
  BY <1>3, <1>6
<1>10. ASSUME NEW p \in 1 .. m, NEW b \in 1 .. n, <<b, s[p]>> \in less
       PROVE  \E q \in 1 .. (p - 1) : b = s[q]
  <2>1. b \in h
    BY <1>3, <1>6, <1>10
  <2>2. PICK q \in 1 .. m : b = s[q]
    BY <1>8, <2>1
  <2>3. ~(p < q)
    BY <1>6, <1>10, <2>2
  <2>4. q # p
    BY <1>9, <1>10, <2>2 DEF WeakOrder
  <2> QED BY <1>3, <2>2, <2>3, <2>4
<1>11. ASSUME NEW p \in 1 .. m, NEW q \in 1 .. p PROVE <<s[p], s[q]>> \notin less
  <2>1. CASE q = p
    BY <1>9, <2>1 DEF WeakOrder
  <2>2. CASE q # p
    <3>1. q \in 1 .. m /\ q < p
      BY <1>3, <2>2
    <3> QED BY <1>6, <3>1
  <2> QED BY <2>1, <2>2
<1>12. IsNearest(s, n, k, less)
  BY <1>2, <1>6, <1>9, <1>10, <1>11 DEF IsNearest
<1> QED BY <1>1, <1>4, <1>12

\* The pigeonhole principle for an interval.
LEMMA PigeonHole ==
  ASSUME NEW p \in Nat \ {0}, NEW g \in [1 .. p -> 1 .. (p - 1)]
  PROVE  \E a, b \in 1 .. p : a # b /\ g[a] = g[b]
<1> DEFINE P == 1 .. p
           Q == 1 .. (p - 1)
<1>1. p \in Int /\ p - 1 \in Int /\ 1 \in Int /\ p >= 1
  OBVIOUS
<1>2. IsFiniteSet(P) /\ Cardinality(P) = p
  BY <1>1, FS_Interval
<1>3. IsFiniteSet(Q) /\ Cardinality(Q) = IF 1 > p - 1 THEN 0 ELSE (p - 1) - 1 + 1
  BY <1>1, FS_Interval
<1>4. g \in [P -> Q]
  OBVIOUS
<1> HIDE DEF P, Q
<1>5. Cardinality(Q) < Cardinality(P)
  BY <1>1, <1>2, <1>3
<1>6. \E a, b \in P : a # b /\ g[a] = g[b]
  <2>1. IsFiniteSet(P) /\ IsFiniteSet(Q)
    BY <1>2, <1>3
  <2> QED BY <1>4, <1>5, <2>1, FS_PigeonHole, SMTT(30)
<1> QED BY <1>6 DEF P

\* The order of a queue goes by the distances d: nearer is before, and what is
\* before is not farther.
ByDistance(less, n, d) ==
  \A a, b \in 1 .. n : /\ d[a] < d[b] => <<a, b>> \in less
                       /\ <<a, b>> \in less => d[a] <= d[b]

\* s puts the k nearest of 1 .. n in order.
SortedBy(s, n, k, less, d) == IsNearest(s, n, k, less) /\ ByDistance(less, n, d)

\* The distances d are some of the distances e.
IsPart(f, n, m, d, e) ==
  /\ f \in [1 .. n -> 1 .. m]
  /\ \A a, b \in 1 .. n : f[a] = f[b] => a = b
  /\ \A a \in 1 .. n : e[f[a]] = d[a]

\* Sorting a part of what another sequence holds, whatever the orders do among the
\* equally near, cannot give a smaller p-th distance.
LEMMA NotSmaller ==
  ASSUME NEW n \in Nat, NEW m \in Nat, NEW d \in [1 .. n -> Int], NEW e \in [1 .. m -> Int],
         NEW f, IsPart(f, n, m, d, e), NEW k \in Nat, NEW l \in Nat,
         NEW s, NEW less, SortedBy(s, n, k, less, d),
         NEW u, NEW more, SortedBy(u, m, l, more, e),
         NEW p, p \in 1 .. Least(n, k), p \in 1 .. Least(m, l)
  PROVE  e[u[p]] <= d[s[p]]
<1> USE DEF SortedBy, IsPart
<1>0. PICK x, y : x = Least(n, k) /\ y = Least(m, l)
  OBVIOUS
<1>1. x \in Nat /\ y \in Nat /\ p \in 1 .. x /\ p \in 1 .. y
  BY <1>0 DEF Least
<1>2. /\ s \in [1 .. x -> 1 .. n]
      /\ \A a, b \in 1 .. x : a < b => s[a] # s[b]
      /\ \A q \in 1 .. p : <<s[p], s[q]>> \notin less
  BY <1>0, <1>1 DEF IsNearest
<1>3. /\ u \in [1 .. y -> 1 .. m]
      /\ \A b \in 1 .. m : <<b, u[p]>> \in more => \E q \in 1 .. (p - 1) : b = u[q]
  BY <1>0, <1>1 DEF IsNearest
<1>4. d[s[p]] \in Int /\ e[u[p]] \in Int
  BY <1>1, <1>2, <1>3
<1> SUFFICES ASSUME d[s[p]] < e[u[p]] PROVE FALSE
  BY <1>4
<1> DEFINE P == 1 .. p
           Q == 1 .. (p - 1)
<1>5. ASSUME NEW q \in P PROVE \E r \in Q : f[s[q]] = u[r]
  <2>1. q \in 1 .. x /\ s[q] \in 1 .. n /\ s[p] \in 1 .. n /\ u[p] \in 1 .. m
    BY <1>1, <1>2, <1>3
  <2>2. ~(d[s[p]] < d[s[q]])
    BY <1>2, <2>1 DEF ByDistance
  <2>3. d[s[q]] \in Int /\ d[s[q]] < e[u[p]]
    <3>1. d[s[q]] \in Int
      BY <2>1
    <3>2. PICK dp, dq, ep : dp = d[s[p]] /\ dq = d[s[q]] /\ ep = e[u[p]]
      OBVIOUS
    <3>3. dp \in Int /\ dq \in Int /\ ep \in Int /\ dp < ep /\ ~(dp < dq)
      BY <1>4, <2>2, <3>1, <3>2
    <3>4. dq < ep
      BY <3>3
    <3> QED BY <3>1, <3>2, <3>4
  <2>4. f[s[q]] \in 1 .. m /\ e[f[s[q]]] < e[u[p]]
    BY <2>1, <2>3
  <2>5. <<f[s[q]], u[p]>> \in more
    BY <2>1, <2>4 DEF ByDistance
  <2> QED BY <1>3, <2>4, <2>5
<1> DEFINE g == [q \in P |-> CHOOSE r \in Q : f[s[q]] = u[r]]
<1>6. g \in [P -> Q] /\ \A q \in P : f[s[q]] = u[g[q]]
  BY <1>5
<1> HIDE DEF g
<1>7. \A a, b \in P : g[a] = g[b] => a = b
  <2> SUFFICES ASSUME NEW a \in P, NEW b \in P, g[a] = g[b] PROVE a = b
    OBVIOUS
  <2>1. a \in 1 .. x /\ b \in 1 .. x
    BY <1>1
  <2>2. s[a] \in 1 .. n /\ s[b] \in 1 .. n
    BY <1>2, <2>1
  <2>3. f[s[a]] = f[s[b]]
    BY <1>6
  <2>4. s[a] = s[b]
    BY <2>2, <2>3
  <2> QED BY <1>1, <1>2, <2>1, <2>4
<1>8. \E a, b \in P : a # b /\ g[a] = g[b]
  <2>1. p \in Nat \ {0}
    BY <1>1
  <2>2. g \in [1 .. p -> 1 .. (p - 1)]
    BY <1>6, Zenon
  <2> QED BY <2>1, <2>2, PigeonHole
<1> QED BY <1>7, <1>8

-----------------------------------------------------------------------------
(***************************************************************************)
(* The partial results, merged.                                            *)
(***************************************************************************)

AnyResult == [dis : Nat, id : Nat]

IsMerge(t) ==
  /\ t[0] = <<>>
  /\ \A n \in 1 .. MaxThread : t[n] = t[n - 1] \o pres[n]
  /\ Merged = t[MaxThread]

LEMMA MergedLoop ==
  ASSUME pres \in [1 .. MaxThread -> Seq(AnyResult)]
  PROVE  \E t : IsMerge(t)
<1> DEFINE n == MaxThread
           step(q, j) == q \o pres[j]
           F(g) == [j \in 0 .. n |-> IF j = 0 THEN <<>> ELSE step(g[j - 1], j)]
           f == [j \in 1 .. n |-> [q \in Seq(AnyResult) |-> step(q, j)]]
           merged == CHOOSE g : g = F(g)
<1>0. n \in Nat
  BY IvfPqAssumption
<1>1. Merged = merged[n]
  BY DEF Merged
<1> HIDE DEF n
<1>2. f \in [1 .. n -> [Seq(AnyResult) -> Seq(AnyResult)]] /\ <<>> \in Seq(AnyResult)
  <2>1. ASSUME NEW j \in 1 .. n, NEW q \in Seq(AnyResult) PROVE step(q, j) \in Seq(AnyResult)
    <3>1. pres[j] \in Seq(AnyResult)
      BY DEF n
    <3> QED BY <3>1
  <2> HIDE DEF step
  <2> QED BY <2>1
<1> HIDE DEF step
<1>3. PICK t : IsLoop(t, n, Seq(AnyResult), f, <<>>)
  <2> HIDE DEF f
  <2> QED BY <1>0, <1>2, LoopExists
<1>4. \A j \in 0 .. n : t[j] = IF j = 0 THEN <<>> ELSE step(t[j - 1], j)
  <2>1. ASSUME NEW j \in 1 .. n PROVE t[j] = step(t[j - 1], j)
    <3>1. t[j - 1] \in Seq(AnyResult) /\ t[j] = f[j][t[j - 1]]
      <4> HIDE DEF f
      <4>1. j - 1 \in 0 .. n
        BY <1>0
      <4> QED BY <1>3, <4>1 DEF IsLoop
    <3> QED BY <3>1
  <2>2. t[0] = <<>>
    BY <1>3 DEF IsLoop
  <2> HIDE DEF f
  <2>3. \A j \in 0 .. n : j = 0 \/ (j # 0 /\ j \in 1 .. n)
    BY <1>0
  <2> QED BY <2>1, <2>2, <2>3, Zenon
<1>5. t = F(t)
  <2>1. t = [j \in 0 .. n |-> t[j]]
    BY <1>3 DEF IsLoop
  <2> QED BY <1>4, <2>1
<1>6. merged = F(merged)
  BY <1>5
<1> HIDE DEF merged
<1>7. merged[0] = <<>>
  <2>1. 0 \in 0 .. n
    BY <1>0
  <2> QED BY <1>6, <2>1, Zenon
<1>8. ASSUME NEW j \in 1 .. n
      PROVE  merged[j] = step(merged[j - 1], j)
  <2>1. j \in 0 .. n /\ j # 0
    BY <1>0
  <2> QED BY <1>6, <2>1, Zenon
<1>9. IsMerge(merged)
  BY <1>1, <1>7, <1>8 DEF step, n, IsMerge
<1> QED BY <1>9

\* The merged sequence holds the partial results and nothing else, and where these
\* have different ids it has none twice.
LEMMA MergedIs ==
  ASSUME pres \in [1 .. MaxThread -> Seq(AnyResult)],
         \A t, u \in 1 .. MaxThread : \A a \in DOMAIN pres[t], b \in DOMAIN pres[u] :
           pres[t][a].id = pres[u][b].id => t = u /\ a = b
  PROVE  /\ Merged \in Seq(AnyResult)
         /\ \A a \in DOMAIN Merged : \E t \in 1 .. MaxThread : \E b \in DOMAIN pres[t] :
              Merged[a] = pres[t][b]
         /\ \A t \in 1 .. MaxThread : \A b \in DOMAIN pres[t] : \E a \in DOMAIN Merged :
              Merged[a] = pres[t][b]
         /\ \A a, b \in DOMAIN Merged : Merged[a].id = Merged[b].id => a = b
<1>0. MaxThread \in Nat
  BY IvfPqAssumption
<1>1. PICK w : IsMerge(w)
  BY MergedLoop
<1>2. /\ w[0] = <<>>
      /\ \A n \in 1 .. MaxThread : w[n] = w[n - 1] \o pres[n]
      /\ Merged = w[MaxThread]
  BY <1>1 DEF IsMerge
<1> DEFINE From(q, m) == \A a \in DOMAIN q : \E t \in 1 .. m : \E b \in DOMAIN pres[t] : q[a] = pres[t][b]
           All(q, m) == \A t \in 1 .. m : \A b \in DOMAIN pres[t] : \E a \in DOMAIN q : q[a] = pres[t][b]
           Once(q) == \A a, b \in DOMAIN q : q[a].id = q[b].id => a = b
           Good(q, m) == q \in Seq(AnyResult) /\ From(q, m) /\ All(q, m) /\ Once(q)
           T == {m \in Nat : m <= MaxThread => Good(w[m], m)}
<1>3. 0 \in T
  <2>1. Good(<<>>, 0)
    OBVIOUS
  <2> HIDE DEF Good
  <2>2. Good(w[0], 0)
    BY <1>2, <2>1
  <2> QED BY <2>2
<1>4. ASSUME NEW m \in Nat, m \in T
      PROVE  m + 1 \in T
  <2> SUFFICES ASSUME m + 1 <= MaxThread PROVE Good(w[m + 1], m + 1)
    OBVIOUS
  <2>1. m <= MaxThread /\ m + 1 \in 1 .. MaxThread /\ (m + 1) - 1 = m
    BY <1>0
  <2>2. PICK q : q = w[m]
    OBVIOUS
  <2>3. PICK r : r = pres[m + 1]
    OBVIOUS
  <2>4. w[m + 1] = q \o r
    BY <1>2, <2>1, <2>2, <2>3
  <2>5. Good(q, m)
    BY <1>4, <2>1, <2>2
  <2>6. q \in Seq(AnyResult) /\ r \in Seq(AnyResult)
    BY <2>1, <2>3, <2>5
  <2> HIDE DEF From, All, Once
  <2>7. PICK u : u = q \o r
    OBVIOUS
  <2>8. /\ u \in Seq(AnyResult) /\ Len(q) \in Nat /\ Len(r) \in Nat
        /\ DOMAIN q = 1 .. Len(q) /\ DOMAIN r = 1 .. Len(r) /\ DOMAIN u = 1 .. (Len(q) + Len(r))
        /\ \A a \in DOMAIN q : u[a] = q[a]
        /\ \A a \in DOMAIN r : u[a + Len(q)] = r[a]
    BY <2>6, <2>7
  <2>9. \A a \in DOMAIN u : \/ a \in DOMAIN q /\ u[a] = q[a]
                            \/ a - Len(q) \in DOMAIN r /\ u[a] = r[a - Len(q)]
    <3> TAKE a \in DOMAIN u
    <3>1. CASE a <= Len(q)
      BY <2>8, <3>1
    <3>2. CASE a > Len(q)
      <4>1. a - Len(q) \in DOMAIN r /\ (a - Len(q)) + Len(q) = a
        BY <2>8, <3>2
      <4> QED BY <2>8, <4>1
    <3> QED BY <2>8, <3>1, <3>2
  <2>10. From(u, m + 1)
    <3> SUFFICES ASSUME NEW a \in DOMAIN u
                 PROVE  \E t \in 1 .. (m + 1) : \E b \in DOMAIN pres[t] : u[a] = pres[t][b]
      BY DEF From
    <3>1. CASE a \in DOMAIN q /\ u[a] = q[a]
      <4>1. PICK t \in 1 .. m : \E b \in DOMAIN pres[t] : q[a] = pres[t][b]
        BY <2>5, <3>1 DEF From
      <4>2. t \in 1 .. (m + 1)
        OBVIOUS
      <4> QED BY <3>1, <4>1, <4>2
    <3>2. CASE a - Len(q) \in DOMAIN r /\ u[a] = r[a - Len(q)]
      BY <2>1, <2>3, <3>2
    <3> QED BY <2>9, <3>1, <3>2
  <2>11. All(u, m + 1)
    <3> SUFFICES ASSUME NEW t \in 1 .. (m + 1), NEW b \in DOMAIN pres[t]
                 PROVE  \E a \in DOMAIN u : u[a] = pres[t][b]
      BY DEF All
    <3>1. CASE t = m + 1
      <4>1. b \in DOMAIN r /\ b + Len(q) \in DOMAIN u
        BY <2>3, <2>8, <3>1
      <4> QED BY <2>3, <2>8, <3>1, <4>1
    <3>2. CASE t \in 1 .. m
      <4>1. PICK a \in DOMAIN q : q[a] = pres[t][b]
        BY <2>5, <3>2 DEF All
      <4>2. a \in DOMAIN u
        BY <2>8
      <4> QED BY <2>8, <4>1, <4>2
    <3> QED BY <3>1, <3>2
  <2>12. Once(u)
    <3> SUFFICES ASSUME NEW a \in DOMAIN u, NEW b \in DOMAIN u, u[a].id = u[b].id PROVE a = b
      BY DEF Once
    <3>1. ASSUME NEW x \in DOMAIN q, NEW y \in DOMAIN r PROVE q[x].id # r[y].id
      <4>1. PICK t \in 1 .. m : \E c \in DOMAIN pres[t] : q[x] = pres[t][c]
        BY <2>5 DEF From
      <4>2. PICK c \in DOMAIN pres[t] : q[x] = pres[t][c]
        BY <4>1
      <4>3. t \in 1 .. MaxThread /\ t # m + 1 /\ y \in DOMAIN pres[m + 1]
        BY <1>0, <2>1, <2>3
      <4> QED BY <2>1, <2>3, <4>2, <4>3
    <3>2. CASE a \in DOMAIN q /\ b \in DOMAIN q
      BY <2>5, <2>8, <3>2 DEF Once
    <3>3. CASE a - Len(q) \in DOMAIN r /\ u[a] = r[a - Len(q)] /\ b - Len(q) \in DOMAIN r /\ u[b] = r[b - Len(q)]
      <4>1. a - Len(q) = b - Len(q)
        BY <2>1, <2>3, <3>3
      <4> QED BY <2>8, <4>1
    <3>4. CASE a \in DOMAIN q /\ b - Len(q) \in DOMAIN r /\ u[b] = r[b - Len(q)]
      BY <2>8, <3>1, <3>4
    <3>5. CASE b \in DOMAIN q /\ a - Len(q) \in DOMAIN r /\ u[a] = r[a - Len(q)]
      BY <2>8, <3>1, <3>5
    <3> QED BY <2>9, <3>2, <3>3, <3>4, <3>5
  <2> QED BY <2>4, <2>7, <2>8, <2>10, <2>11, <2>12
<1>5. Nat \subseteq T
  <2> HIDE DEF T
  <2> QED BY <1>3, <1>4, SetInduction
<1>6. Good(w[MaxThread], MaxThread)
  BY <1>0, <1>5
<1> QED BY <1>2, <1>6

-----------------------------------------------------------------------------
(***************************************************************************)
(* Scanning a list.                                                        *)
(***************************************************************************)

LEMMA HitsInAre ==
  ASSUME NEW L
  PROVE  /\ \A h \in HitsIn(L) : /\ h[1] \in L /\ h[2] \in DOMAIN invlists[h[1]]
                                 /\ Reports(h[1], h[2]) /\ h = <<h[1], h[2]>>
         /\ \A l \in L : \A j \in DOMAIN invlists[l] : Reports(l, j) => <<l, j>> \in HitsIn(L)
<1>1. ASSUME NEW h \in HitsIn(L)
      PROVE  /\ h[1] \in L /\ h[2] \in DOMAIN invlists[h[1]]
             /\ Reports(h[1], h[2]) /\ h = <<h[1], h[2]>>
  <2>1. PICK l \in L : h \in {l} \X DOMAIN invlists[l]
    BY DEF HitsIn
  <2>2. h[1] = l /\ h[2] \in DOMAIN invlists[l] /\ h = <<h[1], h[2]>>
    BY <2>1
  <2>3. Reports(h[1], h[2])
    BY DEF HitsIn
  <2> QED BY <2>2, <2>3
<1>2. ASSUME NEW l \in L, NEW j \in DOMAIN invlists[l], Reports(l, j)
      PROVE  <<l, j>> \in HitsIn(L)
  <2>1. PICK h : h = <<l, j>>
    OBVIOUS
  <2>2. h \in {l} \X DOMAIN invlists[l] /\ h[1] = l /\ h[2] = j
    BY <2>1
  <2>3. h \in UNION {{m} \X DOMAIN invlists[m] : m \in L}
    BY <2>2
  <2>4. h \in HitsIn(L)
    BY <1>2, <2>2, <2>3 DEF HitsIn
  <2> QED BY <2>1, <2>4
<1> QED BY <1>1, <1>2

LEMMA HitsOfUnion ==
  ASSUME NEW L, NEW M
  PROVE  HitsIn(L \cup M) = HitsIn(L) \cup HitsIn(M)
<1>1. ASSUME NEW h, h \in HitsIn(L \cup M) PROVE h \in HitsIn(L) \cup HitsIn(M)
  <2>1. h[1] \in L \cup M /\ h[2] \in DOMAIN invlists[h[1]] /\ Reports(h[1], h[2]) /\ h = <<h[1], h[2]>>
    BY <1>1, HitsInAre
  <2>2. PICK l, j : l = h[1] /\ j = h[2]
    OBVIOUS
  <2>3. l \in L \cup M /\ j \in DOMAIN invlists[l] /\ Reports(l, j) /\ h = <<l, j>>
    BY <2>1, <2>2
  <2> QED BY <2>3, HitsInAre
<1>2. ASSUME NEW h, h \in HitsIn(L) \cup HitsIn(M) PROVE h \in HitsIn(L \cup M)
  <2>1. h[1] \in L \cup M /\ h[2] \in DOMAIN invlists[h[1]] /\ Reports(h[1], h[2]) /\ h = <<h[1], h[2]>>
    BY <1>2, HitsInAre
  <2>2. PICK l, j : l = h[1] /\ j = h[2]
    OBVIOUS
  <2>3. l \in L \cup M /\ j \in DOMAIN invlists[l] /\ Reports(l, j) /\ h = <<l, j>>
    BY <2>1, <2>2
  <2> QED BY <2>3, HitsInAre
<1> QED BY <1>1, <1>2

\* The row of a hit is a row of its list; no two hits have the same id.
LEMMA HitRows ==
  ASSUME IvfPqTypeOK, NEW L \in SUBSET List, NEW h \in HitsIn(L)
  PROVE  /\ HitRow(h) \in Row /\ HitRow(h) = invlists[h[1]][h[2]]
         /\ h[1] \in List /\ h[2] \in DOMAIN invlists[h[1]]
         /\ Result(HitRow(h)) \in AnyResult /\ Result(HitRow(h)).id = HitRow(h).id
         /\ Result(HitRow(h)).dis = HitRow(h).vector.root * HitRow(h).vector.root
<1>1. h[1] \in List /\ h[2] \in DOMAIN invlists[h[1]]
  BY HitsInAre
<1>2. invlists[h[1]] \in Seq(Row)
  BY <1>1 DEF IvfPqTypeOK
<1>3. PICK q : q = invlists[h[1]]
  OBVIOUS
<1>4. q[h[2]] \in Row
  BY <1>1, <1>2, <1>3
<1>5. HitRow(h) \in Row /\ HitRow(h) = invlists[h[1]][h[2]]
  BY <1>3, <1>4 DEF HitRow
<1>6. PICK row : row = HitRow(h)
  OBVIOUS
<1>7. row.id \in Nat /\ row.vector \in Vector
  BY <1>5, <1>6 DEF Row
<1>8. row.vector.root \in Nat
  BY <1>7, IvfPqAssumption
<1>9. row.vector.root * row.vector.root \in Nat
  BY <1>8
<1>10. Result(row) = [dis |-> row.vector.root * row.vector.root, id |-> row.id]
  BY DEF Result
<1>11. Result(row) \in AnyResult /\ Result(row).id = row.id
       /\ Result(row).dis = row.vector.root * row.vector.root
  BY <1>7, <1>9, <1>10 DEF AnyResult
<1> QED BY <1>1, <1>5, <1>6, <1>11

LEMMA HitsHaveIds ==
  ASSUME IvfPqTypeOK, RowsNumbered, ListsHoldRows, NEW L \in SUBSET List,
         NEW h \in HitsIn(L), NEW g \in HitsIn(L), HitRow(h).id = HitRow(g).id
  PROVE  h = g
<1>1. /\ h[1] \in List /\ h[2] \in DOMAIN invlists[h[1]] /\ HitRow(h) = invlists[h[1]][h[2]]
      /\ g[1] \in List /\ g[2] \in DOMAIN invlists[g[1]] /\ HitRow(g) = invlists[g[1]][g[2]]
  BY HitRows
<1>2. PICK a \in DOMAIN rows : rows[a] = HitRow(h)
  BY <1>1 DEF ListsHoldRows
<1>3. PICK b \in DOMAIN rows : rows[b] = HitRow(g)
  BY <1>1 DEF ListsHoldRows
<1>4. a = b
  BY <1>2, <1>3 DEF RowsNumbered
<1>5. HitRow(h).vector.key = h[1] /\ HitRow(g).vector.key = g[1]
  BY <1>1 DEF ListsHoldRows
<1>6. h[1] = g[1]
  BY <1>2, <1>3, <1>4, <1>5
<1>7. h[2] = g[2]
  BY <1>1, <1>6 DEF ListsHoldRows
<1>8. h = <<h[1], h[2]>> /\ g = <<g[1], g[2]>>
  BY HitsInAre
<1> QED BY <1>6, <1>7, <1>8

\* Scanning a list gives its hits.
LEMMA ScanIs ==
  ASSUME IvfPqTypeOK, ListsHoldRows, NEW l \in List
  PROVE  /\ scan_codes_range(l) \in Seq(AnyResult)
         /\ \A a \in DOMAIN scan_codes_range(l) : \E h \in HitsIn({l}) :
              scan_codes_range(l)[a] = Result(HitRow(h))
         /\ \A h \in HitsIn({l}) : \E a \in DOMAIN scan_codes_range(l) :
              scan_codes_range(l)[a] = Result(HitRow(h))
         /\ \A a, b \in DOMAIN scan_codes_range(l) :
              scan_codes_range(l)[a].id = scan_codes_range(l)[b].id => a = b
<1>1. PICK n : n = Len(invlists[l])
  OBVIOUS
<1>2. n \in Nat /\ DOMAIN invlists[l] = 1 .. n /\ \A j \in 1 .. n : invlists[l][j] \in Row
  BY <1>1 DEF IvfPqTypeOK
<1>3. PICK S : S = {j \in DOMAIN invlists[l] : Reports(l, j)}
  OBVIOUS
<1>4. PICK k : k = Kept(n, S)
  OBVIOUS
<1>5. PICK c : c = scan_codes_range(l)
  OBVIOUS
<1>6. c = [p \in DOMAIN k |-> Result(invlists[l][k[p]])]
  BY <1>1, <1>3, <1>4, <1>5 DEF scan_codes_range
<1>7. /\ k \in Seq(1 .. n)
      /\ \A a \in DOMAIN k : k[a] \in S
      /\ \A j \in 1 .. n : j \in S => \E a \in DOMAIN k : k[a] = j
      /\ \A a, b \in DOMAIN k : a < b => k[a] < k[b]
  BY <1>2, <1>4, KeptIs
<1>8. DOMAIN k = 1 .. Len(k) /\ Len(k) \in Nat /\ DOMAIN c = 1 .. Len(k)
  BY <1>6, <1>7
<1>9. ASSUME NEW a \in DOMAIN k
      PROVE  /\ <<l, k[a]>> \in HitsIn({l}) /\ c[a] = Result(HitRow(<<l, k[a]>>))
             /\ c[a] \in AnyResult /\ c[a].id = invlists[l][k[a]].id /\ k[a] \in DOMAIN invlists[l]
  <2>1. k[a] \in DOMAIN invlists[l] /\ Reports(l, k[a])
    BY <1>3, <1>7
  <2>2. PICK h : h = <<l, k[a]>>
    OBVIOUS
  <2>3. h \in HitsIn({l}) /\ h[1] = l /\ h[2] = k[a]
    BY <2>1, <2>2, HitsInAre
  <2>4. HitRow(h) = invlists[l][k[a]] /\ Result(HitRow(h)) \in AnyResult
        /\ Result(HitRow(h)).id = HitRow(h).id
    BY <2>3, HitRows
  <2>5. c[a] = Result(invlists[l][k[a]])
    BY <1>6
  <2> QED BY <2>1, <2>2, <2>3, <2>4, <2>5
<1>10. c \in Seq(AnyResult)
  <2>1. PICK m : m = Len(k)
    OBVIOUS
  <2>2. \A p \in 1 .. m : c[p] \in AnyResult
    BY <1>8, <1>9, <2>1
  <2>3. c \in [1 .. m -> AnyResult] /\ m \in Nat
    <3>1. c = [p \in 1 .. m |-> c[p]]
      BY <1>6, <1>8, <2>1
    <3> QED BY <1>8, <2>1, <2>2, <3>1
  <2> QED BY <2>3
<1>11. \A a \in DOMAIN c : \E h \in HitsIn({l}) : c[a] = Result(HitRow(h))
  BY <1>8, <1>9
<1>12. ASSUME NEW h \in HitsIn({l})
       PROVE  \E a \in DOMAIN c : c[a] = Result(HitRow(h))
  <2>1. h[1] = l /\ h[2] \in DOMAIN invlists[l] /\ Reports(l, h[2]) /\ h = <<h[1], h[2]>>
    BY HitsInAre
  <2>2. PICK j : j = h[2]
    OBVIOUS
  <2>3. j \in 1 .. n /\ j \in S /\ h = <<l, j>>
    BY <1>2, <1>3, <2>1, <2>2
  <2>4. PICK a \in DOMAIN k : k[a] = j
    BY <1>7, <2>3
  <2> QED BY <1>8, <1>9, <2>3, <2>4
<1>13. ASSUME NEW a \in DOMAIN c, NEW b \in DOMAIN c, c[a].id = c[b].id
       PROVE  a = b
  <2>1. a \in DOMAIN k /\ b \in DOMAIN k
    BY <1>8
  <2>2. k[a] = k[b]
    <3>1. /\ k[a] \in DOMAIN invlists[l] /\ k[b] \in DOMAIN invlists[l]
          /\ invlists[l][k[a]].id = invlists[l][k[b]].id
      BY <1>9, <1>13, <2>1
    <3>2. \A j, m \in DOMAIN invlists[l] : invlists[l][j].id = invlists[l][m].id => j = m
      BY DEF ListsHoldRows
    <3> QED BY <3>1, <3>2
  <2>3. ~(a < b) /\ ~(b < a)
    <3>1. k[a] \in DOMAIN invlists[l] /\ k[b] \in DOMAIN invlists[l]
      BY <1>9, <2>1
    <3>2. k[a] \in Nat /\ k[b] \in Nat
      <4>1. k[a] \in 1 .. n /\ k[b] \in 1 .. n
        BY <1>2, <3>1, Zenon
      <4> QED BY <4>1
    <3> QED BY <1>7, <2>1, <2>2, <3>2
  <2> QED BY <1>8, <2>3
<1> QED BY <1>5, <1>10, <1>11, <1>12, <1>13

-----------------------------------------------------------------------------
(***************************************************************************)
(* Adding rows.                                                            *)
(***************************************************************************)

\* What the invariant says before there is an answer.
IvfPqBase ==
  /\ IvfPqTypeOK /\ RowsNumbered /\ ListsHoldRows /\ ErrorsAligned
  /\ Searching /\ PartialResults

LEMMA IvfPqInitInv == IvfPqInit => IvfPqInv
<1> SUFFICES ASSUME IvfPqInit PROVE IvfPqInv
  OBVIOUS
<1>1. IvfPqTypeOK
  <2>1. \A X : <<>> \in Seq(X)
    OBVIOUS
  <2>2. rows \in Seq(Row) /\ keys \in Seq(List \cup {-1})
    BY <2>1 DEF IvfPqInit
  <2>3. invlists \in [List -> Seq(Row)] /\ reconstruction_errors \in [List -> Seq(Nat)]
    BY <2>1 DEF IvfPqInit
  <2>4. pres \in [1 .. MaxThread -> Seq([dis : Nat, id : Nat])]
    BY <2>1 DEF IvfPqInit
  <2>5. keys = <<>> /\ Len(keys) = 0
    BY DEF IvfPqInit
  <2>6. left \in 0 .. MaxRows /\ i \in 0 .. bs /\ i <= left /\ ntotal \in 0 .. MaxRows
    <3>1. left = 0 /\ i = 0 /\ ntotal = 0
      BY DEF IvfPqInit
    <3>2. MaxRows \in Nat /\ bs \in Nat
      BY IvfPqAssumption
    <3> QED BY <3>1, <3>2
  <2>7. next \in 1 .. Len(keys) + 1
    <3>1. next = 1
      BY DEF IvfPqInit
    <3> QED BY <2>5, <3>1
  <2>8. xids \in BOOLEAN /\ interrupt \in BOOLEAN /\ pc \in {"open", "adding", "scanning", "returned", "thrown"}
    BY DEF IvfPqInit
  <2> QED BY <2>2, <2>3, <2>4, <2>6, <2>7, <2>8 DEF IvfPqTypeOK
<1>2. RowsNumbered
  BY IvfPqAssumption DEF IvfPqInit, RowsNumbered
<1>3. ListsHoldRows
  BY DEF IvfPqInit, ListsHoldRows
<1>4. ErrorsAligned
  <2> SUFFICES ASSUME NEW l \in List
               PROVE  reconstruction_errors[l] = [j \in DOMAIN invlists[l] |-> invlists[l][j].vector.err]
    BY DEF ErrorsAligned
  <2>1. reconstruction_errors[l] = <<>> /\ invlists[l] = <<>>
    BY DEF IvfPqInit
  <2> QED BY <2>1
<1>5. Searching
  BY DEF IvfPqInit, Searching
<1>6. PartialResults /\ Answers
  BY DEF IvfPqInit, PartialResults, Answers, AnswerIsExact, FullConfidenceLosesNothing, MatchesBruteForce
<1> QED BY <1>1, <1>2, <1>3, <1>4, <1>5, <1>6 DEF IvfPqInv

\* Where no search is made there is nothing to say of results.
LEMMA NoSearch ==
  ASSUME pc' \notin {"scanning", "returned"}
  PROVE  PartialResults' /\ Answers'
BY DEF PartialResults, Answers, AnswerIsExact, FullConfidenceLosesNothing, MatchesBruteForce

LEMMA CountersInv ==
  ASSUME IvfPqInv, NEW n \in 0 .. MaxRows, BeginAdd(n) \/ EndBlock \/ AddInterrupted
  PROVE  IvfPqInv'
<1>0. MaxRows \in Nat /\ bs \in Nat
  BY IvfPqAssumption
<1>1. /\ xids' = xids /\ rows' = rows /\ invlists' = invlists
      /\ reconstruction_errors' = reconstruction_errors
      /\ keys' = keys /\ next' = next /\ pres' = pres /\ interrupt' = interrupt
      /\ pc \in {"open", "adding"} /\ pc' \in {"open", "adding"}
  BY DEF BeginAdd, EndBlock, AddInterrupted, searchVars
<1>2. PartialResults' /\ Answers'
  BY <1>1, NoSearch
<1>3. ListsHoldRows'
  <2>1. ListsHoldRows
    BY DEF IvfPqInv
  <2> QED BY <1>1, <2>1 DEF ListsHoldRows
<1>4. ErrorsAligned'
  <2>1. ErrorsAligned
    BY DEF IvfPqInv
  <2> QED BY <1>1, <2>1 DEF ErrorsAligned
<1>5. PICK m : m = Len(rows)
  OBVIOUS
<1>6. /\ m \in Nat /\ ntotal \in Nat /\ i \in Nat /\ left \in Nat /\ i <= left /\ i <= bs /\ left <= MaxRows
      /\ ntotal + i = m /\ m + (left - i) <= MaxRows
  BY <1>0, <1>5 DEF IvfPqInv, IvfPqTypeOK, RowsNumbered
<1>7. PICK nt, lf : nt = ntotal' /\ lf = left'
  OBVIOUS
<1>8. /\ i' = 0 /\ nt \in Nat /\ nt = ntotal + i
      /\ lf \in Nat /\ m + lf <= MaxRows
  <2>1. CASE BeginAdd(n)
    <3>1. pc = "open" /\ m + n <= MaxRows /\ lf = n /\ i' = 0 /\ nt = ntotal
      BY <1>5, <1>7, <2>1 DEF BeginAdd
    <3>2. i = 0
      BY <3>1 DEF IvfPqInv, Searching
    <3> QED BY <1>6, <3>1, <3>2
  <2>2. CASE EndBlock
    <3>1. nt = ntotal + i /\ lf = left - i /\ i' = 0
      BY <1>7, <2>2 DEF EndBlock
    <3> QED BY <1>0, <1>6, <3>1
  <2>3. CASE AddInterrupted
    <3>1. nt = ntotal /\ lf = 0 /\ i = 0 /\ i' = i
      BY <1>7, <2>3 DEF AddInterrupted
    <3> QED BY <1>0, <1>6, <3>1
  <2> QED BY <2>1, <2>2, <2>3
<1>9. IvfPqTypeOK'
  <2>1. lf \in 0 .. MaxRows /\ 0 \in 0 .. bs /\ 0 <= lf /\ nt \in 0 .. MaxRows
    BY <1>0, <1>6, <1>8
  <2>2. left' \in 0 .. MaxRows /\ i' \in 0 .. bs /\ i' <= left' /\ ntotal' \in 0 .. MaxRows
    BY <1>7, <1>8, <2>1
  <2>3. IvfPqTypeOK
    BY DEF IvfPqInv
  <2> QED BY <1>1, <2>2, <2>3 DEF IvfPqTypeOK
<1>10. RowsNumbered'
  <2>1. NextId' = NextId
    <3>1. ntotal' + i' = ntotal + i
      BY <1>6, <1>7, <1>8
    <3> QED BY <1>1, <3>1 DEF NextId
  <2>2. ntotal' + i' = m /\ m + (left' - i') <= MaxRows
    <3>1. nt + 0 = m /\ m + (lf - 0) <= MaxRows
      BY <1>6, <1>8
    <3> QED BY <1>7, <1>8, <3>1
  <2>3. RowsNumbered
    BY DEF IvfPqInv
  <2> QED BY <1>1, <1>5, <2>1, <2>2, <2>3 DEF RowsNumbered
<1>11. Searching'
  <2>1. Searching
    BY DEF IvfPqInv
  <2> QED BY <1>1, <1>8, <2>1 DEF Searching
<1> QED BY <1>2, <1>3, <1>4, <1>9, <1>10, <1>11 DEF IvfPqInv

LEMMA AddRowInv ==
  ASSUME IvfPqInv, NEW v \in Vector, AddRow(v)
  PROVE  IvfPqInv'
<1>0. /\ MaxRows \in Nat /\ bs \in Nat /\ v.key \in List \cup {-1} /\ v.err \in Nat
      /\ List \subseteq Nat
  BY IvfPqAssumption
<1>1. /\ xids' = xids /\ left' = left /\ ntotal' = ntotal
      /\ keys' = keys /\ next' = next /\ pres' = pres /\ interrupt' = interrupt
      /\ pc = "adding" /\ pc' = "adding" /\ i < left /\ i < bs /\ i' = i + 1
  BY DEF AddRow, searchVars
<1>2. PICK row : row = [id |-> NextId, vector |-> v]
  OBVIOUS
<1>3. rows' = Append(rows, row)
  BY <1>2 DEF AddRow, NextId
<1>4. \/ v.key < 0 /\ invlists' = invlists /\ reconstruction_errors' = reconstruction_errors
      \/ /\ ~(v.key < 0)
         /\ invlists' = [invlists EXCEPT ![v.key] = Append(@, row)]
         /\ reconstruction_errors' = [reconstruction_errors EXCEPT ![v.key] = Append(@, v.err)]
  BY <1>2 DEF AddRow, NextId
<1>5. IvfPqTypeOK /\ RowsNumbered /\ ListsHoldRows /\ ErrorsAligned /\ Searching
  BY DEF IvfPqInv
<1>6. PICK m : m = Len(rows)
  OBVIOUS
<1>7. /\ m \in Nat /\ ntotal \in Nat /\ i \in Nat /\ left \in Nat /\ i <= left /\ i <= bs /\ left <= MaxRows
      /\ ntotal + i = m /\ m + (left - i) <= MaxRows
  BY <1>0, <1>5, <1>6 DEF IvfPqTypeOK, RowsNumbered
<1>8. PICK nid : nid = NextId
  OBVIOUS
<1>9. nid \in Nat
  <2>1. xids \in BOOLEAN
    BY <1>5 DEF IvfPqTypeOK
  <2> QED BY <1>6, <1>7, <1>8, <2>1 DEF NextId
<1>10. row.id = nid /\ row.vector = v /\ row \in Row
  BY <1>2, <1>8, <1>9 DEF Row
<1>11. /\ rows \in Seq(Row) /\ rows' \in Seq(Row) /\ Len(rows') = m + 1
       /\ DOMAIN rows = 1 .. m /\ DOMAIN rows' = 1 .. (m + 1)
       /\ rows'[m + 1] = row /\ \A a \in 1 .. m : rows'[a] = rows[a]
  <2>1. rows \in Seq(Row)
    BY <1>5 DEF IvfPqTypeOK
  <2> QED BY <1>3, <1>6, <1>10, <2>1
<1>12. NextId' = nid + 1
  <2>1. xids' = xids /\ Len(rows') = m + 1 /\ ntotal' = ntotal /\ i' = i + 1
    BY <1>1, <1>11
  <2>2. nid = IF xids THEN 10 + m ELSE ntotal + i
    BY <1>6, <1>8 DEF NextId
  <2>3. NextId' = IF xids THEN 10 + (m + 1) ELSE ntotal + (i + 1)
    BY <2>1 DEF NextId
  <2> QED BY <1>7, <2>2, <2>3
<1>13. \A a \in 1 .. (m + 1) : (a \in 1 .. m /\ rows'[a] = rows[a]) \/ (a = m + 1 /\ rows'[a] = row)
  BY <1>7, <1>11
<1>14. \A a \in 1 .. m : rows[a].id \in Nat /\ rows[a].id < nid
  <2>1. \A a \in 1 .. m : rows[a] \in Row
    <3>1. rows \in Seq(Row)
      BY <1>11
    <3> QED BY <1>6, <1>7, <3>1
  <2>2. \A a \in 1 .. m : rows[a].id < nid
    BY <1>5, <1>8, <1>11 DEF RowsNumbered
  <2> QED BY <2>1, <2>2 DEF Row
<1>15. RowsNumbered'
  <2>1. ntotal' + i' = Len(rows') /\ Len(rows') + (left' - i') <= MaxRows
    <3>1. ntotal + (i + 1) = m + 1 /\ (m + 1) + (left - (i + 1)) <= MaxRows
      BY <1>0, <1>7
    <3> QED BY <1>1, <1>11, <3>1
  <2>2. \A a \in 1 .. (m + 1) : rows'[a].id < nid + 1
    BY <1>9, <1>10, <1>13, <1>14
  <2>3. ASSUME NEW a \in 1 .. (m + 1), NEW b \in 1 .. (m + 1), rows'[a].id = rows'[b].id
        PROVE  a = b
    <3>1. CASE a \in 1 .. m /\ b \in 1 .. m
      BY <1>5, <1>11, <2>3, <3>1 DEF RowsNumbered
    <3>2. CASE a = m + 1 /\ b \in 1 .. m
      BY <1>9, <1>10, <1>11, <1>14, <2>3, <3>2
    <3>3. CASE b = m + 1 /\ a \in 1 .. m
      BY <1>9, <1>10, <1>11, <1>14, <2>3, <3>3
    <3> QED BY <1>13, <3>1, <3>2, <3>3
  <2> QED BY <1>11, <1>12, <2>1, <2>2, <2>3 DEF RowsNumbered
<1>16. PICK inv, err : inv = invlists' /\ err = reconstruction_errors'
  OBVIOUS
<1>17. invlists \in [List -> Seq(Row)] /\ reconstruction_errors \in [List -> Seq(Nat)]
  BY <1>5 DEF IvfPqTypeOK
<1>18. inv \in [List -> Seq(Row)] /\ err \in [List -> Seq(Nat)]
  <2>1. CASE v.key < 0
    BY <1>4, <1>16, <1>17, <2>1
  <2>2. CASE ~(v.key < 0)
    <3>1. v.key \in List
      BY <1>0, <2>2
    <3>2. Append(invlists[v.key], row) \in Seq(Row) /\ Append(reconstruction_errors[v.key], v.err) \in Seq(Nat)
      BY <1>0, <1>10, <1>17, <3>1
    <3> QED BY <1>4, <1>16, <1>17, <2>2, <3>1, <3>2
  <2> QED BY <2>1, <2>2
<1>19. IvfPqTypeOK'
  <2>1. left' \in 0 .. MaxRows /\ i' \in 0 .. bs /\ i' <= left' /\ ntotal' \in 0 .. MaxRows
    <3>1. left \in 0 .. MaxRows /\ i + 1 \in 0 .. bs /\ i + 1 <= left /\ ntotal \in 0 .. MaxRows
      BY <1>0, <1>1, <1>7
    <3> QED BY <1>1, <3>1
  <2> QED BY <1>1, <1>5, <1>11, <1>16, <1>18, <2>1 DEF IvfPqTypeOK
\* What a list holds after the step.
<1>20. ASSUME NEW l \in List
       PROVE  \/ inv[l] = invlists[l] /\ err[l] = reconstruction_errors[l] /\ v.key # l
              \/ /\ v.key = l /\ inv[l] = Append(invlists[l], row)
                 /\ err[l] = Append(reconstruction_errors[l], v.err)
  BY <1>0, <1>4, <1>16, <1>17
<1>21. ASSUME NEW l \in List
       PROVE  \E k \in Nat :
                /\ DOMAIN invlists[l] = 1 .. k
                /\ invlists[l] \in Seq(Row) /\ reconstruction_errors[l] \in Seq(Nat)
                /\ \A j \in 1 .. k : /\ invlists[l][j] \in Row
                                     /\ invlists[l][j].vector.key = l
                                     /\ invlists[l][j].id \in Nat /\ invlists[l][j].id < nid
                                     /\ \E a \in 1 .. m : rows[a] = invlists[l][j]
                /\ reconstruction_errors[l] = [j \in 1 .. k |-> invlists[l][j].vector.err]
  <2>1. PICK k : k = Len(invlists[l])
    OBVIOUS
  <2>2. k \in Nat /\ DOMAIN invlists[l] = 1 .. k /\ \A j \in 1 .. k : invlists[l][j] \in Row
    BY <1>17, <2>1
  <2>3. \A j \in 1 .. k : invlists[l][j].vector.key = l /\ \E a \in 1 .. m : rows[a] = invlists[l][j]
    BY <1>5, <1>11, <2>2 DEF ListsHoldRows
  <2>4. \A j \in 1 .. k : invlists[l][j].id \in Nat /\ invlists[l][j].id < nid
    BY <1>14, <2>3
  <2>5. reconstruction_errors[l] = [j \in 1 .. k |-> invlists[l][j].vector.err]
    BY <1>5, <2>2 DEF ErrorsAligned
  <2>6. invlists[l] \in Seq(Row) /\ reconstruction_errors[l] \in Seq(Nat)
    BY <1>17
  <2> QED BY <2>2, <2>3, <2>4, <2>5, <2>6
<1>22. ErrorsAligned'
  <2>1. ASSUME NEW l \in List PROVE err[l] = [j \in DOMAIN inv[l] |-> inv[l][j].vector.err]
    <3>1. PICK k \in Nat :
             /\ DOMAIN invlists[l] = 1 .. k /\ invlists[l] \in Seq(Row) /\ reconstruction_errors[l] \in Seq(Nat)
             /\ reconstruction_errors[l] = [j \in 1 .. k |-> invlists[l][j].vector.err]
      BY <1>21
    <3>2. PICK q, e : q = invlists[l] /\ e = reconstruction_errors[l]
      OBVIOUS
    <3>3. CASE inv[l] = q /\ err[l] = e
      BY <3>1, <3>2, <3>3
    <3>4. CASE inv[l] = Append(q, row) /\ err[l] = Append(e, v.err)
      <4>1. /\ q \in Seq(Row) /\ e \in Seq(Nat) /\ DOMAIN q = 1 .. k /\ DOMAIN e = 1 .. k
            /\ Len(q) = k /\ Len(e) = k
            /\ \A j \in 1 .. k : e[j] = q[j].vector.err
        BY <3>1, <3>2
      <4>2. PICK w, x : w = Append(q, row) /\ x = Append(e, v.err)
        OBVIOUS
      <4>3. /\ x \in Seq(Nat) /\ DOMAIN w = 1 .. (k + 1) /\ DOMAIN x = 1 .. (k + 1)
            /\ w[k + 1] = row /\ x[k + 1] = v.err
            /\ \A j \in 1 .. k : w[j] = q[j] /\ x[j] = e[j]
        BY <1>0, <1>10, <4>1, <4>2
      <4>4. \A j \in 1 .. (k + 1) : x[j] = w[j].vector.err
        <5>1. \A j \in 1 .. (k + 1) : j \in 1 .. k \/ j = k + 1
          OBVIOUS
        <5> QED BY <1>10, <4>1, <4>3, <5>1
      <4>5. x = [j \in 1 .. (k + 1) |-> x[j]]
        BY <4>3
      <4>6. x = [j \in DOMAIN w |-> w[j].vector.err]
        BY <4>3, <4>4, <4>5
      <4> QED BY <3>4, <4>2, <4>6, Zenon
    <3> QED BY <1>20, <3>2, <3>3, <3>4
  <2> QED BY <1>16, <2>1 DEF ErrorsAligned
<1>23. ListsHoldRows'
  <2>1. ASSUME NEW l \in List
        PROVE  /\ \A j \in DOMAIN invlists[l] : j \in DOMAIN inv[l] /\ inv[l][j] = invlists[l][j]
               /\ \A j \in DOMAIN inv[l] : \/ j \in DOMAIN invlists[l] /\ inv[l][j] = invlists[l][j]
                                           \/ j \notin DOMAIN invlists[l] /\ inv[l][j] = row /\ v.key = l
               /\ \A j, k \in DOMAIN inv[l] : j \notin DOMAIN invlists[l] /\ k \notin DOMAIN invlists[l] => j = k
               /\ v.key = l => \E j \in DOMAIN inv[l] : inv[l][j] = row
    <3>1. PICK k \in Nat : DOMAIN invlists[l] = 1 .. k /\ invlists[l] \in Seq(Row)
      BY <1>21
    <3>2. PICK q : q = invlists[l]
      OBVIOUS
    <3>3. CASE inv[l] = q /\ v.key # l
      BY <3>2, <3>3
    <3>4. CASE inv[l] = Append(q, row) /\ v.key = l
      <4>1. q \in Seq(Row) /\ Len(q) = k /\ DOMAIN q = 1 .. k
        BY <3>1, <3>2
      <4>2. PICK w : w = Append(q, row)
        OBVIOUS
      <4>3. /\ DOMAIN w = 1 .. (k + 1) /\ w[k + 1] = row /\ \A j \in 1 .. k : w[j] = q[j]
        BY <1>10, <4>1, <4>2
      <4>4. \A j \in 1 .. (k + 1) : j \in 1 .. k \/ (j = k + 1 /\ j \notin 1 .. k)
        OBVIOUS
      <4>5. \A j \in 1 .. k : j \in 1 .. (k + 1)
        OBVIOUS
      <4>6. k + 1 \in 1 .. (k + 1)
        OBVIOUS
      <4>7. w = inv[l]
        BY <3>4, <4>2
      <4>8. \A j \in DOMAIN q : j \in DOMAIN w /\ w[j] = q[j]
        BY <4>1, <4>3, <4>5, Zenon
      <4>9. \A j \in DOMAIN w : (j \in DOMAIN q /\ w[j] = q[j]) \/ (j \notin DOMAIN q /\ w[j] = row)
        BY <4>1, <4>3, <4>4, Zenon
      <4>10. \A j, x \in DOMAIN w : j \notin DOMAIN q /\ x \notin DOMAIN q => j = x
        BY <4>1, <4>3, <4>4
      <4>11. \E j \in DOMAIN w : w[j] = row
        BY <4>3, <4>6, Zenon
      <4> QED BY <3>2, <3>4, <4>7, <4>8, <4>9, <4>10, <4>11, Zenon
    <3> QED BY <1>20, <3>2, <3>3, <3>4
  <2>2. ASSUME NEW l \in List, NEW j \in DOMAIN inv[l]
        PROVE  inv[l][j].vector.key = l /\ \E a \in 1 .. (m + 1) : rows'[a] = inv[l][j]
    <3>1. CASE j \in DOMAIN invlists[l] /\ inv[l][j] = invlists[l][j]
      <4>1. PICK a \in 1 .. m : rows[a] = invlists[l][j]
        <5>1. \E a \in DOMAIN rows : rows[a] = invlists[l][j]
          BY <1>5, <3>1 DEF ListsHoldRows
        <5>2. DOMAIN rows = 1 .. m
          BY <1>11
        <5> QED BY <5>1, <5>2
      <4>2. a \in 1 .. (m + 1) /\ rows'[a] = rows[a]
        BY <1>7, <1>11
      <4>3. invlists[l][j].vector.key = l
        BY <1>5, <3>1 DEF ListsHoldRows
      <4> QED BY <3>1, <4>1, <4>2, <4>3
    <3>2. CASE inv[l][j] = row /\ v.key = l
      <4>1. m + 1 \in 1 .. (m + 1)
        BY <1>7
      <4> QED BY <1>10, <1>11, <3>2, <4>1
    <3> QED BY <2>1, <3>1, <3>2
  <2>3. ASSUME NEW a \in 1 .. (m + 1), rows'[a].vector.key >= 0
        PROVE  \E j \in DOMAIN inv[rows'[a].vector.key] : inv[rows'[a].vector.key][j] = rows'[a]
    <3>1. CASE a \in 1 .. m /\ rows'[a] = rows[a]
      <4>1. PICK l : l = rows[a].vector.key
        OBVIOUS
      <4>2. l \in List
        <5>1. rows[a] \in Row
          BY <1>11, <3>1
        <5>2. rows[a].vector \in Vector
          BY <5>1 DEF Row
        <5>3. l \in List \cup {-1} /\ l >= 0
          BY <2>3, <3>1, <4>1, <5>2, IvfPqAssumption
        <5> QED BY <5>3
      <4>3. PICK j \in DOMAIN invlists[l] : invlists[l][j] = rows[a]
        BY <1>5, <1>11, <2>3, <3>1, <4>1 DEF ListsHoldRows
      <4>4. j \in DOMAIN inv[l] /\ inv[l][j] = invlists[l][j]
        BY <2>1, <4>2
      <4> QED BY <3>1, <4>1, <4>3, <4>4
    <3>2. CASE rows'[a] = row
      <4>1. v.key \in List
        BY <1>0, <1>10, <2>3, <3>2
      <4> QED BY <1>10, <2>1, <3>2, <4>1
    <3> QED BY <1>13, <3>1, <3>2
  <2>4. ASSUME NEW l \in List, NEW j \in DOMAIN inv[l], NEW k \in DOMAIN inv[l], inv[l][j].id = inv[l][k].id
        PROVE  j = k
    <3>1. \A x \in DOMAIN invlists[l] : invlists[l][x].id # row.id
      <4>1. \A x \in DOMAIN invlists[l] : invlists[l][x].id \in Nat /\ invlists[l][x].id < nid
        BY <1>21
      <4> QED BY <1>9, <1>10, <4>1
    <3>2. \A x, y \in DOMAIN invlists[l] : invlists[l][x].id = invlists[l][y].id => x = y
      BY <1>5 DEF ListsHoldRows
    <3> QED BY <2>1, <2>4, <3>1, <3>2
  <2> QED BY <1>11, <1>16, <2>2, <2>3, <2>4 DEF ListsHoldRows
<1>24. Searching'
  BY <1>1, <1>5 DEF Searching
<1>25. PartialResults' /\ Answers'
  BY <1>1, NoSearch
<1> QED BY <1>15, <1>19, <1>22, <1>23, <1>24, <1>25 DEF IvfPqInv
-----------------------------------------------------------------------------
(***************************************************************************)
(* Searching.                                                              *)
(***************************************************************************)

\* Steps that leave the rows and the call alone do not change what a hit is.
LEMMA HitsStay ==
  ASSUME invlists' = invlists, reconstruction_errors' = reconstruction_errors, call' = call
  PROVE  /\ \A h : HitRow(h)' = HitRow(h)
         /\ HitsIn(Scanned)' = HitsIn(Scanned')
<1>1. \A h : HitRow(h)' = HitRow(h)
  BY DEF HitRow
<1>2. HitsIn(Scanned)' = HitsIn(Scanned')
  BY DEF HitsIn, Reports, skip_entry, Accepts, Radius
<1> QED BY <1>1, <1>2

\* What a step of a search leaves alone.
LEMMA RowsStay ==
  ASSUME IvfPqInv, UNCHANGED addVars
  PROVE  /\ RowsNumbered' /\ ListsHoldRows' /\ ErrorsAligned'
         /\ invlists' = invlists /\ reconstruction_errors' = reconstruction_errors /\ rows' = rows
         /\ left' = left /\ i' = i /\ ntotal' = ntotal /\ xids' = xids
<1>1. /\ invlists' = invlists /\ reconstruction_errors' = reconstruction_errors /\ rows' = rows
      /\ left' = left /\ i' = i /\ ntotal' = ntotal /\ xids' = xids
  BY DEF addVars
<1>2. RowsNumbered'
  <2>1. RowsNumbered
    BY DEF IvfPqInv
  <2> QED BY <1>1, <2>1 DEF RowsNumbered, NextId
<1>3. ListsHoldRows'
  <2>1. ListsHoldRows
    BY DEF IvfPqInv
  <2> QED BY <1>1, <2>1 DEF ListsHoldRows
<1>4. ErrorsAligned'
  <2>1. ErrorsAligned
    BY DEF IvfPqInv
  <2> QED BY <1>1, <2>1 DEF ErrorsAligned
<1> QED BY <1>1, <1>2, <1>3, <1>4

LEMMA BeginSearchInv ==
  ASSUME IvfPqInv, NEW c \in Calls, BeginSearch(c)
  PROVE  IvfPqInv'
<1>1. /\ UNCHANGED addVars
      /\ pc = "open" /\ call' = c /\ next' = next /\ pres' = pres /\ interrupt' = interrupt
  BY DEF BeginSearch
<1>2. IvfPqTypeOK /\ Searching
  BY DEF IvfPqInv
<1>3. /\ keys = <<>> /\ next = 1 /\ ~interrupt /\ \A t \in 1 .. MaxThread : pres[t] = <<>>
  BY <1>1, <1>2 DEF Searching
<1>4. /\ RowsNumbered' /\ ListsHoldRows' /\ ErrorsAligned'
      /\ invlists' = invlists /\ reconstruction_errors' = reconstruction_errors /\ rows' = rows
      /\ left' = left /\ i' = i /\ ntotal' = ntotal /\ xids' = xids
  BY <1>1, RowsStay
<1>5. CASE IvfPqRefused(c)
  <2>1. pc' = "thrown" /\ keys' = keys
    BY <1>5 DEF BeginSearch
  <2>2. IvfPqTypeOK'
    BY <1>1, <1>2, <1>4, <2>1 DEF IvfPqTypeOK
  <2>3. Searching'
    BY <1>2, <2>1 DEF Searching
  <2>4. PartialResults' /\ Answers'
    BY <2>1, NoSearch
  <2> QED BY <1>4, <2>2, <2>3, <2>4 DEF IvfPqInv
<1>6. CASE ~IvfPqRefused(c)
  <2>1. PICK n : n = IF c.nprobe < Cardinality(List) THEN c.nprobe ELSE Cardinality(List)
    OBVIOUS
  <2>2. n \in Nat
    <3>1. Cardinality(List) \in Nat /\ c.nprobe \in Nat
      BY IvfPqAssumption, FS_CardinalityType
    <3> QED BY <2>1, <3>1
  <2>3. pc' = "scanning" /\ keys' \in Probes(n)
    BY <1>6, <2>1 DEF BeginSearch
  <2>4. PICK ks : ks = keys'
    OBVIOUS
  <2>5. /\ ks \in [1 .. n -> List \cup {-1}]
        /\ \A a, b \in 1 .. n : a # b /\ ks[a] = ks[b] => ks[a] = -1
    BY <2>3, <2>4 DEF Probes
  <2>6. ks \in Seq(List \cup {-1}) /\ Len(ks) = n /\ DOMAIN ks = 1 .. n
    BY <2>2, <2>5
  <2>7. next' \in 1 .. Len(keys') + 1
    <3>1. 1 \in 1 .. n + 1
      BY <2>2
    <3> QED BY <1>1, <1>3, <2>4, <2>6, <3>1
  <2>8. IvfPqTypeOK'
    BY <1>1, <1>2, <1>4, <2>3, <2>4, <2>6, <2>7 DEF IvfPqTypeOK
  <2>9. Searching'
    <3>1. pc' \notin {"open", "adding"} /\ call' \in Calls
      BY <1>1, <2>3
    <3>2. ~IvfPqRefused(call)'
      BY <1>1, <1>6 DEF IvfPqRefused
    <3>3. \A a, b \in DOMAIN ks : ks[a] = ks[b] /\ ks[a] # -1 => a = b
      BY <2>5, <2>6
    <3> QED BY <2>3, <2>4, <3>1, <3>2, <3>3 DEF Searching
  <2>10. PartialResults'
    <3>1. \A t \in 1 .. MaxThread : pres'[t] = <<>> /\ DOMAIN (pres'[t]) = {}
      BY <1>1, <1>3
    <3>2. Scanned' = {}
      BY <1>1, <1>3 DEF Scanned
    <3>3. HitsIn(Scanned)' = {}
      BY <3>2 DEF HitsIn
    <3> QED BY <3>1, <3>3 DEF PartialResults
  <2>11. Answers'
    BY <2>3 DEF Answers, AnswerIsExact, FullConfidenceLosesNothing, MatchesBruteForce
  <2> QED BY <1>4, <2>8, <2>9, <2>10, <2>11 DEF IvfPqInv
<1> QED BY <1>5, <1>6

LEMMA ScanListInv ==
  ASSUME IvfPqInv, NEW t \in 1 .. MaxThread, ScanList(t)
  PROVE  IvfPqInv'
<1>0. List \subseteq Nat
  BY IvfPqAssumption
<1>1. PICK l : l = keys[next]
  OBVIOUS
<1>2. /\ UNCHANGED addVars
      /\ pc = "scanning" /\ pc' = "scanning" /\ next <= Len(keys) /\ next' = next + 1
      /\ call' = call /\ keys' = keys
  BY DEF ScanList
<1>3. \/ ~HasCodes(l) /\ pres' = pres /\ interrupt' = interrupt
      \/ HasCodes(l) /\ pres' = [pres EXCEPT ![t] = @ \o scan_codes_range(l)] /\ interrupt' = interrupt
      \/ HasCodes(l) /\ pres' = pres /\ interrupt' = TRUE
  BY <1>1 DEF ScanList
<1>4. IvfPqTypeOK /\ RowsNumbered /\ ListsHoldRows /\ Searching /\ PartialResults
  BY DEF IvfPqInv
<1>5. /\ RowsNumbered' /\ ListsHoldRows' /\ ErrorsAligned'
      /\ invlists' = invlists /\ reconstruction_errors' = reconstruction_errors /\ rows' = rows
      /\ left' = left /\ i' = i /\ ntotal' = ntotal /\ xids' = xids
  BY <1>2, RowsStay
<1>6. PICK n, k : n = next /\ k = Len(keys)
  OBVIOUS
<1>7. /\ n \in Nat /\ k \in Nat /\ n \in 1 .. k /\ DOMAIN keys = 1 .. k
      /\ \A a \in 1 .. k : keys[a] \in List \cup {-1}
  <2>1. keys \in Seq(List \cup {-1}) /\ next \in 1 .. Len(keys) + 1
    BY <1>4 DEF IvfPqTypeOK
  <2>2. k \in Nat /\ DOMAIN keys = 1 .. k /\ \A a \in 1 .. k : keys[a] \in List \cup {-1}
    BY <1>6, <2>1
  <2> QED BY <1>2, <1>6, <2>1, <2>2
<1>8. \A a \in 1 .. (n - 1) : a \in 1 .. k /\ a # n
  BY <1>7
<1>9. l \in List \cup {-1}
  BY <1>1, <1>6, <1>7
<1>10. PICK S, V : S = Scanned /\ V = Scanned'
  OBVIOUS
<1>11. S \in SUBSET List
  <2>1. S = {keys[a] : a \in 1 .. (n - 1)} \ {-1}
    BY <1>6, <1>10 DEF Scanned
  <2> QED BY <1>7, <1>8, <2>1
<1>12. V = S \cup ({l} \ {-1})
  <2>1. V = {keys[a] : a \in 1 .. ((n + 1) - 1)} \ {-1}
    BY <1>2, <1>6, <1>10 DEF Scanned
  <2>2. S = {keys[a] : a \in 1 .. (n - 1)} \ {-1}
    BY <1>6, <1>10 DEF Scanned
  <2>3. \A a : a \in 1 .. ((n + 1) - 1) <=> a \in 1 .. (n - 1) \/ a = n
    BY <1>7
  <2>4. l = keys[n]
    BY <1>1, <1>6
  <2> HIDE <1>1, <1>2
  <2> QED BY <2>1, <2>2, <2>3, <2>4
<1>13. l \notin S
  <2>1. S = {keys[a] : a \in 1 .. (n - 1)} \ {-1}
    BY <1>6, <1>10 DEF Scanned
  <2>2. \A a, b \in 1 .. k : keys[a] = keys[b] /\ keys[a] # -1 => a = b
    BY <1>4, <1>7 DEF Searching
  <2> QED BY <1>1, <1>6, <1>7, <1>8, <2>1, <2>2
<1>14. PICK X, Y, Z : X = HitsIn(S) /\ Y = HitsIn({l} \ {-1}) /\ Z = X \cup Y
  OBVIOUS
<1>15. HitsIn(Scanned)' = Z /\ \A h : HitRow(h)' = HitRow(h)
  <2>1. HitsIn(V) = Z
    BY <1>12, <1>14, HitsOfUnion
  <2> QED BY <1>2, <1>5, <1>10, <2>1, HitsStay
<1>16. PICK pr : pr = pres'
  OBVIOUS
<1>17. pres \in [1 .. MaxThread -> Seq(AnyResult)]
  BY <1>4 DEF IvfPqTypeOK, AnyResult
<1>18. /\ \A u \in 1 .. MaxThread : \A a \in DOMAIN pres[u] : \E h \in X : pres[u][a] = Result(HitRow(h))
       /\ ~interrupt => \A h \in X :
            \E u \in 1 .. MaxThread : \E a \in DOMAIN pres[u] : pres[u][a] = Result(HitRow(h))
       /\ \A u, w \in 1 .. MaxThread : \A a \in DOMAIN pres[u], b \in DOMAIN pres[w] :
            pres[u][a].id = pres[w][b].id => u = w /\ a = b
  BY <1>2, <1>4, <1>10, <1>14 DEF PartialResults
<1> DEFINE Partial(p, H, complete) ==
             /\ p \in [1 .. MaxThread -> Seq(AnyResult)]
             /\ \A u \in 1 .. MaxThread : \A a \in DOMAIN p[u] : \E h \in H : p[u][a] = Result(HitRow(h))
             /\ complete => \A h \in H :
                  \E u \in 1 .. MaxThread : \E a \in DOMAIN p[u] : p[u][a] = Result(HitRow(h))
             /\ \A u, w \in 1 .. MaxThread : \A a \in DOMAIN p[u], b \in DOMAIN p[w] :
                  p[u][a].id = p[w][b].id => u = w /\ a = b
<1>19. Partial(pr, Z, ~interrupt')
  <2>1. CASE ~HasCodes(l) /\ pres' = pres /\ interrupt' = interrupt
    <3>1. Y = {}
      <4> SUFFICES ASSUME NEW h \in Y PROVE FALSE
        OBVIOUS
      <4>1. h[1] \in {l} \ {-1} /\ h[2] \in DOMAIN invlists[h[1]]
        BY <1>14, HitsInAre
      <4>2. h[1] = l /\ l \in List
        BY <1>9, <4>1
      <4>3. l >= 0 /\ invlists[l] # <<>>
        BY <1>0, <4>1, <4>2
      <4> QED BY <2>1, <4>3 DEF HasCodes
    <3>2. Z = X /\ pr = pres /\ (~interrupt' => ~interrupt)
      BY <1>14, <1>16, <2>1, <3>1
    <3> QED BY <1>17, <1>18, <3>2
  <2>2. CASE HasCodes(l) /\ pres' = pres /\ interrupt' = TRUE
    BY <1>14, <1>16, <1>17, <1>18, <2>2
  <2>3. CASE HasCodes(l) /\ pres' = [pres EXCEPT ![t] = @ \o scan_codes_range(l)] /\ interrupt' = interrupt
    <3>1. l \in List /\ Y = HitsIn({l})
      <4>1. l >= 0
        BY <2>3 DEF HasCodes
      <4>2. l # -1
        BY <4>1
      <4>3. {l} \ {-1} = {l}
        BY <4>2
      <4> QED BY <1>9, <1>14, <4>2, <4>3
    <3>2. PICK c : c = scan_codes_range(l)
      OBVIOUS
    <3>3. /\ c \in Seq(AnyResult)
          /\ \A a \in DOMAIN c : \E h \in Y : c[a] = Result(HitRow(h))
          /\ \A h \in Y : \E a \in DOMAIN c : c[a] = Result(HitRow(h))
          /\ \A a, b \in DOMAIN c : c[a].id = c[b].id => a = b
      BY <1>4, <3>1, <3>2, ScanIs
    <3>4. PICK q : q = pres[t]
      OBVIOUS
    <3>5. PICK r : r = q \o c
      OBVIOUS
    <3>6. /\ q \in Seq(AnyResult) /\ pr \in [1 .. MaxThread -> Seq(AnyResult)] /\ pr[t] = r
          /\ \A u \in 1 .. MaxThread : u # t => pr[u] = pres[u]
      BY <1>16, <1>17, <2>3, <3>2, <3>3, <3>4, <3>5
    <3>7. /\ Len(q) \in Nat /\ Len(c) \in Nat
          /\ DOMAIN q = 1 .. Len(q) /\ DOMAIN c = 1 .. Len(c) /\ DOMAIN r = 1 .. (Len(q) + Len(c))
          /\ \A a \in DOMAIN q : r[a] = q[a]
          /\ \A a \in DOMAIN c : r[a + Len(q)] = c[a]
      BY <3>3, <3>5, <3>6
    <3>8. \A a \in DOMAIN r : \/ a \in DOMAIN q /\ r[a] = q[a]
                              \/ a - Len(q) \in DOMAIN c /\ r[a] = c[a - Len(q)]
      <4> TAKE a \in DOMAIN r
      <4>1. CASE a <= Len(q)
        BY <3>7, <4>1
      <4>2. CASE a > Len(q)
        <5>1. a - Len(q) \in DOMAIN c /\ (a - Len(q)) + Len(q) = a
          BY <3>7, <4>2
        <5> QED BY <3>7, <5>1
      <4> QED BY <3>7, <4>1, <4>2
    \* What is new has other ids than what was there.
    <3>9. ASSUME NEW u \in 1 .. MaxThread, NEW a \in DOMAIN pres[u], NEW b \in DOMAIN c
          PROVE  pres[u][a].id # c[b].id
      <4>1. PICK h \in X : pres[u][a] = Result(HitRow(h))
        BY <1>18
      <4>2. PICK g \in Y : c[b] = Result(HitRow(g))
        BY <3>3
      <4>3. PICK L : L = S \cup {l}
        OBVIOUS
      <4>4. L \in SUBSET List
        BY <1>11, <3>1, <4>3
      <4>5. h \in HitsIn(L) /\ g \in HitsIn(L)
        BY <1>14, <3>1, <4>3, HitsOfUnion
      <4>6. Result(HitRow(h)).id = HitRow(h).id /\ Result(HitRow(g)).id = HitRow(g).id
        BY <1>4, <4>4, <4>5, HitRows
      <4>7. h[1] \in S /\ g[1] = l
        BY <1>14, <3>1, HitsInAre
      <4>8. h # g
        BY <1>13, <4>7
      <4> QED BY <1>4, <4>1, <4>2, <4>4, <4>5, <4>6, <4>8, HitsHaveIds
    <3> HIDE <1>16, <2>3, <3>2, <3>5
    <3>10. ASSUME NEW u \in 1 .. MaxThread, NEW a \in DOMAIN pr[u]
           PROVE  \E h \in Z : pr[u][a] = Result(HitRow(h))
      <4>1. CASE u # t
        BY <1>14, <1>18, <3>6, <4>1
      <4>2. CASE u = t
        <5>1. CASE a \in DOMAIN q /\ r[a] = q[a]
          BY <1>14, <1>18, <3>4, <3>6, <4>2, <5>1
        <5>2. CASE a - Len(q) \in DOMAIN c /\ r[a] = c[a - Len(q)]
          <6>1. PICK h \in Y : c[a - Len(q)] = Result(HitRow(h))
            BY <3>3, <5>2
          <6>2. h \in Z /\ pr[u] = r
            BY <1>14, <3>6, <4>2
          <6> QED BY <5>2, <6>1, <6>2
        <5> QED BY <3>6, <3>8, <4>2, <5>1, <5>2
      <4> QED BY <4>1, <4>2
    <3>11. ASSUME ~interrupt, NEW h \in Z
           PROVE  \E u \in 1 .. MaxThread : \E a \in DOMAIN pr[u] : pr[u][a] = Result(HitRow(h))
      <4>1. CASE h \in X
        <5>1. PICK u \in 1 .. MaxThread : \E a \in DOMAIN pres[u] : pres[u][a] = Result(HitRow(h))
          BY <1>18, <3>11, <4>1
        <5>2. PICK a \in DOMAIN pres[u] : pres[u][a] = Result(HitRow(h))
          BY <5>1
        <5>3. CASE u # t
          BY <3>6, <5>2, <5>3
        <5>4. CASE u = t
          <6>1. a \in DOMAIN q /\ q[a] = Result(HitRow(h))
            BY <3>4, <5>2, <5>4
          <6>2. a \in DOMAIN r /\ r[a] = Result(HitRow(h))
            BY <3>7, <6>1
          <6> QED BY <3>6, <6>2
        <5> QED BY <5>3, <5>4
      <4>2. CASE h \in Y
        <5>1. PICK a \in DOMAIN c : c[a] = Result(HitRow(h))
          BY <3>3, <4>2
        <5>2. a + Len(q) \in DOMAIN r /\ r[a + Len(q)] = c[a]
          BY <3>7
        <5> QED BY <3>6, <5>1, <5>2
      <4> QED BY <1>14, <4>1, <4>2
    <3>12. ASSUME NEW a \in DOMAIN r
           PROVE  \/ a \in DOMAIN pres[t] /\ r[a] = pres[t][a]
                  \/ a - Len(q) \in DOMAIN c /\ r[a] = c[a - Len(q)]
      BY <3>4, <3>8
    <3>13. ASSUME NEW u \in 1 .. MaxThread, NEW w \in 1 .. MaxThread,
                  NEW a \in DOMAIN pr[u], NEW b \in DOMAIN pr[w], pr[u][a].id = pr[w][b].id
           PROVE  u = w /\ a = b
      <4>1. CASE u # t /\ w # t
        <5>1. pr[u] = pres[u] /\ pr[w] = pres[w]
          BY <3>6, <4>1
        <5> QED BY <1>18, <3>13, <5>1
      <4>2. CASE u = t /\ w # t
        <5>1. pr[u] = r /\ pr[w] = pres[w]
          BY <3>6, <4>2
        <5>2. CASE a \in DOMAIN pres[t] /\ r[a] = pres[t][a]
          BY <1>18, <3>13, <4>2, <5>1, <5>2
        <5>3. CASE a - Len(q) \in DOMAIN c /\ r[a] = c[a - Len(q)]
          BY <3>9, <3>13, <5>1, <5>3
        <5> QED BY <3>12, <5>1, <5>2, <5>3
      <4>3. CASE u # t /\ w = t
        <5>1. pr[u] = pres[u] /\ pr[w] = r
          BY <3>6, <4>3
        <5>2. CASE b \in DOMAIN pres[t] /\ r[b] = pres[t][b]
          BY <1>18, <3>13, <4>3, <5>1, <5>2
        <5>3. CASE b - Len(q) \in DOMAIN c /\ r[b] = c[b - Len(q)]
          BY <3>9, <3>13, <5>1, <5>3
        <5> QED BY <3>12, <5>1, <5>2, <5>3
      <4>4. CASE u = t /\ w = t
        <5>1. a \in DOMAIN r /\ b \in DOMAIN r /\ r[a].id = r[b].id
          BY <3>6, <3>13, <4>4
        <5>2. CASE a \in DOMAIN pres[t] /\ r[a] = pres[t][a] /\ b \in DOMAIN pres[t] /\ r[b] = pres[t][b]
          BY <1>18, <4>4, <5>1, <5>2
        <5>3. CASE a \in DOMAIN pres[t] /\ r[a] = pres[t][a] /\ b - Len(q) \in DOMAIN c /\ r[b] = c[b - Len(q)]
          BY <3>9, <5>1, <5>3
        <5>4. CASE b \in DOMAIN pres[t] /\ r[b] = pres[t][b] /\ a - Len(q) \in DOMAIN c /\ r[a] = c[a - Len(q)]
          BY <3>9, <5>1, <5>4
        <5>5. CASE a - Len(q) \in DOMAIN c /\ r[a] = c[a - Len(q)] /\ b - Len(q) \in DOMAIN c /\ r[b] = c[b - Len(q)]
          <6>1. a - Len(q) = b - Len(q)
            BY <3>3, <5>1, <5>5
          <6> QED BY <3>7, <4>4, <5>1, <6>1
        <5> QED BY <3>12, <5>1, <5>2, <5>3, <5>4, <5>5
      <4> QED BY <4>1, <4>2, <4>3, <4>4
    <3>14. interrupt' = interrupt
      BY <2>3
    <3> QED BY <3>6, <3>10, <3>11, <3>13, <3>14
  <2> QED BY <1>3, <2>1, <2>2, <2>3
<1>20. PartialResults'
  BY <1>15, <1>16, <1>19 DEF PartialResults, Result
<1>21. IvfPqTypeOK'
  <2>1. next' \in 1 .. Len(keys') + 1
    <3>1. n + 1 \in 1 .. k + 1
      BY <1>7
    <3> QED BY <1>2, <1>6, <3>1
  <2>2. interrupt' \in BOOLEAN
    BY <1>3, <1>4 DEF IvfPqTypeOK
  <2>3. pres' \in [1 .. MaxThread -> Seq([dis : Nat, id : Nat])]
    BY <1>16, <1>19 DEF AnyResult
  <2> QED BY <1>2, <1>4, <1>5, <2>1, <2>2, <2>3 DEF IvfPqTypeOK
<1>22. Searching'
  <2>1. ~IvfPqRefused(call)'
    BY <1>2, <1>4 DEF Searching, IvfPqRefused
  <2> QED BY <1>2, <1>4, <2>1 DEF Searching
<1>23. Answers'
  BY <1>2 DEF Answers, AnswerIsExact, FullConfidenceLosesNothing, MatchesBruteForce
<1> QED BY <1>5, <1>20, <1>21, <1>22, <1>23 DEF IvfPqInv
-----------------------------------------------------------------------------
(***************************************************************************)
(* Squares.                                                                *)
(***************************************************************************)

LEMMA ProductSign ==
  ASSUME NEW x \in Int, NEW y \in Int, x >= 0, y >= 0
  PROVE  x * y >= 0 /\ (x > 0 /\ y > 0 => x * y > 0)
OBVIOUS

LEMMA Squares ==
  ASSUME NEW x \in Int, NEW y \in Nat, x <= y, 0 - y <= x
  PROVE  x * x <= y * y
<1>1. (y - x) * (y + x) >= 0
  BY ProductSign
<1>2. (y - x) * (y + x) = y * y - x * x
  OBVIOUS
<1> QED BY <1>1, <1>2

LEMMA SquaresOrdered ==
  ASSUME NEW x \in Nat, NEW y \in Nat
  PROVE  (x * x < y * y <=> x < y) /\ (x * x = y * y <=> x = y)
<1>1. ASSUME x < y PROVE x * x < y * y
  <2>1. y - x > 0 /\ y + x > 0
    BY <1>1
  <2>2. (y - x) * (y + x) > 0
    BY <2>1, ProductSign
  <2>3. (y - x) * (y + x) = y * y - x * x
    OBVIOUS
  <2> QED BY <2>2, <2>3
<1>2. ASSUME y < x PROVE y * y < x * x
  <2>1. x - y > 0 /\ x + y > 0
    BY <1>2
  <2>2. (x - y) * (x + y) > 0
    BY <2>1, ProductSign
  <2>3. (x - y) * (x + y) = x * x - y * y
    OBVIOUS
  <2> QED BY <2>2, <2>3
<1>3. x * x \in Nat /\ y * y \in Nat
  OBVIOUS
<1> QED BY <1>1, <1>2, <1>3
-----------------------------------------------------------------------------
(***************************************************************************)
(* The answer.                                                             *)
(***************************************************************************)

LEMMA Counted ==
  ASSUME NEW n \in Nat, NEW S, NEW f \in [1 .. n -> S],
         \A a, b \in 1 .. n : f[a] = f[b] => a = b,
         \A x \in S : \E a \in 1 .. n : f[a] = x
  PROVE  Cardinality(S) = n
<1> DEFINE D == 1 .. n
<1>1. IsFiniteSet(D) /\ Cardinality(D) = n
  BY FS_Interval
<1>2. f \in Bijection(D, S)
  BY DEF Bijection, Injection, Surjection, IsInjective
<1>3. ExistsBijection(D, S)
  BY <1>2 DEF ExistsBijection
<1> HIDE DEF D
<1> QED BY <1>1, <1>3, FS_Bijection

LEMMA NotLonger ==
  ASSUME NEW n \in Nat, NEW m \in Nat, NEW f \in [1 .. n -> 1 .. m],
         \A a, b \in 1 .. n : f[a] = f[b] => a = b
  PROVE  n <= m
<1> DEFINE P == 1 .. n
           Q == 1 .. m
<1>1. IsFiniteSet(P) /\ Cardinality(P) = n /\ IsFiniteSet(Q) /\ Cardinality(Q) = m
  BY FS_Interval
<1>2. f \in [P -> Q] /\ \A a, b \in P : f[a] = f[b] => a = b
  OBVIOUS
<1> HIDE DEF P, Q
<1>3. f \in Injection(P, Q)
  BY <1>2 DEF Injection, IsInjective
<1> QED BY <1>1, <1>3, FS_Injection

\* The merged results r are the hits, one by one: the a-th is of the hit f[a].
IsAnswer(r, f) ==
  /\ r = Merged /\ r \in Seq(AnyResult)
  /\ f \in [1 .. Len(r) -> Hits]
  /\ \A a, b \in 1 .. Len(r) : r[a].id = r[b].id => a = b
  /\ \A h \in Hits : \E a \in 1 .. Len(r) : f[a] = h
  /\ \A a \in 1 .. Len(r) : r[a] = Result(HitRow(f[a]))

LEMMA ProbedLists ==
  ASSUME IvfPqTypeOK
  PROVE  Probed \in SUBSET List
<1>1. keys \in Seq(List \cup {-1})
  BY DEF IvfPqTypeOK
<1>2. \A a \in DOMAIN keys : keys[a] \in List \cup {-1}
  BY <1>1
<1> QED BY <1>2 DEF Probed

LEMMA AnswerExists ==
  ASSUME IvfPqInv, pc = "scanning", next > Len(keys), ~interrupt
  PROVE  \E r, f : IsAnswer(r, f)
<1>1. IvfPqTypeOK /\ RowsNumbered /\ ListsHoldRows /\ PartialResults
  BY DEF IvfPqInv
<1>2. Scanned = Probed
  <2>1. PICK n, k : n = next /\ k = Len(keys)
    OBVIOUS
  <2>2. k \in Nat /\ DOMAIN keys = 1 .. k /\ n \in 1 .. k + 1 /\ n > k
    <3>1. keys \in Seq(List \cup {-1}) /\ next \in 1 .. Len(keys) + 1
      BY <1>1 DEF IvfPqTypeOK
    <3> QED BY <2>1, <3>1
  <2>3. 1 .. (n - 1) = 1 .. k
    BY <2>2
  <2>4. 1 .. (next - 1) = DOMAIN keys
    BY <2>1, <2>2, <2>3
  <2> QED BY <2>4 DEF Scanned, Probed
<1>3. HitsIn(Scanned) = Hits
  BY <1>2 DEF Hits
<1>4. /\ \A t \in 1 .. MaxThread : \A a \in DOMAIN pres[t] : \E h \in Hits : pres[t][a] = Result(HitRow(h))
      /\ \A h \in Hits :
            \E t \in 1 .. MaxThread : \E a \in DOMAIN pres[t] : pres[t][a] = Result(HitRow(h))
      /\ \A t, u \in 1 .. MaxThread : \A a \in DOMAIN pres[t], b \in DOMAIN pres[u] :
            pres[t][a].id = pres[u][b].id => t = u /\ a = b
  BY <1>1, <1>3 DEF PartialResults
<1>5. pres \in [1 .. MaxThread -> Seq(AnyResult)]
  BY <1>1 DEF IvfPqTypeOK, AnyResult
<1>6. PICK r : r = Merged
  OBVIOUS
<1>7. /\ r \in Seq(AnyResult)
      /\ \A a \in DOMAIN r : \E t \in 1 .. MaxThread : \E b \in DOMAIN pres[t] : r[a] = pres[t][b]
      /\ \A t \in 1 .. MaxThread : \A b \in DOMAIN pres[t] : \E a \in DOMAIN r : r[a] = pres[t][b]
      /\ \A a, b \in DOMAIN r : r[a].id = r[b].id => a = b
  BY <1>4, <1>5, <1>6, MergedIs
<1>8. DOMAIN r = 1 .. Len(r)
  BY <1>7
<1>9. \A a \in 1 .. Len(r) : \E h \in Hits : r[a] = Result(HitRow(h))
  BY <1>4, <1>7, <1>8
<1>10. PICK n : n = Len(r)
  OBVIOUS
<1> DEFINE f == [a \in 1 .. n |-> CHOOSE h \in Hits : r[a] = Result(HitRow(h))]
<1>11. f \in [1 .. n -> Hits] /\ \A a \in 1 .. n : r[a] = Result(HitRow(f[a]))
  BY <1>9, <1>10
<1> HIDE DEF f
<1>12. ASSUME NEW h \in Hits PROVE \E a \in 1 .. n : f[a] = h
  <2>1. PICK t \in 1 .. MaxThread : \E b \in DOMAIN pres[t] : pres[t][b] = Result(HitRow(h))
    BY <1>4
  <2>2. PICK b \in DOMAIN pres[t] : pres[t][b] = Result(HitRow(h))
    BY <2>1
  <2>3. PICK a \in 1 .. n : r[a] = Result(HitRow(h))
    BY <1>7, <1>8, <1>10, <2>2
  <2>4. PICK g : g = f[a]
    OBVIOUS
  <2>5. g \in Hits /\ Result(HitRow(g)) = Result(HitRow(h))
    BY <1>11, <2>3, <2>4
  <2>6. Probed \in SUBSET List /\ g \in HitsIn(Probed) /\ h \in HitsIn(Probed)
    BY <1>1, <2>5, ProbedLists DEF Hits
  <2>7. HitRow(g).id = HitRow(h).id
    BY <1>1, <2>5, <2>6, HitRows
  <2>8. g = h
    BY <1>1, <2>6, <2>7, HitsHaveIds
  <2> QED BY <2>4, <2>8
<1>13. \A a, b \in 1 .. n : r[a].id = r[b].id => a = b
  BY <1>7, <1>8, <1>10
<1>14. IsAnswer(r, f)
  BY <1>6, <1>7, <1>10, <1>11, <1>12, <1>13 DEF IsAnswer
<1> QED BY <1>14

\* distance_less is an order of the results as queues need it, has no ties, and goes
\* by the distances.
LEMMA DistanceLess ==
  ASSUME NEW r \in Seq(AnyResult), \A a, b \in 1 .. Len(r) : r[a].id = r[b].id => a = b
  PROVE  /\ WeakOrder(distance_less(r), Len(r))
         /\ \A a, b \in 1 .. Len(r) :
              /\ <<a, b>> \in distance_less(r) <=>
                   r[a].dis < r[b].dis \/ (r[a].dis = r[b].dis /\ r[a].id < r[b].id)
              /\ a # b => <<a, b>> \in distance_less(r) \/ <<b, a>> \in distance_less(r)
         /\ ByDistance(distance_less(r), Len(r), [a \in 1 .. Len(r) |-> r[a].dis])
<1>1. PICK n, less : n = Len(r) /\ less = distance_less(r)
  OBVIOUS
<1>2. n \in Nat /\ DOMAIN r = 1 .. n /\ \A a \in 1 .. n : r[a] \in AnyResult
  BY <1>1
<1>3. \A a \in 1 .. n : r[a].dis \in Nat /\ r[a].id \in Nat
  BY <1>2 DEF AnyResult
<1>4. ASSUME NEW a \in 1 .. n, NEW b \in 1 .. n
      PROVE  <<a, b>> \in less <=>
                   r[a].dis < r[b].dis \/ (r[a].dis = r[b].dis /\ r[a].id < r[b].id)
  <2>1. PICK p : p = <<a, b>>
    OBVIOUS
  <2>2. p[1] = a /\ p[2] = b /\ p \in (DOMAIN r) \X (DOMAIN r)
    BY <1>2, <2>1
  <2>3. p \in less <=>
            \/ r[p[1]].dis < r[p[2]].dis
            \/ r[p[1]].dis = r[p[2]].dis /\ r[p[1]].id < r[p[2]].id
    BY <1>1, <2>2 DEF distance_less
  <2> QED BY <2>1, <2>2, <2>3
<1> HIDE <1>1
<1>5. \A a, b \in 1 .. n : r[a].id = r[b].id => a = b
  BY <1>1
<1>6. WeakOrder(less, n)
  <2>1. ASSUME NEW a \in 1 .. n, NEW b \in 1 .. n, <<a, b>> \in less PROVE <<b, a>> \notin less
    <3>1. PICK x, y, k, l : x = r[a].dis /\ y = r[b].dis /\ k = r[a].id /\ l = r[b].id
      OBVIOUS
    <3>2. x \in Nat /\ y \in Nat /\ k \in Nat /\ l \in Nat
      BY <1>3, <3>1
    <3>3. x < y \/ (x = y /\ k < l)
      BY <1>4, <2>1, <3>1
    <3>4. ~(y < x \/ (y = x /\ l < k))
      BY <3>2, <3>3
    <3> QED BY <1>4, <3>1, <3>4
  <2>2. ASSUME NEW a \in 1 .. n, NEW b \in 1 .. n, NEW c \in 1 .. n,
               <<a, b>> \notin less, <<b, c>> \notin less
        PROVE  <<a, c>> \notin less
    <3>1. PICK x, y, z, k, l, m : /\ x = r[a].dis /\ y = r[b].dis /\ z = r[c].dis
                                  /\ k = r[a].id /\ l = r[b].id /\ m = r[c].id
      OBVIOUS
    <3>2. x \in Nat /\ y \in Nat /\ z \in Nat /\ k \in Nat /\ l \in Nat /\ m \in Nat
      BY <1>3, <3>1
    <3>3. ~(x < y \/ (x = y /\ k < l)) /\ ~(y < z \/ (y = z /\ l < m))
      BY <1>4, <2>2, <3>1
    <3>4. ~(x < z \/ (x = z /\ k < m))
      BY <3>2, <3>3
    <3> QED BY <1>4, <3>1, <3>4
  <2> QED BY <2>1, <2>2 DEF WeakOrder
<1>7. ASSUME NEW a \in 1 .. n, NEW b \in 1 .. n, a # b PROVE <<a, b>> \in less \/ <<b, a>> \in less
  <2>1. PICK x, y, k, l : x = r[a].dis /\ y = r[b].dis /\ k = r[a].id /\ l = r[b].id
    OBVIOUS
  <2>2. x \in Nat /\ y \in Nat /\ k \in Nat /\ l \in Nat /\ k # l
    BY <1>3, <1>5, <1>7, <2>1
  <2>3. (x < y \/ (x = y /\ k < l)) \/ (y < x \/ (y = x /\ l < k))
    BY <2>2
  <2> QED BY <1>4, <2>1, <2>3
<1>8. ByDistance(less, n, [a \in 1 .. n |-> r[a].dis])
  <2> DEFINE d == [a \in 1 .. n |-> r[a].dis]
  <2>1. \A a \in 1 .. n : d[a] = r[a].dis
    OBVIOUS
  <2> HIDE DEF d
  <2>2. ASSUME NEW a \in 1 .. n, NEW b \in 1 .. n
        PROVE  (d[a] < d[b] => <<a, b>> \in less) /\ (<<a, b>> \in less => d[a] <= d[b])
    BY <1>3, <1>4, <2>1
  <2>3. ByDistance(less, n, d)
    BY <2>2 DEF ByDistance
  <2> QED BY <2>3 DEF d
<1> QED BY <1>1, <1>4, <1>6, <1>7, <1>8

\* num_preserve_results, of n results.
NumPreserve(n) == IF call.limit < 0 \/ n < call.limit THEN n ELSE call.limit

\* A search has results r, of the hits f, and returns those that s tells.
IsReturn(r, f, s, ids, dists) ==
  /\ IsAnswer(r, f)
  /\ NumPreserve(Len(r)) \in 0 .. Len(r)
  /\ s \in [1 .. NumPreserve(Len(r)) -> 1 .. Len(r)]
  /\ IsNearest(s, Len(r), NumPreserve(Len(r)), distance_less(r))
  /\ ids = [p \in 1 .. NumPreserve(Len(r)) |-> r[s[p]].id]
  /\ dists = [p \in 1 .. NumPreserve(Len(r)) |-> Reported(r[s[p]].dis)]

IsReturned(ids, dists) == \E r, f, s : IsReturn(r, f, s, ids, dists)

LEMMA LeastOf ==
  ASSUME NEW n \in Nat, NEW k \in 0 .. n
  PROVE  Least(n, k) = k
BY DEF Least

LEMMA FinishReturns ==
  ASSUME IvfPqInv, FinishSearch, ~interrupt
  PROVE  pc' = "returned" /\ IsReturned(result_ids', result_distances')
<1>1. pc = "scanning" /\ next > Len(keys) /\ pc' = "returned"
  BY DEF FinishSearch
<1>2. PICK r, f : IsAnswer(r, f)
  BY <1>1, AnswerExists
<1>3. PICK n, k, less : n = Len(r) /\ k = NumPreserve(n) /\ less = distance_less(r)
  OBVIOUS
<1>4. r = Merged /\ r \in Seq(AnyResult) /\ \A a, b \in 1 .. n : r[a].id = r[b].id => a = b
  BY <1>2, <1>3 DEF IsAnswer
<1>5. n \in Nat
  BY <1>3, <1>4
<1>6. k \in 0 .. n
  <2>1. call \in Calls
    BY <1>1 DEF IvfPqInv, Searching
  <2>2. call.limit \in Int
    BY <2>1, IvfPqAssumption
  <2> QED BY <1>3, <1>5, <2>2 DEF NumPreserve
<1>7. WeakOrder(less, n)
  BY <1>3, <1>4, DistanceLess
<1>8. PICK s : s = Sorted(Heap(n, k, less), less)
  OBVIOUS
<1>9. IsNearest(s, n, k, less)
  BY <1>5, <1>6, <1>7, <1>8, NearestSorted
<1>10. s \in [1 .. k -> 1 .. n]
  BY <1>5, <1>6, <1>9, LeastOf DEF IsNearest
<1>11. /\ result_ids' = [p \in DOMAIN s |-> r[s[p]].id]
       /\ result_distances' = [p \in DOMAIN s |-> Reported(r[s[p]].dis)]
  BY <1>3, <1>4, <1>8 DEF FinishSearch, NumPreserve
<1>12. DOMAIN s = 1 .. k
  BY <1>10
<1>13. PICK x, y : x = result_ids' /\ y = result_distances'
  OBVIOUS
<1>14. IsReturn(r, f, s, x, y)
  BY <1>2, <1>3, <1>6, <1>9, <1>10, <1>11, <1>12, <1>13 DEF IsReturn
<1> QED BY <1>1, <1>13, <1>14 DEF IsReturned

\* One result is before another as their hits are.
LEMMA HitsByDistance ==
  ASSUME IvfPqInv, NEW r, NEW f, IsAnswer(r, f), NEW a \in 1 .. Len(r), NEW b \in 1 .. Len(r)
  PROVE  <<a, b>> \in distance_less(r) <=> HitBefore(f[a], f[b])
<1>1. IvfPqTypeOK
  BY DEF IvfPqInv
<1>2. PICK g, h : g = f[a] /\ h = f[b]
  OBVIOUS
<1>3. g \in HitsIn(Probed) /\ h \in HitsIn(Probed) /\ Probed \in SUBSET List
  BY <1>1, <1>2, ProbedLists DEF IsAnswer, Hits
<1>4. r[a] = Result(HitRow(g)) /\ r[b] = Result(HitRow(h))
  BY <1>2 DEF IsAnswer
<1>5. PICK x, y, v, w : x = HitRow(g) /\ y = HitRow(h) /\ v = x.vector.root /\ w = y.vector.root
  OBVIOUS
<1>6. /\ x \in Row /\ r[a].id = x.id /\ r[a].dis = v * v
      /\ y \in Row /\ r[b].id = y.id /\ r[b].dis = w * w
  BY <1>1, <1>3, <1>4, <1>5, HitRows
<1>7. v \in Nat /\ w \in Nat
  <2>1. x.vector \in Vector /\ y.vector \in Vector
    BY <1>6 DEF Row
  <2> QED BY <1>5, <2>1, IvfPqAssumption
<1>8. (v * v < w * w <=> v < w) /\ (v * v = w * w <=> v = w)
  BY <1>7, SquaresOrdered
<1>9. HitBefore(g, h) <=> (v < w \/ (v = w /\ x.id < y.id))
  BY <1>5 DEF HitBefore
<1>10. <<a, b>> \in distance_less(r) <=>
         r[a].dis < r[b].dis \/ (r[a].dis = r[b].dis /\ r[a].id < r[b].id)
  BY DistanceLess DEF IsAnswer
<1> QED BY <1>2, <1>6, <1>8, <1>9, <1>10

\* AnswerIsExact, of the answer ids and dists.
Exact(ids, dists) ==
  /\ Len(ids) = IF call.limit < 0 \/ Cardinality(Hits) < call.limit THEN Cardinality(Hits) ELSE call.limit
  /\ \A p \in DOMAIN ids : \E h \in Hits :
       /\ ids[p] = HitRow(h).id
       /\ dists[p] = Reported(Result(HitRow(h)).dis)
       /\ Cardinality({g \in Hits : HitBefore(g, h)}) = p - 1

LEMMA ReturnedExact ==
  ASSUME IvfPqInv, NEW x, NEW y, IsReturned(x, y)
  PROVE  Exact(x, y)
<1>1. PICK r, f, s : IsReturn(r, f, s, x, y)
  BY DEF IsReturned
<1>2. PICK n, k, less : n = Len(r) /\ k = NumPreserve(n) /\ less = distance_less(r)
  OBVIOUS
<1>3. /\ IsAnswer(r, f) /\ k \in 0 .. n
      /\ s \in [1 .. k -> 1 .. n] /\ IsNearest(s, n, k, less)
      /\ x = [p \in 1 .. k |-> r[s[p]].id]
      /\ y = [p \in 1 .. k |-> Reported(r[s[p]].dis)]
  BY <1>1, <1>2 DEF IsReturn
<1>4. /\ r \in Seq(AnyResult) /\ f \in [1 .. n -> Hits]
      /\ \A a, b \in 1 .. n : r[a].id = r[b].id => a = b
      /\ \A h \in Hits : \E a \in 1 .. n : f[a] = h
      /\ \A a \in 1 .. n : r[a] = Result(HitRow(f[a]))
  BY <1>2, <1>3 DEF IsAnswer
<1>5. n \in Nat /\ k \in Nat /\ k <= n
  BY <1>2, <1>3, <1>4
<1>6. \A a, b \in 1 .. n : f[a] = f[b] => a = b
  BY <1>4
<1>7. Cardinality(Hits) = n
  BY <1>4, <1>5, <1>6, Counted
<1>8. Len(x) = k /\ DOMAIN x = 1 .. k
  BY <1>3, <1>5
<1>9. Len(x) = IF call.limit < 0 \/ Cardinality(Hits) < call.limit THEN Cardinality(Hits) ELSE call.limit
  BY <1>2, <1>7, <1>8 DEF NumPreserve
<1>10. /\ \A a, b \in 1 .. k : a < b => s[a] # s[b]
       /\ \A p \in 1 .. k, b \in 1 .. n : <<b, s[p]>> \in less => \E q \in 1 .. (p - 1) : b = s[q]
       /\ \A p \in 1 .. k : \A q \in 1 .. p : <<s[p], s[q]>> \notin less
  BY <1>3, <1>5, LeastOf DEF IsNearest
<1>11. \A a, b \in 1 .. n : a # b => <<a, b>> \in less \/ <<b, a>> \in less
  BY <1>2, <1>4, DistanceLess
<1>12. \A a, b \in 1 .. n : <<a, b>> \in less <=> HitBefore(f[a], f[b])
  BY <1>2, <1>3, HitsByDistance
<1>13. ASSUME NEW p \in 1 .. k
       PROVE  \E h \in Hits :
                /\ x[p] = HitRow(h).id
                /\ y[p] = Reported(Result(HitRow(h)).dis)
                /\ Cardinality({g \in Hits : HitBefore(g, h)}) = p - 1
  <2>1. PICK h : h = f[s[p]]
    OBVIOUS
  <2>2. s[p] \in 1 .. n
    BY <1>3
  <2>3. h \in Hits /\ r[s[p]] = Result(HitRow(h))
    BY <1>4, <2>1, <2>2
  <2>4. x[p] = HitRow(h).id
    BY <1>3, <2>3 DEF Result
  <2>5. y[p] = Reported(Result(HitRow(h)).dis)
    <3>1. y[p] = Reported(r[s[p]].dis)
      BY <1>3
    <3> QED BY <2>3, <3>1
  <2> DEFINE B == {g \in Hits : HitBefore(g, h)}
             e == [q \in 1 .. (p - 1) |-> f[s[q]]]
  <2>6. \A q \in 1 .. (p - 1) : q \in 1 .. k /\ s[q] \in 1 .. n /\ q < p /\ q \in 1 .. p
    BY <1>3, <1>5
  <2>7. e \in [1 .. (p - 1) -> B]
    <3>1. ASSUME NEW q \in 1 .. (p - 1) PROVE f[s[q]] \in B
      <4>1. s[q] # s[p] /\ <<s[p], s[q]>> \notin less
        BY <1>10, <2>6
      <4>2. <<s[q], s[p]>> \in less
        BY <1>11, <2>2, <2>6, <4>1
      <4>3. HitBefore(f[s[q]], f[s[p]])
        BY <1>12, <2>2, <2>6, <4>2
      <4>4. f[s[q]] \in Hits
        BY <1>4, <2>6
      <4> QED BY <2>1, <4>3, <4>4
    <3> QED BY <3>1
  <2>8. ASSUME NEW a \in 1 .. (p - 1), NEW b \in 1 .. (p - 1), e[a] = e[b] PROVE a = b
    <3>1. s[a] = s[b]
      BY <1>6, <2>6, <2>8
    <3>2. a \in 1 .. k /\ b \in 1 .. k /\ ~(a < b) /\ ~(b < a)
      BY <1>10, <2>6, <3>1
    <3> QED BY <3>2
  <2>9. ASSUME NEW g \in B PROVE \E q \in 1 .. (p - 1) : e[q] = g
    <3>1. PICK b \in 1 .. n : f[b] = g
      BY <1>4
    <3>2. <<b, s[p]>> \in less
      BY <1>12, <2>1, <2>2, <3>1
    <3>3. PICK q \in 1 .. (p - 1) : b = s[q]
      BY <1>10, <3>2
    <3> QED BY <3>1, <3>3
  <2>10. Cardinality(B) = p - 1
    <3> HIDE DEF B, e
    <3>1. PICK m : m = p - 1
      OBVIOUS
    <3>2. m \in Nat
      BY <3>1
    <3> QED BY <2>7, <2>8, <2>9, <3>1, <3>2, Counted
  <2> QED BY <2>3, <2>4, <2>5, <2>10
<1> QED BY <1>8, <1>9, <1>13 DEF Exact

\* FullConfidenceLosesNothing, of the answer ids.
LosesNothing(ids) ==
  (call.confidence = 2 /\ call.limit < 0) =>
    \A l \in Probed : \A j \in DOMAIN invlists[l] :
      (~skip_entry(invlists[l][j]) /\ invlists[l][j].vector.true * invlists[l][j].vector.true <= Radius)
        => \E p \in DOMAIN ids : ids[p] = invlists[l][j].id

\* What an entry is accepted for when a search has confidence, with its vector.
LEMMA AcceptsWith ==
  ASSUME IvfPqInv, NEW l \in List, NEW j \in DOMAIN invlists[l], call.confidence \in 1 .. 2
  PROVE  LET v == invlists[l][j].vector
             b == 2 * v.root - v.err * call.confidence
         IN  /\ v \in Vector
             /\ Accepts(l, j) <=> b * b <= 4 * Radius
<1>1. invlists[l] \in Seq(Row) /\ ErrorsAligned
  BY DEF IvfPqInv, IvfPqTypeOK
<1>2. PICK v : v = invlists[l][j].vector
  OBVIOUS
<1>3. v \in Vector
  <2>1. invlists[l][j] \in Row
    BY <1>1
  <2> QED BY <1>2, <2>1 DEF Row
<1>4. reconstruction_errors[l][j] = v.err
  BY <1>1, <1>2 DEF ErrorsAligned
<1>5. 0 < call.confidence /\ call.confidence <= 2
  OBVIOUS
<1>6. Accepts(l, j) <=>
        (2 * v.root - v.err * call.confidence) * (2 * v.root - v.err * call.confidence) <= 4 * Radius
  BY <1>2, <1>4, <1>5 DEF Accepts
<1> QED BY <1>2, <1>3, <1>6

LEMMA ReturnedLosesNothing ==
  ASSUME IvfPqInv, NEW x, NEW y, IsReturned(x, y), call \in Calls
  PROVE  LosesNothing(x)
<1> SUFFICES ASSUME call.confidence = 2, call.limit < 0, NEW l \in Probed, NEW j \in DOMAIN invlists[l],
                    ~skip_entry(invlists[l][j]),
                    invlists[l][j].vector.true * invlists[l][j].vector.true <= Radius
             PROVE  \E p \in DOMAIN x : x[p] = invlists[l][j].id
  BY DEF LosesNothing
<1>1. IvfPqTypeOK /\ l \in List
  BY ProbedLists DEF IvfPqInv
<1>2. PICK v, R : v = invlists[l][j].vector /\ R = Radius
  OBVIOUS
<1>3. /\ v \in Vector
      /\ (2 * v.root - v.err * 2) * (2 * v.root - v.err * 2) <= 4 * R => Accepts(l, j)
  <2>1. 2 \in 1 .. 2
    OBVIOUS
  <2> QED BY <1>1, <1>2, <2>1, AcceptsWith
<1>4. Accepts(l, j)
  <2>1. PICK a, b, t : a = v.root /\ b = v.err /\ t = v.true
    OBVIOUS
  <2>2. a \in Nat /\ b \in Nat /\ t \in Nat /\ a - b <= t /\ b - a <= t
    BY <1>3, <2>1, IvfPqAssumption
  <2>3. (a - b) * (a - b) <= t * t
    <3>1. PICK z : z = a - b
      OBVIOUS
    <3>2. z \in Int /\ z <= t /\ 0 - t <= z
      BY <2>2, <3>1
    <3> QED BY <2>2, <3>1, <3>2, Squares
  <2>4. R \in Int
    <3>1. call.range \in Int
      BY IvfPqAssumption
    <3> QED BY <1>2, <3>1 DEF Radius, CosineSimilarityThresholdToL2Distance
  <2>5. t * t <= R
    BY <1>2, <2>1
  <2>6. (2 * a - b * 2) * (2 * a - b * 2) = 4 * ((a - b) * (a - b))
    BY <2>2
  <2>7. (a - b) * (a - b) \in Int /\ t * t \in Int
    BY <2>2
  <2>8. (2 * a - b * 2) * (2 * a - b * 2) <= 4 * R
    BY <2>3, <2>4, <2>5, <2>6, <2>7
  <2> QED BY <1>3, <2>1, <2>8
<1>5. PICK h : h = <<l, j>>
  OBVIOUS
<1>6. h \in Hits /\ HitRow(h) = invlists[l][j]
  <2>1. h \in HitsIn(Probed)
    BY <1>4, <1>5, HitsInAre DEF Reports
  <2>2. h[1] = l /\ h[2] = j
    BY <1>5
  <2> QED BY <2>1, <2>2 DEF Hits, HitRow
<1>7. PICK r, f, s : IsReturn(r, f, s, x, y)
  BY DEF IsReturned
<1>8. PICK n : n = Len(r)
  OBVIOUS
<1>9. NumPreserve(n) = n
  BY DEF NumPreserve
<1>10. /\ IsAnswer(r, f) /\ n \in 0 .. n
       /\ s \in [1 .. n -> 1 .. n] /\ IsNearest(s, n, n, distance_less(r))
       /\ x = [p \in 1 .. n |-> r[s[p]].id]
  BY <1>7, <1>8, <1>9 DEF IsReturn
<1>11. n \in Nat
  BY <1>8, <1>10 DEF IsAnswer
<1>12. PICK a \in 1 .. n : r[a] = Result(HitRow(h))
  BY <1>6, <1>8, <1>10 DEF IsAnswer
<1>13. PICK p \in 1 .. n : s[p] = a
  <2>1. \A b, c \in 1 .. n : b < c => s[b] # s[c]
    BY <1>10, <1>11, LeastOf DEF IsNearest
  <2> DEFINE W == 1 .. n
  <2>2. IsFiniteSet(W) /\ Cardinality(W) = n
    BY <1>11, FS_Interval
  <2>3. s \in [1 .. n -> W] /\ a \in W
    BY <1>10
  <2> HIDE DEF W
  <2>4. {s[b] : b \in 1 .. n} = W
    <3>1. s \in [1 .. Cardinality(W) -> W] /\ \A b, c \in 1 .. Cardinality(W) : b < c => s[b] # s[c]
      BY <2>1, <2>2, <2>3
    <3> QED BY <2>2, <3>1, ListsAll
  <2> QED BY <2>3, <2>4
<1>14. p \in DOMAIN x /\ x[p] = invlists[l][j].id
  BY <1>6, <1>10, <1>12, <1>13 DEF Result
<1> QED BY <1>14

\* What MatchesBruteForce asks of the rows and the call.
ExactCodes ==
  /\ call.confidence \in 1 .. 2 /\ call.filter = NoFilter /\ call.limit # 0
  /\ Probed = List /\ \A a \in DOMAIN rows : rows[a].vector.key >= 0 /\ rows[a].vector.err = 0

\* The two kinds of calls: what they report, and which distances are in the range.
LEMMA CallKinds ==
  ASSUME call \in Calls, ~IvfPqRefused(call)
  PROVE  /\ Radius \in Int
         /\ \/ /\ call.order = "asc" /\ \A d \in Int : Reported(d) = d
               /\ \A d \in Int : IsQualified(Reported(d)) <=> d <= Radius
            \/ /\ call.order = "desc" /\ \A d \in Int : Reported(d) = 2 - d
               /\ \A d \in Int : IsQualified(Reported(d)) <=> d <= Radius
<1>1. call.range \in Int
  BY IvfPqAssumption
<1>2. CASE call.metric = "l2"
  <2>1. call.order = "asc"
    BY <1>2 DEF IvfPqRefused
  <2>2. Radius = call.range /\ \A d \in Int : Reported(d) = d
    BY <1>2 DEF Radius, Reported
  <2> QED BY <1>1, <2>1, <2>2 DEF IsQualified
<1>3. CASE call.metric = "cosine"
  <2>1. call.order = "desc"
    BY <1>3 DEF IvfPqRefused
  <2>2. Radius = 2 - call.range /\ \A d \in Int : Reported(d) = 2 - d
    BY <1>3 DEF Radius, Reported, CosineSimilarityThresholdToL2Distance, L2DistanceToCosineSimilarity
  <2>3. \A d \in Int : 2 - d >= call.range <=> d <= 2 - call.range
    BY <1>1
  <2>4. \A d \in Int : IsQualified(Reported(d)) <=> 2 - d >= call.range
    BY <2>1, <2>2 DEF IsQualified
  <2> QED BY <1>1, <2>1, <2>2, <2>3, <2>4
<1> QED BY <1>2, <1>3 DEF IvfPqRefused

\* With exact codes a distance is what the index says.
LEMMA ExactRoot ==
  ASSUME NEW v \in Vector, v.err = 0
  PROVE  v.root \in Nat /\ v.true = v.root
<1>1. /\ v.root \in Nat /\ v.true \in Nat
      /\ v.root - v.err <= v.true /\ v.true <= v.root + v.err
  BY IvfPqAssumption
<1> QED BY <1>1

LEMMA ExactHits ==
  ASSUME IvfPqInv, call \in Calls, ~IvfPqRefused(call), ExactCodes
  PROVE  /\ \A h \in Hits : \E a \in DOMAIN rows :
              rows[a] = HitRow(h) /\ rows[a].vector.root * rows[a].vector.root <= Radius
         /\ \A a \in DOMAIN rows : rows[a].vector.root * rows[a].vector.root <= Radius =>
              \E h \in Hits : rows[a] = HitRow(h)
<1>1. IvfPqTypeOK /\ ListsHoldRows
  BY DEF IvfPqInv
<1>2. PICK R : R = Radius
  OBVIOUS
<1>3. R \in Int
  BY <1>2, CallKinds
<1>4. ASSUME NEW a \in DOMAIN rows, NEW l \in List, NEW j \in DOMAIN invlists[l], invlists[l][j] = rows[a]
      PROVE  Reports(l, j) <=> rows[a].vector.root * rows[a].vector.root <= R
  <2>1. PICK v, c : v = rows[a].vector /\ c = call.confidence
    OBVIOUS
  <2>2. v.err = 0
    BY <2>1 DEF ExactCodes
  <2>3. v \in Vector /\ (Accepts(l, j) <=> (2 * v.root - v.err * c) * (2 * v.root - v.err * c) <= 4 * R)
    BY <1>2, <1>4, <2>1, AcceptsWith DEF ExactCodes
  <2>4. v.root \in Nat
    BY <2>2, <2>3, ExactRoot
  <2>5. PICK x : x = v.root
    OBVIOUS
  <2>6. c \in Int
    BY <2>1 DEF ExactCodes
  <2>7. (2 * x - 0 * c) * (2 * x - 0 * c) = 4 * (x * x) /\ x * x \in Int
    BY <2>4, <2>5, <2>6
  <2>8. 4 * (x * x) <= 4 * R <=> x * x <= R
    BY <1>3, <2>7
  <2>9. Accepts(l, j) <=> x * x <= R
    BY <2>2, <2>3, <2>5, <2>7, <2>8
  <2>10. ~skip_entry(invlists[l][j])
    BY DEF skip_entry, ExactCodes
  <2> QED BY <2>1, <2>5, <2>9, <2>10 DEF Reports
<1>5. ASSUME NEW h \in Hits
      PROVE  \E a \in DOMAIN rows :
               rows[a] = HitRow(h) /\ rows[a].vector.root * rows[a].vector.root <= R
  <2>1. PICK l, j : l = h[1] /\ j = h[2]
    OBVIOUS
  <2>2. l \in Probed /\ j \in DOMAIN invlists[l] /\ Reports(l, j)
    BY <2>1, HitsInAre DEF Hits
  <2>3. l \in List
    BY <1>1, <2>2, ProbedLists
  <2>4. PICK a \in DOMAIN rows : rows[a] = invlists[l][j]
    BY <1>1, <2>2, <2>3 DEF ListsHoldRows
  <2>5. rows[a].vector.root * rows[a].vector.root <= R
    BY <1>4, <2>2, <2>3, <2>4
  <2> QED BY <2>1, <2>4, <2>5 DEF HitRow
<1>6. ASSUME NEW a \in DOMAIN rows, rows[a].vector.root * rows[a].vector.root <= R
      PROVE  \E h \in Hits : rows[a] = HitRow(h)
  <2>1. PICK l : l = rows[a].vector.key
    OBVIOUS
  <2>2. rows[a] \in Row
    <3>1. rows \in Seq(Row)
      BY <1>1 DEF IvfPqTypeOK
    <3> QED BY <3>1
  <2>3. l >= 0 /\ l \in List \cup {-1}
    <3>1. rows[a].vector \in Vector
      BY <2>2 DEF Row
    <3> QED BY <2>1, <3>1, IvfPqAssumption DEF ExactCodes
  <2>4. l \in List /\ l \in Probed
    BY <2>3 DEF ExactCodes
  <2>5. PICK j \in DOMAIN invlists[l] : invlists[l][j] = rows[a]
    BY <1>1, <2>1, <2>3 DEF ListsHoldRows
  <2>6. Reports(l, j)
    BY <1>4, <1>6, <2>4, <2>5
  <2>7. PICK h : h = <<l, j>>
    OBVIOUS
  <2>8. h \in Hits
    BY <2>4, <2>6, <2>7, HitsInAre DEF Hits
  <2>9. HitRow(h) = invlists[l][j]
    <3>1. h[1] = l /\ h[2] = j
      BY <2>7
    <3> QED BY <3>1 DEF HitRow
  <2> QED BY <2>5, <2>8, <2>9
<1> QED BY <1>2, <1>5, <1>6

\* The qualified rows q of brute force, their squared distances e, and which it reports.
IsBrute(q, e, u, k, less) ==
  /\ q \in Seq(DOMAIN rows)
  /\ \A b \in 1 .. Len(q) : rows[q[b]].vector.root * rows[q[b]].vector.root <= Radius
  /\ \A a \in DOMAIN rows : rows[a].vector.root * rows[a].vector.root <= Radius =>
       \E b \in 1 .. Len(q) : q[b] = a
  /\ \A a, b \in 1 .. Len(q) : q[a] = q[b] => a = b
  /\ e \in [1 .. Len(q) -> Int]
  /\ \A b \in 1 .. Len(q) : e[b] = rows[q[b]].vector.root * rows[q[b]].vector.root
  /\ k \in Nat /\ k = IF call.limit > 0 THEN call.limit ELSE Len(q)
  /\ IsNearest(u, Len(q), k, less) /\ ByDistance(less, Len(q), e)
  /\ u \in [1 .. Least(Len(q), k) -> 1 .. Len(q)]
  /\ BruteForceRangeSearch = [p \in 1 .. Least(Len(q), k) |-> Reported(e[u[p]])]

LEMMA BruteExists ==
  ASSUME IvfPqInv, call \in Calls, ~IvfPqRefused(call), ExactCodes
  PROVE  \E q, e, u, k, less : IsBrute(q, e, u, k, less)
<1>1. PICK n, R : n = Len(rows) /\ R = Radius
  OBVIOUS
<1>2. rows \in Seq(Row)
  BY DEF IvfPqInv, IvfPqTypeOK
<1>3. n \in Nat /\ DOMAIN rows = 1 .. n /\ \A a \in 1 .. n : rows[a] \in Row
  BY <1>1, <1>2
<1>4. ASSUME NEW a \in 1 .. n
      PROVE  /\ rows[a].vector.true = rows[a].vector.root
             /\ rows[a].vector.root * rows[a].vector.root \in Int
  <2>1. rows[a].vector \in Vector /\ rows[a].vector.err = 0
    BY <1>3 DEF Row, ExactCodes
  <2>2. PICK v : v = rows[a].vector
    OBVIOUS
  <2>3. v.root \in Nat /\ v.true = v.root
    BY <2>1, <2>2, ExactRoot
  <2>4. v.root * v.root \in Int
    BY <2>3
  <2> QED BY <2>2, <2>3, <2>4
<1> DEFINE d(a) == rows[a].vector.root * rows[a].vector.root
           G == {a \in DOMAIN rows : IsQualified(Reported(rows[a].vector.true * rows[a].vector.true))}
<1>5. PICK q : q = Kept(n, G)
  OBVIOUS
<1>6. /\ q \in Seq(1 .. n)
      /\ \A a \in DOMAIN q : q[a] \in G
      /\ \A a \in 1 .. n : a \in G => \E b \in DOMAIN q : q[b] = a
      /\ \A a, b \in DOMAIN q : a < b => q[a] < q[b]
  <2> HIDE DEF G
  <2> QED BY <1>3, <1>5, KeptIs
<1>7. PICK m : m = Len(q)
  OBVIOUS
<1>8. m \in Nat /\ DOMAIN q = 1 .. m /\ \A b \in 1 .. m : q[b] \in 1 .. n
  <2>1. q \in Seq(1 .. n)
    BY <1>6
  <2>2. n \in Nat
    BY <1>3
  <2> QED BY <1>7, <2>1, <2>2
<1>9. \A a \in 1 .. n : d(a) \in Int /\ (a \in G <=> d(a) <= R)
  <2> TAKE a \in 1 .. n
  <2>1. d(a) \in Int /\ rows[a].vector.true = rows[a].vector.root
    BY <1>4
  <2>2. PICK z : z = d(a)
    OBVIOUS
  <2>3. IsQualified(Reported(z)) <=> z <= R
    BY <1>1, <2>1, <2>2, CallKinds
  <2>4. a \in G <=> IsQualified(Reported(z))
    BY <1>3, <2>1, <2>2
  <2> QED BY <2>1, <2>2, <2>3, <2>4
<1> HIDE DEF G
<1> DEFINE e == [b \in 1 .. m |-> d(q[b])]
           g == [b \in 1 .. m |-> Reported(d(q[b]))]
<1>10. e \in [1 .. m -> Int] /\ \A b \in 1 .. m : e[b] = d(q[b])
  BY <1>8, <1>9
<1>11. \A a, b \in 1 .. m : q[a] = q[b] => a = b
  <2> SUFFICES ASSUME NEW a \in 1 .. m, NEW b \in 1 .. m, q[a] = q[b] PROVE a = b
    OBVIOUS
  <2>1. q[a] \in Nat /\ q[b] \in Nat
    BY <1>8
  <2>2. a \in DOMAIN q /\ b \in DOMAIN q
    BY <1>8
  <2>3. (a < b => q[a] < q[b]) /\ (b < a => q[b] < q[a])
    BY <1>6, <2>2
  <2>4. ~(a < b) /\ ~(b < a)
    BY <2>1, <2>3
  <2> QED BY <2>4
<1>12. PICK k : k = IF call.limit > 0 THEN call.limit ELSE m
  OBVIOUS
<1>13. k \in Nat
  <2>1. call.limit \in Int
    BY IvfPqAssumption
  <2> QED BY <1>8, <1>12, <2>1
<1>14. PICK less : less = NodeDist(g, call.order = "asc")
  OBVIOUS
<1>15. PICK u : u = Sorted(Heap(m, k, less), less)
  OBVIOUS
<1>16. BruteForceRangeSearch = [p \in DOMAIN u |-> g[u[p]]]
  <2>1. \A b \in 1 .. m : Reported(rows[q[b]].vector.true * rows[q[b]].vector.true) = Reported(d(q[b]))
    BY <1>4, <1>8
  <2> DEFINE w == [b \in DOMAIN q |-> Reported(rows[q[b]].vector.true * rows[q[b]].vector.true)]
  <2>2. w = g
    BY <1>8, <2>1
  <2>3. BruteForceRangeSearch = ReserveTopK(w, k, call.order = "asc")
    BY <1>1, <1>5, <1>7, <1>12 DEF BruteForceRangeSearch, G
  <2>4. Len(g) = m
    BY <1>8
  <2> HIDE DEF w, g
  <2>5. BruteForceRangeSearch = ReserveTopK(g, k, call.order = "asc")
    BY <2>2, <2>3
  <2> QED BY <1>14, <1>15, <2>4, <2>5 DEF ReserveTopK
<1>17. ASSUME NEW a \in 1 .. m, NEW b \in 1 .. m
       PROVE  <<a, b>> \in less <=> e[a] < e[b]
  <2>1. PICK p : p = <<a, b>>
    OBVIOUS
  <2>2. p[1] = a /\ p[2] = b /\ p \in (1 .. m) \X (1 .. m) /\ DOMAIN g = 1 .. m
    BY <2>1
  <2>3. p \in less <=> (IF call.order = "asc" THEN g[p[1]] < g[p[2]] ELSE g[p[1]] > g[p[2]])
    <3> HIDE DEF g
    <3> QED BY <1>14, <2>2 DEF NodeDist
  <2>4. e[a] \in Int /\ e[b] \in Int /\ g[a] = Reported(e[a]) /\ g[b] = Reported(e[b])
    BY <1>10
  <2>5. PICK x, y : x = e[a] /\ y = e[b]
    OBVIOUS
  <2>6. x \in Int /\ y \in Int /\ g[a] = Reported(x) /\ g[b] = Reported(y)
    BY <2>4, <2>5
  <2> HIDE DEF e, g
  <2>7. (IF call.order = "asc" THEN g[a] < g[b] ELSE g[a] > g[b]) <=> x < y
    <3>1. CASE call.order = "asc" /\ \A z \in Int : Reported(z) = z
      BY <2>6, <3>1
    <3>2. CASE call.order = "desc" /\ \A z \in Int : Reported(z) = 2 - z
      <4>1. g[a] = 2 - x /\ g[b] = 2 - y
        BY <2>6, <3>2
      <4> QED BY <2>6, <3>2, <4>1
    <3> QED BY <3>1, <3>2, CallKinds
  <2> QED BY <2>1, <2>2, <2>3, <2>5, <2>7
<1>18. WeakOrder(less, m) /\ ByDistance(less, m, e)
  <2>1. \A a \in 1 .. m : e[a] \in Int
    BY <1>10
  <2> HIDE DEF e
  <2>2. WeakOrder(less, m)
    BY <1>17, <2>1 DEF WeakOrder
  <2>3. ByDistance(less, m, e)
    <3>1. ASSUME NEW a \in 1 .. m, NEW b \in 1 .. m
          PROVE  (e[a] < e[b] => <<a, b>> \in less) /\ (<<a, b>> \in less => e[a] <= e[b])
      BY <1>17, <2>1
    <3> QED BY <3>1 DEF ByDistance
  <2> QED BY <2>2, <2>3
<1>19. IsNearest(u, m, k, less)
  BY <1>8, <1>13, <1>15, <1>18, NearestSorted
<1>20. u \in [1 .. Least(m, k) -> 1 .. m]
  BY <1>19 DEF IsNearest
<1>21. BruteForceRangeSearch = [p \in 1 .. Least(m, k) |-> Reported(e[u[p]])]
  <2>1. \A b \in 1 .. m : g[b] = Reported(e[b])
    OBVIOUS
  <2>2. DOMAIN u = 1 .. Least(m, k)
    BY <1>20
  <2> HIDE DEF e, g
  <2>3. \A p \in DOMAIN u : g[u[p]] = Reported(e[u[p]])
    BY <1>20, <2>1
  <2> QED BY <1>16, <2>2, <2>3
<1>22. q \in Seq(DOMAIN rows)
  BY <1>3, <1>6
<1>23. \A b \in 1 .. m : d(q[b]) <= R
  BY <1>6, <1>8, <1>9
<1>24. \A a \in DOMAIN rows : d(a) <= R => \E b \in 1 .. m : q[b] = a
  BY <1>3, <1>6, <1>8, <1>9
<1> HIDE DEF e
<1>25. IsBrute(q, e, u, k, less)
  BY <1>1, <1>7, <1>10, <1>11, <1>12, <1>13, <1>18, <1>19, <1>20, <1>21, <1>22, <1>23, <1>24 DEF IsBrute
<1> QED BY <1>25

LEMMA ReturnedMatches ==
  ASSUME IvfPqInv, call \in Calls, ~IvfPqRefused(call), ExactCodes, NEW x, NEW y, IsReturned(x, y)
  PROVE  y = BruteForceRangeSearch
<1>1. PICK r, f, s : IsReturn(r, f, s, x, y)
  BY DEF IsReturned
<1>2. PICK n, c, lessr : n = Len(r) /\ c = NumPreserve(n) /\ lessr = distance_less(r)
  OBVIOUS
<1>3. /\ IsAnswer(r, f) /\ c \in 0 .. n
      /\ s \in [1 .. c -> 1 .. n] /\ IsNearest(s, n, c, lessr)
      /\ y = [p \in 1 .. c |-> Reported(r[s[p]].dis)]
  BY <1>1, <1>2 DEF IsReturn
<1>4. /\ r \in Seq(AnyResult) /\ f \in [1 .. n -> Hits]
      /\ \A a, b \in 1 .. n : r[a].id = r[b].id => a = b
      /\ \A h \in Hits : \E a \in 1 .. n : f[a] = h
      /\ \A a \in 1 .. n : r[a] = Result(HitRow(f[a]))
  BY <1>2, <1>3 DEF IsAnswer
<1>5. n \in Nat /\ c \in Nat /\ c <= n /\ \A a \in 1 .. n : r[a] \in AnyResult
  BY <1>2, <1>3, <1>4
<1> DEFINE d == [a \in 1 .. n |-> r[a].dis]
<1>6. d \in [1 .. n -> Int] /\ \A a \in 1 .. n : d[a] = r[a].dis
  BY <1>5 DEF AnyResult
<1>7. ByDistance(lessr, n, d)
  BY <1>2, <1>4, DistanceLess
<1> HIDE DEF d
<1>8. PICK q, e, u, k, lessb : IsBrute(q, e, u, k, lessb)
  BY BruteExists
<1>9. PICK m, R : m = Len(q) /\ R = Radius
  OBVIOUS
<1> DEFINE z(a) == rows[a].vector.root * rows[a].vector.root
<1>10. /\ q \in Seq(DOMAIN rows)
       /\ \A b \in 1 .. m : z(q[b]) <= R
       /\ \A a \in DOMAIN rows : z(a) <= R => \E b \in 1 .. m : q[b] = a
       /\ \A a, b \in 1 .. m : q[a] = q[b] => a = b
       /\ e \in [1 .. m -> Int]
       /\ \A b \in 1 .. m : e[b] = z(q[b])
  BY <1>8, <1>9 DEF IsBrute
<1>11. /\ k \in Nat /\ k = IF call.limit > 0 THEN call.limit ELSE m
       /\ IsNearest(u, m, k, lessb) /\ ByDistance(lessb, m, e)
       /\ u \in [1 .. Least(m, k) -> 1 .. m]
       /\ BruteForceRangeSearch = [p \in 1 .. Least(m, k) |-> Reported(e[u[p]])]
  BY <1>8, <1>9 DEF IsBrute
<1>12. m \in Nat /\ \A b \in 1 .. m : q[b] \in DOMAIN rows
  BY <1>9, <1>10
<1> HIDE DEF z
<1>13. /\ \A h \in Hits : \E a \in DOMAIN rows : rows[a] = HitRow(h) /\ z(a) <= R
       /\ \A a \in DOMAIN rows : z(a) <= R => \E h \in Hits : rows[a] = HitRow(h)
  BY <1>9, ExactHits DEF z
<1>14. \A a, b \in DOMAIN rows : rows[a].id = rows[b].id => a = b
  BY DEF IvfPqInv, RowsNumbered
\* The result a and the qualified row b are of the same row.
<1> DEFINE Same(a, b) == HitRow(f[a]) = rows[q[b]]
<1>15. ASSUME NEW a \in 1 .. n PROVE \E b \in 1 .. m : Same(a, b)
  <2>1. f[a] \in Hits
    BY <1>4
  <2>2. PICK o \in DOMAIN rows : rows[o] = HitRow(f[a]) /\ z(o) <= R
    BY <1>13, <2>1
  <2> QED BY <1>10, <2>2
<1>16. ASSUME NEW b \in 1 .. m PROVE \E a \in 1 .. n : Same(a, b)
  <2>1. q[b] \in DOMAIN rows /\ z(q[b]) <= R
    BY <1>10, <1>12
  <2>2. PICK h \in Hits : rows[q[b]] = HitRow(h)
    BY <1>13, <2>1
  <2>3. PICK a \in 1 .. n : f[a] = h
    BY <1>4
  <2> QED BY <2>2, <2>3
<1>17. ASSUME NEW a \in 1 .. n, NEW b \in 1 .. m, Same(a, b)
       PROVE  d[a] = e[b] /\ r[a].id = rows[q[b]].id
  <2>1. r[a] = Result(rows[q[b]])
    BY <1>4, <1>17
  <2>2. r[a].dis = z(q[b]) /\ r[a].id = rows[q[b]].id
    BY <2>1 DEF Result, z
  <2> QED BY <1>6, <1>10, <2>2
<1>18. ASSUME NEW a \in 1 .. n, NEW aa \in 1 .. n, NEW b \in 1 .. m, NEW bb \in 1 .. m,
              Same(a, b), Same(aa, bb)
       PROVE  a = aa <=> b = bb
  <2>1. r[a].id = rows[q[b]].id /\ r[aa].id = rows[q[bb]].id
    BY <1>17, <1>18
  <2>2. a = aa => b = bb
    <3> SUFFICES ASSUME a = aa PROVE b = bb
      OBVIOUS
    <3>1. q[b] \in DOMAIN rows /\ q[bb] \in DOMAIN rows /\ rows[q[b]].id = rows[q[bb]].id
      BY <1>12, <2>1
    <3>2. q[b] = q[bb]
      BY <1>14, <3>1
    <3> QED BY <1>10, <3>2
  <2>3. b = bb => a = aa
    BY <1>4, <2>1
  <2> QED BY <2>2, <2>3
<1> HIDE DEF Same
<1> DEFINE to == [a \in 1 .. n |-> CHOOSE b \in 1 .. m : Same(a, b)]
           fro == [b \in 1 .. m |-> CHOOSE a \in 1 .. n : Same(a, b)]
<1>19. to \in [1 .. n -> 1 .. m] /\ \A a \in 1 .. n : Same(a, to[a])
  BY <1>15
<1>20. fro \in [1 .. m -> 1 .. n] /\ \A b \in 1 .. m : Same(fro[b], b)
  BY <1>16
<1> HIDE DEF to, fro
<1>21. \A a, b \in 1 .. n : to[a] = to[b] => a = b
  BY <1>18, <1>19
<1>22. \A a, b \in 1 .. m : fro[a] = fro[b] => a = b
  BY <1>18, <1>20
<1>23. n = m
  <2>1. n <= m
    BY <1>5, <1>12, <1>19, <1>21, NotLonger
  <2>2. m <= n
    BY <1>5, <1>12, <1>20, <1>22, NotLonger
  <2> QED BY <1>5, <1>12, <2>1, <2>2
<1>24. Least(n, c) = c
  BY <1>3, <1>5, LeastOf
<1>25. Least(m, k) = c
  <2>1. call.limit \in Int /\ call.limit # 0
    BY IvfPqAssumption DEF ExactCodes
  <2>2. c = IF call.limit < 0 \/ n < call.limit THEN n ELSE call.limit
    BY <1>2 DEF NumPreserve
  <2> QED BY <1>5, <1>11, <1>12, <1>23, <2>1, <2>2 DEF Least
<1>26. ASSUME NEW p \in 1 .. c PROVE d[s[p]] = e[u[p]]
  <2>1. p \in 1 .. Least(n, c) /\ p \in 1 .. Least(m, k)
    BY <1>24, <1>25
  <2>2. \A a \in 1 .. n : e[to[a]] = d[a]
    BY <1>17, <1>19
  <2>3. \A b \in 1 .. m : d[fro[b]] = e[b]
    BY <1>17, <1>20
  <2>4. IsPart(to, n, m, d, e) /\ IsPart(fro, m, n, e, d)
    BY <1>19, <1>20, <1>21, <1>22, <2>2, <2>3 DEF IsPart
  <2>5. SortedBy(s, n, c, lessr, d) /\ SortedBy(u, m, k, lessb, e)
    BY <1>3, <1>7, <1>11 DEF SortedBy
  <2>0. n \in Nat /\ c \in Nat /\ m \in Nat /\ k \in Nat /\ d \in [1 .. n -> Int] /\ e \in [1 .. m -> Int]
    BY <1>5, <1>6, <1>10, <1>11, <1>12
  <2>6. e[u[p]] <= d[s[p]]
    BY <2>0, <2>1, <2>4, <2>5, NotSmaller
  <2>7. d[s[p]] <= e[u[p]]
    BY <2>0, <2>1, <2>4, <2>5, NotSmaller
  <2>8. d[s[p]] \in Int /\ e[u[p]] \in Int
    BY <1>3, <1>6, <1>10, <1>11, <1>25
  <2> QED BY <2>6, <2>7, <2>8
<1>27. \A p \in 1 .. c : Reported(r[s[p]].dis) = Reported(e[u[p]])
  <2> TAKE p \in 1 .. c
  <2>1. s[p] \in 1 .. n
    BY <1>3
  <2>2. r[s[p]].dis = e[u[p]]
    BY <1>6, <1>26, <2>1
  <2> QED BY <2>2
<1>28. BruteForceRangeSearch = [p \in 1 .. c |-> Reported(e[u[p]])]
  BY <1>11, <1>25
<1> QED BY <1>3, <1>27, <1>28

LEMMA MeaningStays ==
  ASSUME call' = call, keys' = keys, rows' = rows, invlists' = invlists,
         reconstruction_errors' = reconstruction_errors
  PROVE  /\ \A h : HitRow(h)' = HitRow(h)
         /\ \A g, h : HitBefore(g, h)' <=> HitBefore(g, h)
         /\ \A z : Reported(z)' = Reported(z)
         /\ \A h : skip_entry(h)' <=> skip_entry(h)
         /\ Radius' = Radius /\ Probed' = Probed /\ Hits' = Hits
         /\ \A h : {g \in Hits : HitBefore(g, h)}' = {g \in Hits : HitBefore(g, h)}
         /\ ExactCodes' <=> ExactCodes
         /\ BruteForceRangeSearch' = BruteForceRangeSearch
<1>1. /\ \A h : HitRow(h)' = HitRow(h)
      /\ \A g, h : HitBefore(g, h)' <=> HitBefore(g, h)
      /\ \A z : Reported(z)' = Reported(z)
      /\ \A h : skip_entry(h)' <=> skip_entry(h)
      /\ Radius' = Radius /\ Probed' = Probed
  BY DEF HitRow, HitBefore, Reported, skip_entry, Radius, Probed
<1>2. Hits' = Hits
  BY DEF Hits, Probed, HitsIn, Reports, skip_entry, Accepts, Radius
<1>3. \A h : {g \in Hits : HitBefore(g, h)}' = {g \in Hits : HitBefore(g, h)}
  BY <1>1, <1>2
<1>4. ExactCodes' <=> ExactCodes
  BY <1>1 DEF ExactCodes
<1>5. BruteForceRangeSearch' = BruteForceRangeSearch
  BY DEF BruteForceRangeSearch, IsQualified, Reported
<1> QED BY <1>1, <1>2, <1>3, <1>4, <1>5

LEMMA FinishSearchInv ==
  ASSUME IvfPqInv, FinishSearch
  PROVE  IvfPqInv'
<1>1. /\ UNCHANGED addVars /\ pc = "scanning" /\ pc' \in {"thrown", "returned"}
      /\ call' = call /\ keys' = keys /\ next' = next /\ pres' = pres /\ interrupt' = interrupt
      /\ interrupt => pc' = "thrown"
  BY DEF FinishSearch
<1>2. IvfPqTypeOK /\ Searching
  BY DEF IvfPqInv
<1>3. /\ RowsNumbered' /\ ListsHoldRows' /\ ErrorsAligned'
      /\ invlists' = invlists /\ reconstruction_errors' = reconstruction_errors /\ rows' = rows
      /\ left' = left /\ i' = i /\ ntotal' = ntotal /\ xids' = xids
  BY <1>1, RowsStay
<1>4. IvfPqTypeOK'
  BY <1>1, <1>2, <1>3 DEF IvfPqTypeOK
<1>5. call \in Calls /\ ~IvfPqRefused(call)
  BY <1>1, <1>2 DEF Searching
<1>6. Searching'
  <2>1. ~IvfPqRefused(call)'
    BY <1>1, <1>5 DEF IvfPqRefused
  <2> QED BY <1>1, <1>2, <1>5, <2>1 DEF Searching
<1>7. PartialResults'
  BY <1>1 DEF PartialResults
<1>8. CASE interrupt
  <2>1. Answers'
    BY <1>1, <1>8 DEF Answers, AnswerIsExact, FullConfidenceLosesNothing, MatchesBruteForce
  <2> QED BY <1>3, <1>4, <1>6, <1>7, <2>1 DEF IvfPqInv
<1>9. CASE ~interrupt
  <2>1. PICK x, y : x = result_ids' /\ y = result_distances'
    OBVIOUS
  <2>2. pc' = "returned" /\ IsReturned(x, y)
    BY <1>9, <2>1, FinishReturns
  <2>3. /\ \A h : HitRow(h)' = HitRow(h)
        /\ \A z : Reported(z)' = Reported(z)
        /\ \A h : skip_entry(h)' <=> skip_entry(h)
        /\ Radius' = Radius /\ Probed' = Probed /\ Hits' = Hits
        /\ \A h : {g \in Hits : HitBefore(g, h)}' = {g \in Hits : HitBefore(g, h)}
        /\ ExactCodes' <=> ExactCodes
        /\ BruteForceRangeSearch' = BruteForceRangeSearch
    BY <1>1, <1>3, MeaningStays
  <2>4. AnswerIsExact'
    <3>1. Exact(x, y)
      BY <2>2, ReturnedExact
    <3> QED BY <1>1, <2>1, <2>3, <3>1 DEF AnswerIsExact, Exact, Result
  <2>5. FullConfidenceLosesNothing'
    <3>1. LosesNothing(x)
      BY <1>5, <2>2, ReturnedLosesNothing
    <3> QED BY <1>1, <1>3, <2>1, <2>3, <3>1 DEF FullConfidenceLosesNothing, LosesNothing
  <2>6. MatchesBruteForce'
    <3>1. ExactCodes => y = BruteForceRangeSearch
      BY <1>5, <2>2, ReturnedMatches
    <3>2. MatchesBruteForce' <=> (pc' = "returned" /\ ExactCodes' => result_distances' = BruteForceRangeSearch')
      BY DEF MatchesBruteForce, ExactCodes
    <3> QED BY <2>1, <2>3, <3>1, <3>2
  <2> QED BY <1>3, <1>4, <1>6, <1>7, <2>4, <2>5, <2>6 DEF IvfPqInv, Answers
<1> QED BY <1>8, <1>9

LEMMA IvfPqStutter ==
  ASSUME IvfPqInv, UNCHANGED ivfPqVars
  PROVE  IvfPqInv'
<1>1. /\ UNCHANGED addVars /\ pc' = pc /\ result_ids' = result_ids /\ result_distances' = result_distances
      /\ call' = call /\ keys' = keys /\ next' = next /\ pres' = pres /\ interrupt' = interrupt
  BY DEF ivfPqVars, searchVars
<1>2. IvfPqTypeOK /\ Searching /\ PartialResults
  BY DEF IvfPqInv
<1>3. /\ RowsNumbered' /\ ListsHoldRows' /\ ErrorsAligned'
      /\ invlists' = invlists /\ reconstruction_errors' = reconstruction_errors /\ rows' = rows
      /\ left' = left /\ i' = i /\ ntotal' = ntotal /\ xids' = xids
  BY <1>1, RowsStay
<1>4. IvfPqTypeOK'
  BY <1>1, <1>2, <1>3 DEF IvfPqTypeOK
<1>5. Searching'
  BY <1>1, <1>2, <1>3 DEF Searching, IvfPqRefused
<1>6. PartialResults'
  <2>1. HitsIn(Scanned)' = HitsIn(Scanned) /\ \A h : HitRow(h)' = HitRow(h)
    <3>1. Scanned' = Scanned
      BY <1>1 DEF Scanned
    <3> QED BY <1>1, <1>3, <3>1, HitsStay
  <2> QED BY <1>1, <1>2, <2>1 DEF PartialResults, Result
<1>7. /\ \A h : HitRow(h)' = HitRow(h)
      /\ \A z : Reported(z)' = Reported(z)
      /\ \A h : skip_entry(h)' <=> skip_entry(h)
      /\ Radius' = Radius /\ Probed' = Probed /\ Hits' = Hits
      /\ \A h : {g \in Hits : HitBefore(g, h)}' = {g \in Hits : HitBefore(g, h)}
      /\ ExactCodes' <=> ExactCodes
      /\ BruteForceRangeSearch' = BruteForceRangeSearch
  BY <1>1, <1>3, MeaningStays
<1>8. AnswerIsExact'
  <2>1. AnswerIsExact
    BY DEF IvfPqInv, Answers
  <2> QED BY <1>1, <1>7, <2>1 DEF AnswerIsExact, Result
<1>9. FullConfidenceLosesNothing'
  <2>1. FullConfidenceLosesNothing
    BY DEF IvfPqInv, Answers
  <2> QED BY <1>1, <1>3, <1>7, <2>1 DEF FullConfidenceLosesNothing
<1>10. MatchesBruteForce'
  <2>1. MatchesBruteForce <=> (pc = "returned" /\ ExactCodes => result_distances = BruteForceRangeSearch)
    BY DEF MatchesBruteForce, ExactCodes
  <2>2. MatchesBruteForce' <=> (pc' = "returned" /\ ExactCodes' => result_distances' = BruteForceRangeSearch')
    BY DEF MatchesBruteForce, ExactCodes
  <2>3. MatchesBruteForce
    BY DEF IvfPqInv, Answers
  <2> QED BY <1>1, <1>7, <2>1, <2>2, <2>3
<1> QED BY <1>3, <1>4, <1>5, <1>6, <1>8, <1>9, <1>10 DEF IvfPqInv, Answers

LEMMA IvfPqNextInv == IvfPqInv /\ [IvfPqNext]_ivfPqVars => IvfPqInv'
<1> SUFFICES ASSUME IvfPqInv, [IvfPqNext]_ivfPqVars PROVE IvfPqInv'
  OBVIOUS
<1>1. ASSUME NEW n \in 0 .. MaxRows, BeginAdd(n) PROVE IvfPqInv'
  BY <1>1, CountersInv
<1>2. ASSUME NEW v \in Vector, AddRow(v) PROVE IvfPqInv'
  BY <1>2, AddRowInv
<1>3. CASE EndBlock \/ AddInterrupted
  <2>1. 0 \in 0 .. MaxRows
    <3>1. MaxRows \in Nat
      BY IvfPqAssumption
    <3> QED BY <3>1
  <2> QED BY <1>3, <2>1, CountersInv
<1>4. ASSUME NEW c \in Calls, BeginSearch(c) PROVE IvfPqInv'
  BY <1>4, BeginSearchInv
<1>5. ASSUME NEW t \in 1 .. MaxThread, ScanList(t) PROVE IvfPqInv'
  BY <1>5, ScanListInv
<1>6. CASE FinishSearch
  BY <1>6, FinishSearchInv
<1>7. CASE UNCHANGED ivfPqVars
  BY <1>7, IvfPqStutter
<1> QED BY <1>1, <1>2, <1>3, <1>4, <1>5, <1>6, <1>7 DEF IvfPqNext

(***************************************************************************)
(* Rows have ids of their own and are in the lists they were assigned to,  *)
(* and while a search runs the partial results of its threads are the hits *)
(* of the lists scanned so far, however these were divided among threads.  *)
(***************************************************************************)
THEOREM IvfPqInvariant == IvfPqSpec => []IvfPqInv
BY IvfPqInitInv, IvfPqNextInv, PTL DEF IvfPqSpec

\* The counters of add stay within their bounds, and lists, rows and results keep
\* their types.
THEOREM IvfPqTypeCorrect == IvfPqSpec => []IvfPqTypeOK
<1>1. IvfPqInv => IvfPqTypeOK
  BY DEF IvfPqInv
<1> QED BY <1>1, IvfPqInvariant, PTL

\* custom_add_core_o keeps the reconstruction errors in step with the lists.
THEOREM ErrorsStayAligned == IvfPqSpec => []ErrorsAligned
<1>1. IvfPqInv => ErrorsAligned
  BY DEF IvfPqInv
<1> QED BY <1>1, IvfPqInvariant, PTL

(***************************************************************************)
(* A search that returns gives exactly the accepted entries of the probed  *)
(* lists, nearest first, up to the limit.                                  *)
(***************************************************************************)
THEOREM IvfPqAnswersExact == IvfPqSpec => []AnswerIsExact
<1>1. IvfPqInv => AnswerIsExact
  BY DEF IvfPqInv, Answers
<1> QED BY <1>1, IvfPqInvariant, PTL

\* With confidence 1 no row of a probed list within the range is lost.
THEOREM FullConfidence == IvfPqSpec => []FullConfidenceLosesNothing
<1>1. IvfPqInv => FullConfidenceLosesNothing
  BY DEF IvfPqInv, Answers
<1> QED BY <1>1, IvfPqInvariant, PTL

\* Where codes are exact the distances of a full search are those of brute force.
THEOREM AgreesWithBruteForce == IvfPqSpec => []MatchesBruteForce
<1>1. IvfPqInv => MatchesBruteForce
  BY DEF IvfPqInv, Answers
<1> QED BY <1>1, IvfPqInvariant, PTL

=============================================================================
