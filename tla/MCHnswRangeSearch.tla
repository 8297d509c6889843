------------------------- MODULE MCHnswRangeSearch -------------------------
(***************************************************************************)
(* Instances of HnswRangeSearch for TLC: every graph of three vectors on   *)
(* level 0, below an upper level on which two vectors know each other.     *)
(***************************************************************************)
EXTENDS HnswRangeSearch, TLC

CONSTANTS Apis, CosineLimits   \* entry points, and limits of the cosine searches

MCNode == 0 .. 2

Level0 == [MCNode -> SUBSET MCNode]
Level1 == {[v \in MCNode |-> {}], (0 :> {1}) @@ (1 :> {0}) @@ (2 :> {})}

Distances == [1 .. 3 -> 0 .. 2] \cup {<<2, 4, 0>>}

GraphOf(l0, l1, d) ==
  [entry_point |-> 0, max_level |-> 1, neighbors |-> (0 :> l0) @@ (1 :> l1),
   dis |-> [v \in MCNode |-> d[v + 1]],
   id_map |-> IF l1[0] = {} THEN NoMap ELSE (0 :> 2) @@ (1 :> 0) @@ (2 :> 1)]

MCGraphs ==
  {GraphOf(l0, l1, d) :
     l0 \in {l \in Level0 : \A v \in MCNode : v \notin l[v]}, l1 \in Level1, d \in Distances}
  \cup {[GraphOf(l, l, <<0, 0, 0>>) EXCEPT !.entry_point = -1] : l \in {[v \in MCNode |-> {}]}}

CallOf(a, m, r, l, f, e) ==
  [api |-> a, metric |-> m, range |-> r, order |-> IF m = "cosine" THEN "desc" ELSE "asc",
   limit |-> l, filter |-> f, efSearch |-> e]

\* With and without a limit; 0 is neither, see AnswerIsSound.
Limits == {-1, 1}

MCCalls ==
  {CallOf(a, "l2", r, l, f, e) :
     a \in Apis, r \in 1 .. 2, l \in {-1, 2}, f \in {NoFilter, {0, 1}}, e \in {1, 3}}
  \cup {CallOf(a, "cosine", r, l, {0, 2}, 2) : a \in Apis, r \in {-2, 0, 3}, l \in CosineLimits}
  \cup {CallOf("range_ids_only", "l2", 1, l, NoFilter, 2) : l \in {-1, 2}}
  \cup {[CallOf("range", m, 1, -1, NoFilter, 1) EXCEPT !.order = "desc"] :
          m \in {"l2", "inner_product"}}
  \cup {CallOf("ann", "l2", 0, 2, f, 2) : f \in {NoFilter, {2}}}
=============================================================================
