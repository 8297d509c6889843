------------------------- MODULE MCIvfPqRangeSearch -------------------------
(***************************************************************************)
(* Instances of IvfPqRangeSearch for TLC.                                  *)
(***************************************************************************)
EXTENDS IvfPqRangeSearch

VectorOf(k, r, e, t) == [key |-> k, root |-> r, err |-> e, true |-> t]

\* Exact codes, and codes that are nearer or farther than the vector is.
MCVector == {VectorOf(-1, 0, 0, 0), VectorOf(0, 1, 0, 1), VectorOf(1, 1, 0, 1), VectorOf(1, 2, 0, 2),
             VectorOf(0, 2, 1, 1), VectorOf(1, 0, 2, 2), VectorOf(0, 1, 2, 1)}

CallOf(m, r, l, f, n, c, p) ==
  [metric |-> m, range |-> r, order |-> IF m = "cosine" THEN "desc" ELSE "asc", limit |-> l,
   filter |-> f, nprobe |-> n, confidence |-> c, polysemous_ht |-> p]

MCCalls ==
  {CallOf("l2", r, l, NoFilter, 3, c, 0) : r \in {1, 4}, l \in {-1, 0, 1}, c \in {0, 2}}
  \cup {CallOf("cosine", r, l, f, n, c, 0) :
          r \in {-2, 3}, l \in {-1, 2}, f \in {NoFilter, {0, 11}}, n \in {1, 2}, c \in {1, 3}}
  \cup {CallOf("inner_product", 1, -1, NoFilter, 1, 0, 0), CallOf("l2", 1, -1, NoFilter, 0, 0, 0),
        CallOf("l2", 4, -1, NoFilter, 2, 1, 1)}
=============================================================================
