---------------------------- MODULE MCBlockCache ----------------------------
(***************************************************************************)
(* Instances of BlockCacheInvertedLists for TLC.                           *)
(*                                                                         *)
(* With two lists of one and two vectors, the first ends in the block in   *)
(* which the second begins, and the file ends within the second's last     *)
(* block.                                                                  *)
(***************************************************************************)
EXTENDS BlockCacheInvertedLists, TLC

CONSTANTS f1, f2, i1, i2, t1, t2

OneSize == (0 :> 2)
TwoSizes == (0 :> 1) @@ (1 :> 2)
ThreeSizes == (0 :> 1) @@ (1 :> 1) @@ (2 :> 1)

\* Each instance opens a file of its own, or both the same.
OwnFile == (i1 :> f1) @@ (i2 :> f2)
SameFile == (i1 :> f1) @@ (i2 :> f1)
OneFile == (i1 :> f1)

\* Each thread searches an index of its own, or both the same.
OwnInstance == (t1 :> i1) @@ (t2 :> i2)
SameInstance == (t1 :> i1) @@ (t2 :> i1)
=============================================================================
