-------------------------- MODULE MCRuntimeProfile --------------------------
(* Two profiles at the top and room for their children; n2 hangs under n1. *)
EXTENDS RuntimeProfile

CONSTANTS pA, pB, pC, pD, n1, n2

MCName == {TotalTime, n1, n2}
MCParentOf == [n \in MCName |-> IF n = n2 THEN n1 ELSE ROOT]

\* merge of pB into pA and copies from pA to pB: all take the locks of pA first.
OneOrder == {[op |-> "merge", this |-> pA, src |-> pB],
             [op |-> "copy_all_counters_from", this |-> pB, src |-> pA]}

\* merge of pB into pA and copies from pB to pA.
OneDirection == {[op |-> "merge", this |-> pA, src |-> pB],
                 [op |-> "copy_all_counters_from", this |-> pA, src |-> pB]}

MergeOnly == {[op |-> "merge", this |-> pA, src |-> pB]}
=============================================================================
