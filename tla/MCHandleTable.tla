--------------------------- MODULE MCHandleTable ---------------------------
(***************************************************************************)
(* An instance of HandleTable for TLC: six keys, one of which two entries  *)
(* share; the fifth key makes the table grow.  The hashes collide in every *)
(* way that four and eight buckets allow: 1, 5 and 9 share a bucket of     *)
(* four, 1 and 9 one of eight, and two keys have hash 9.                   *)
(***************************************************************************)
EXTENDS HandleTable

MCKey == 1..6
MCEntry == 11..17
MCKeyOf(e) == IF e = 17 THEN 3 ELSE e - 10
MCHash(k) == <<1, 5, 9, 9, 7, 4>>[k]

\* The link left in an entry that is in no chain is overwritten by the next
\* insert of that entry before it is read: states that differ in it are one.
LiveState == <<length, elems, list, [e \in Linked |-> next_hash[e]], ret, pc, locals>>
=============================================================================
