-------------------------- MODULE IvfPqRangeSearch --------------------------
(***************************************************************************)
(* An IVF-PQ index (IndexIvfPq): rows are added in blocks, then one range  *)
(* search of FaissIvfPqAnnSearcher scans the probed lists, with one thread *)
(* or several, and keeps the nearest.                                      *)
(*                                                                         *)
(* For a fixed query a vector is abstracted to [key, root, err, true]: the *)
(* list it is assigned to (-1: none), the distance of the query to its     *)
(* code, its reconstruction error, and its real distance from the query.   *)
(* Distances inside the index are squares; confidences are in halves.      *)
(***************************************************************************)
EXTENDS AnnSearcher, FiniteSets, Sequences

CONSTANTS
  List,        \* 0 .. nlist - 1
  Vector,      \* the vectors that may be added
  MaxRows,     \* bound: rows added
  bs,          \* index_ivfpq_add_core_o_bs
  MaxThread    \* omp_get_max_threads()

\* A call is a record of metric, range, order, limit, filter (a set of row ids),
\* nprobe, confidence and polysemous_ht.
ASSUME IvfPqAssumption ==
  /\ List \subseteq Nat /\ IsFiniteSet(List)
  /\ MaxRows \in Nat /\ bs \in Nat \ {0} /\ MaxThread \in Nat \ {0}
  \* |d(q, code) - d(code, x)| <= d(q, x) <= d(q, code) + d(code, x)
  /\ \A v \in Vector : /\ v.key \in List \cup {-1}
                       /\ v.root \in Nat /\ v.err \in Nat /\ v.true \in Nat
                       /\ v.root - v.err <= v.true /\ v.err - v.root <= v.true
                       /\ v.true <= v.root + v.err
  /\ \A c \in Calls : c.range \in Int /\ c.limit \in Int /\ c.nprobe \in Nat /\ c.confidence \in Int

VARIABLES
  xids,          \* whether rows come with ids
  rows,          \* every row given to add, as [id, vector]
  left, i,       \* rows left in this call of add, rows done in this block
  invlists,      \* list -> sequence of rows
  reconstruction_errors,
  ntotal,
  keys,          \* the lists that the probes of the search selected
  parallel_mode,
  next,          \* the probe to be taken next
  pres,          \* thread -> its partial result, a sequence of [dis, id]
  interrupt

\* pc is "open", "adding", "scanning", "returned" or "thrown".
addVars == <<xids, rows, left, i, invlists, reconstruction_errors, ntotal>>
searchVars == <<call, keys, parallel_mode, next, pres, interrupt, result_ids, result_distances>>
ivfPqVars == <<pc, addVars, searchVars>>

IvfPqInit ==
  /\ pc = "open" /\ xids \in BOOLEAN /\ rows = <<>> /\ left = 0 /\ i = 0 /\ ntotal = 0
  /\ invlists = [l \in List |-> <<>>] /\ reconstruction_errors = [l \in List |-> <<>>]
  /\ call = <<>> /\ keys = <<>> /\ parallel_mode = 0 /\ next = 1
  /\ pres = [t \in 1 .. MaxThread |-> <<>>] /\ interrupt = FALSE
  /\ result_ids = <<Stale>> /\ result_distances = <<Stale>>
-----------------------------------------------------------------------------
(* custom_add_core_o. *)

BeginAdd(n) ==
  /\ pc = "open" /\ Len(rows) + n <= MaxRows
  /\ pc' = "adding" /\ left' = n /\ i' = 0
  /\ UNCHANGED <<xids, rows, invlists, reconstruction_errors, ntotal, searchVars>>

\* Mutant: the error is kept also for a row that got no list.
AddRowError(v) ==
  LET row == [id |-> IF xids THEN 10 + Len(rows) ELSE ntotal + i, vector |-> v]
      l == IF v.key < 0 THEN 0 ELSE v.key
  IN  /\ pc = "adding" /\ i < left /\ i < bs
      /\ i' = i + 1 /\ rows' = Append(rows, row)
      /\ invlists' = IF v.key < 0 THEN invlists ELSE [invlists EXCEPT ![l] = Append(@, row)]
      /\ reconstruction_errors' = [reconstruction_errors EXCEPT ![l] = Append(@, v.err)]
      /\ UNCHANGED <<pc, xids, left, ntotal, searchVars>>

\* The i-th row of a block.  A caller's ids are some numbers of its own.
AddRow(v) ==
  LET row == [id |-> IF xids THEN 10 + Len(rows) ELSE ntotal + i, vector |-> v]
  IN  /\ pc = "adding" /\ i < left /\ i < bs
      /\ i' = i + 1 /\ rows' = Append(rows, row)
      /\ IF v.key < 0
         THEN UNCHANGED <<invlists, reconstruction_errors>>
         ELSE /\ invlists' = [invlists EXCEPT ![v.key] = Append(@, row)]
              /\ reconstruction_errors' = [reconstruction_errors EXCEPT ![v.key] = Append(@, v.err)]
      /\ UNCHANGED <<pc, xids, left, ntotal, searchVars>>

EndBlock ==
  /\ pc = "adding" /\ (i = left \/ i = bs)
  /\ ntotal' = ntotal + i
  /\ left' = left - i /\ i' = 0
  /\ pc' = IF left = i THEN "open" ELSE "adding"
  /\ UNCHANGED <<xids, rows, invlists, reconstruction_errors, searchVars>>

\* InterruptCallback::check or the quantizer throws before a block: the rest of
\* the rows is not added.
AddInterrupted ==
  /\ pc = "adding" /\ i = 0 /\ left > 0
  /\ pc' = "open" /\ left' = 0
  /\ UNCHANGED <<xids, rows, i, invlists, reconstruction_errors, ntotal, searchVars>>
-----------------------------------------------------------------------------
(* The search. *)

IvfPqRefused(c) ==
  \/ c.metric \notin {"l2", "cosine"}
  \/ c.metric = "cosine" /\ (c.range \notin CosineThresholds \/ c.order # "desc")
  \/ c.metric = "l2" /\ c.order # "asc"
  \/ c.nprobe = 0

\* The probes are the nearest lists, in whatever order the quantizer says; -1
\* where it has none to offer.
Probes(n) ==
  {ks \in [1 .. n -> List \cup {-1}] :
     \A a, b \in 1 .. n : a # b /\ ks[a] = ks[b] => ks[a] = -1}

BeginSearch(c) ==
  /\ pc = "open"
  /\ call' = c
  /\ IF IvfPqRefused(c)
     THEN pc' = "thrown" /\ UNCHANGED <<keys, parallel_mode>>
     ELSE /\ pc' = "scanning"
          /\ parallel_mode' \in {0, 1, 2}
          /\ keys' \in Probes(IF c.nprobe < Cardinality(List) THEN c.nprobe ELSE Cardinality(List))
  /\ UNCHANGED <<addVars, next, pres, interrupt, result_ids, result_distances>>

skip_entry(row) == call.filter # NoFilter /\ row.id \notin call.filter

\* Mutant: the upper bound of the distance instead of the lower.
AcceptsUnlessFar(l, j) ==
  LET root == invlists[l][j].vector.root
  IN  IF 0 < call.confidence /\ call.confidence <= 2
      THEN LET bound == 2 * root + reconstruction_errors[l][j] * call.confidence
           IN  bound * bound <= 4 * Radius
      ELSE Radius > root * root

\* RangeSearchResults::add: whether entry j of list l is reported.  The absolute value
\* of the lower bound is compared with the root of the radius, here both squared, and
\* the halves of the confidence are multiplied out.
Accepts(l, j) ==
  LET root == invlists[l][j].vector.root
      bound == 2 * root - reconstruction_errors[l][j] * call.confidence
  IN  IF 0 < call.confidence /\ call.confidence <= 2
      THEN bound * bound <= 4 * Radius
      ELSE Radius > root * root

Reports(l, j) == ~skip_entry(invlists[l][j]) /\ Accepts(l, j)

\* What a loop over 1 .. n pushes back that keeps the members of S.
Kept(n, S) ==
  LET kept[j \in 0 .. n] ==
        IF j = 0 THEN <<>> ELSE IF j \in S THEN Append(kept[j - 1], j) ELSE kept[j - 1]
  IN  kept[n]

Result(row) == [dis |-> row.vector.root * row.vector.root, id |-> row.id]

\* scan_list_with_table.
scan_codes_range(l) ==
  LET hits == Kept(Len(invlists[l]), {j \in DOMAIN invlists[l] : Reports(l, j)})
  IN  [p \in DOMAIN hits |-> Result(invlists[l][hits[p]])]

HasCodes(l) == l >= 0 /\ invlists[l] # <<>>

\* Thread t takes the next probe.  With one query, mode 0 has one thread.  Reading
\* the list may fail, and polysemous_ht is not supported: both are remembered, and
\* the other probes are still scanned.
ScanList(t) ==
  LET l == keys[next]
  IN  /\ pc = "scanning" /\ next <= Len(keys)
      /\ parallel_mode = 0 => t = 1
      /\ \/ /\ ~HasCodes(l)
            /\ UNCHANGED <<pres, interrupt>>
         \/ /\ HasCodes(l) /\ call.polysemous_ht = 0
            /\ pres' = [pres EXCEPT ![t] = @ \o scan_codes_range(l)]
            /\ UNCHANGED interrupt
         \/ /\ HasCodes(l)
            /\ interrupt' = TRUE
            /\ UNCHANGED pres
      /\ next' = next + 1
      /\ UNCHANGED <<pc, addVars, call, keys, parallel_mode, result_ids, result_distances>>
-----------------------------------------------------------------------------
(* After the barrier. *)

\* The top of a priority_queue: the last of the members by the relation less.
Top(h, less) == CHOOSE a \in h : \A b \in h : <<a, b>> \notin less

\* Mutant: the queue is cut before the next member is in it.
HeapLate(n, k, less) ==
  LET heap[j \in 0 .. n] ==
        IF j = 0 THEN {}
        ELSE LET h == heap[j - 1]
             IN  (IF Cardinality(h) > k THEN h \ {Top(h, less)} ELSE h) \cup {j}
  IN  heap[n]

\* A priority_queue after 1 .. n were pushed; whenever it held more than k, its
\* top was popped.
Heap(n, k, less) ==
  LET heap[j \in 0 .. n] ==
        IF j = 0 THEN {}
        ELSE LET h == heap[j - 1] \cup {j}
             IN  IF Cardinality(h) > k THEN h \ {Top(h, less)} ELSE h
  IN  heap[n]

\* Emptying the queue h into a vector, from the back.
Sorted(h, less) ==
  CHOOSE s \in [1 .. Cardinality(h) -> h] :
    \A a, b \in DOMAIN s : a < b => s[a] # s[b] /\ <<s[b], s[a]>> \notin less

distance_less(r) ==
  {p \in (DOMAIN r) \X (DOMAIN r) :
     \/ r[p[1]].dis < r[p[2]].dis
     \/ r[p[1]].dis = r[p[2]].dis /\ r[p[1]].id < r[p[2]].id}

\* RangeSearchPartialResult::merge: the partial results, thread by thread.
Merged ==
  LET merged[t \in 0 .. MaxThread] == IF t = 0 THEN <<>> ELSE merged[t - 1] \o pres[t]
  IN  merged[MaxThread]

\* Returns the nearest of the results; an interrupted search throws instead.
FinishSearch ==
  LET r == Merged
      num_preserve_results == IF call.limit < 0 \/ Len(r) < call.limit THEN Len(r) ELSE call.limit
      indices == Sorted(Heap(Len(r), num_preserve_results, distance_less(r)), distance_less(r))
  IN  /\ pc = "scanning" /\ next > Len(keys)
      /\ IF interrupt
         THEN pc' = "thrown" /\ UNCHANGED <<result_ids, result_distances>>
         ELSE /\ pc' = "returned"
              /\ result_ids' = [p \in DOMAIN indices |-> r[indices[p]].id]
              /\ result_distances' = [p \in DOMAIN indices |-> Reported(r[indices[p]].dis)]
      /\ UNCHANGED <<addVars, call, keys, parallel_mode, next, pres, interrupt>>

IvfPqNext ==
  \/ \E n \in 0 .. MaxRows : BeginAdd(n)
  \/ \E v \in Vector : AddRow(v)
  \/ EndBlock \/ AddInterrupted
  \/ \E c \in Calls : BeginSearch(c)
  \/ \E t \in 1 .. MaxThread : ScanList(t)
  \/ FinishSearch

IvfPqSpec == IvfPqInit /\ [][IvfPqNext]_ivfPqVars
-----------------------------------------------------------------------------
(* util/bruteforce.h: the distances BruteForceRangeSearch reports for all rows. *)

\* The order of the heap of ReserveTopK.
NodeDist(distances, ascending) ==
  {p \in (DOMAIN distances) \X (DOMAIN distances) :
     IF ascending THEN distances[p[1]] < distances[p[2]] ELSE distances[p[1]] > distances[p[2]]}

\* Mutant: the same heap for both orders.
ReserveNearest(distances, k, ascending) ==
  LET less == NodeDist(distances, TRUE)
      sorted == Sorted(Heap(Len(distances), k, less), less)
  IN  [p \in DOMAIN sorted |-> distances[sorted[p]]]

\* ReserveTopK, on the distances.
ReserveTopK(distances, k, ascending) ==
  LET less == NodeDist(distances, ascending)
      sorted == Sorted(Heap(Len(distances), k, less), less)
  IN  [p \in DOMAIN sorted |-> distances[sorted[p]]]

\* RangeFilter::IsQualified.
IsQualified(d) == IF call.order = "asc" THEN d <= call.range ELSE d >= call.range

BruteForceRangeSearch ==
  LET d(row) == Reported(row.vector.true * row.vector.true)
      qualified == Kept(Len(rows), {a \in DOMAIN rows : IsQualified(d(rows[a]))})
  IN  ReserveTopK([p \in DOMAIN qualified |-> d(rows[qualified[p]])],
                  IF call.limit > 0 THEN call.limit ELSE Len(qualified), call.order = "asc")
-----------------------------------------------------------------------------
\* Counters are within their bounds, and lists, results and rows have their types.
Row == [id : Nat, vector : Vector]
IvfPqTypeOK ==
  /\ pc \in {"open", "adding", "scanning", "returned", "thrown"}
  /\ left \in 0 .. MaxRows /\ i \in 0 .. bs /\ i <= left /\ ntotal \in 0 .. MaxRows
  /\ xids \in BOOLEAN /\ rows \in Seq(Row) /\ invlists \in [List -> Seq(Row)]
  /\ reconstruction_errors \in [List -> Seq(Nat)]
  /\ keys \in Seq(List \cup {-1}) /\ next \in 1 .. Len(keys) + 1
  /\ pres \in [1 .. MaxThread -> Seq([dis : Nat, id : Nat])] /\ interrupt \in BOOLEAN

(***************************************************************************)
(* The reconstruction errors that a search with confidence reads by the    *)
(* position of an entry are those of the entries at these positions.       *)
(***************************************************************************)
ErrorsAligned ==
  \A l \in List :
    reconstruction_errors[l] = [j \in DOMAIN invlists[l] |-> invlists[l][j].vector.err]

Probed == {keys[a] : a \in DOMAIN keys} \ {-1}

\* The entries of the lists L that the search accepts.
HitsIn(L) == {h \in UNION {{l} \X DOMAIN invlists[l] : l \in L} : Reports(h[1], h[2])}
Hits == HitsIn(Probed)
HitRow(h) == invlists[h[1]][h[2]]
HitBefore(h, g) ==
  \/ HitRow(h).vector.root < HitRow(g).vector.root
  \/ HitRow(h).vector.root = HitRow(g).vector.root /\ HitRow(h).id < HitRow(g).id

(***************************************************************************)
(* A search that returns has read every probed list, and however these     *)
(* were divided among threads it returns exactly the accepted entries,     *)
(* nearest first and by id among equally near, up to the limit, each with  *)
(* its own distance.                                                       *)
(***************************************************************************)
AnswerIsExact == pc = "returned" =>
  /\ Len(result_ids) = IF call.limit < 0 \/ Cardinality(Hits) < call.limit
                       THEN Cardinality(Hits) ELSE call.limit
  /\ \A p \in DOMAIN result_ids : \E h \in Hits :
       /\ result_ids[p] = HitRow(h).id
       /\ result_distances[p] = Reported(Result(HitRow(h)).dis)
       /\ Cardinality({g \in Hits : HitBefore(g, h)}) = p - 1

(***************************************************************************)
(* With confidence 1 quantization loses nothing: every row of a probed     *)
(* list whose real distance is within the range is returned.               *)
(***************************************************************************)
FullConfidenceLosesNothing ==
  (pc = "returned" /\ call.confidence = 2 /\ call.limit < 0) =>
    \A l \in Probed : \A j \in DOMAIN invlists[l] :
      LET row == invlists[l][j]
      IN  (~skip_entry(row) /\ row.vector.true * row.vector.true <= Radius)
            => \E p \in DOMAIN result_ids : result_ids[p] = row.id

(***************************************************************************)
(* Where the codes are exact and all lists are probed, a search with       *)
(* confidence reports the distances that brute force does.                 *)
(***************************************************************************)
MatchesBruteForce ==
  (/\ pc = "returned" /\ call.confidence \in 1 .. 2 /\ call.filter = NoFilter /\ call.limit # 0
   /\ Probed = List /\ \A a \in DOMAIN rows : rows[a].vector.key >= 0 /\ rows[a].vector.err = 0)
  => result_distances = BruteForceRangeSearch
=============================================================================
