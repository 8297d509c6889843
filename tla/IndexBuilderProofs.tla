------------------------- MODULE IndexBuilderProofs -------------------------
(***************************************************************************)
(* Proofs about IndexBuilder for every number of rows, batches and builds, *)
(* every minimum of rows to train on and every way to add.                 *)
(*                                                                         *)
(* Rows are numbered as clients make them, so that no row is kept twice    *)
(* follows from what keeps its order: every buffer, and the index, is      *)
(* increasing (Ordered).  Completeness for a careful client follows from   *)
(* what the buffers of an untrained index hold of the accepted rows        *)
(* (KeepsAccepted).                                                        *)
(***************************************************************************)
EXTENDS IndexBuilder, SequenceTheorems, WellFoundedInduction, TLAPS

-----------------------------------------------------------------------------
(***************************************************************************)
(* The invariant                                                           *)
(***************************************************************************)

\* Rows of a..b in the order in which they were made, no more than there are.
Ordered(s, a, b) ==
    /\ s \in Seq(Nat)
    /\ Len(s) <= b - a + 1
    /\ \A i \in 1..Len(s) : a <= s[i] /\ s[i] <= b
    /\ \A i, j \in 1..Len(s) : i < j => s[i] < s[j]

\* Rows of those made so far.
Made(s) == Ordered(s, 1, nrows)

\* The vectors of an index, and of a file.
Vectors(idx) == [i \in 1..Len(idx) |-> idx[i][1]]

\* An index of rows in 1..b, which may have been given garbage for ids.
IsIndex(idx, b) ==
    /\ idx \in Seq(Nat \X Nat)
    /\ Ordered(Vectors(idx), 1, b)
    /\ \A i \in 1..Len(idx) : idx[i][2] <= Garbage

Flags ==
    /\ with_buffer \in Buffered
    /\ given \subseteq BOOLEAN /\ late \in BOOLEAN
    /\ {is_opened, is_closed, use_custom_row_id, memory_only, is_trained,
        crashed} \subseteq BOOLEAN
    /\ nrows \in 0..MaxRows /\ nopens \in 0..MaxOpens

\* Whatever clients do, what is kept of the rows keeps their order.
RowsInOrder ==
    /\ Made(data_buffer) /\ Made(id_buffer)
    /\ input_row_iterator = Nil \/ Made(input_row_iterator)
    /\ row_id = Nil \/ Made(row_id)
    /\ Made(accepted) /\ Made(promised)
    /\ IsIndex(index, nrows)
    /\ file \in {Nil, Torn} \/ IsIndex(file, nrows)

\* The phases of a build: an index that is not trained is empty, an open HNSW
\* builder has a trained one, and before the first Open there is nothing.
Phases ==
    /\ ~is_trained => index = <<>>
    /\ ~with_buffer => ~crashed /\ (is_opened => is_trained)
    /\ is_opened => nopens > 0
    /\ nopens = 0 =>
         /\ data_buffer = <<>> /\ id_buffer = <<>>
         /\ input_row_iterator = Nil /\ row_id = Nil
         /\ accepted = <<>> /\ given = {}

\* The buffers of an untrained index hold the accepted rows: the copied ones if
\* there are any, with their ids, else those of the batch that is referred to.
KeepsAccepted ==
    /\ data_buffer # <<>> =>
         data_buffer = accepted /\ id_buffer = RowIds(accepted)
    /\ data_buffer = <<>> =>
         /\ accepted = IF input_row_iterator = Nil THEN <<>> ELSE input_row_iterator
         /\ id_buffer = <<>>
         /\ row_id = IF use_custom_row_id THEN input_row_iterator ELSE Nil
    /\ ~use_custom_row_id => row_id = Nil
    /\ TRUE \notin given => input_row_iterator = Nil
    /\ FALSE \notin given /\ input_row_iterator = Nil => data_buffer = <<>>

\* The ids of an index are those of rows, or row numbers.
IdsInRange(idx) == \A i \in 1..Len(idx) : idx[i][2] <= MaxRows

CarefulInv ==
    Careful =>
      /\ IndexIsComplete
      /\ FlushedIsComplete
      /\ with_buffer /\ is_opened /\ ~is_trained /\ ~crashed => KeepsAccepted
      /\ IdsInRange(index)
      /\ file \notin {Nil, Torn} => IdsInRange(file)

IInv == Flags /\ RowsInOrder /\ Phases /\ CarefulInv

-----------------------------------------------------------------------------
(***************************************************************************)
(* Sequences in order                                                      *)
(***************************************************************************)

\* Rows made later go behind those made earlier: insert at the end of a buffer.
LEMMA OrderedConcat ==
  \A m, b \in Nat : \A s, t :
    Ordered(s, 1, m) /\ Ordered(t, m + 1, b) /\ m <= b => Ordered(s \o t, 1, b)
<1> SUFFICES ASSUME NEW m \in Nat, NEW b \in Nat, NEW s, NEW t,
                    Ordered(s, 1, m), Ordered(t, m + 1, b), m <= b
             PROVE  Ordered(s \o t, 1, b)
  OBVIOUS
<1> DEFINE u == s \o t
<1>0. s \in Seq(Nat) /\ t \in Seq(Nat)
  BY DEF Ordered
<1>1. Len(s) \in Nat /\ Len(t) \in Nat
  BY <1>0
<1>2. /\ u \in Seq(Nat)
      /\ Len(u) = Len(s) + Len(t)
      /\ \A i \in 1..(Len(s) + Len(t)) : u[i] = IF i <= Len(s) THEN s[i] ELSE t[i - Len(s)]
  BY <1>0, ConcatProperties
<1> HIDE DEF u
<1>3. Len(u) <= b - 1 + 1
  BY <1>1, <1>2 DEF Ordered
<1>4. ASSUME NEW i \in 1..Len(u)
      PROVE  1 <= u[i] /\ u[i] <= b /\ u[i] \in Nat
  <2>1. CASE i <= Len(s)
    <3>1. i \in 1..Len(s)
      BY <2>1, <1>1, <1>2
    <3>2. u[i] = s[i]
      BY <2>1, <1>2
    <3>3. s[i] \in Nat /\ 1 <= s[i] /\ s[i] <= m
      BY <3>1, <1>0 DEF Ordered
    <3> QED BY <3>2, <3>3
  <2>2. CASE ~(i <= Len(s))
    <3>1. i - Len(s) \in 1..Len(t)
      BY <2>2, <1>1, <1>2
    <3>2. u[i] = t[i - Len(s)]
      BY <2>2, <1>2
    <3>3. t[i - Len(s)] \in Nat /\ m + 1 <= t[i - Len(s)] /\ t[i - Len(s)] <= b
      BY <3>1, <1>0 DEF Ordered
    <3> QED BY <3>2, <3>3
  <2> QED BY <2>1, <2>2
<1>5. ASSUME NEW i \in 1..Len(u), NEW j \in 1..Len(u), i < j
      PROVE  u[i] < u[j]
  <2>1. CASE j <= Len(s)
    <3>1. i \in 1..Len(s) /\ j \in 1..Len(s) /\ i <= Len(s)
      BY <2>1, <1>1, <1>2, <1>5
    <3> QED BY <3>1, <2>1, <1>2, <1>5 DEF Ordered
  <2>2. CASE ~(i <= Len(s))
    <3>1. i - Len(s) \in 1..Len(t) /\ j - Len(s) \in 1..Len(t) /\ i - Len(s) < j - Len(s)
      BY <2>2, <1>1, <1>2, <1>5
    <3>2. ~(j <= Len(s))
      BY <2>2, <1>1, <1>2, <1>5
    <3> QED BY <3>1, <3>2, <2>2, <1>2 DEF Ordered
  <2>3. CASE i <= Len(s) /\ ~(j <= Len(s))
    <3>1. i \in 1..Len(s) /\ j - Len(s) \in 1..Len(t)
      BY <2>3, <1>1, <1>2, <1>5
    <3>2. u[i] = s[i] /\ u[j] = t[j - Len(s)]
      BY <2>3, <1>2
    <3>3. s[i] <= m /\ m + 1 <= t[j - Len(s)] /\ s[i] \in Nat /\ t[j - Len(s)] \in Nat
      BY <3>1, <1>0, SMTT(30) DEF Ordered
    <3> QED BY <3>2, <3>3
  <2> QED BY <2>1, <2>2, <2>3, <1>1, <1>2, <1>5
<1>6. Ordered(u, 1, b)
  BY <1>2, <1>3, <1>4, <1>5 DEF Ordered
<1> QED BY <1>6 DEF u

\* Rows made so far stay rows made so far when more are made.
LEMMA OrderedWiden ==
  \A m, b \in Nat : \A s : Ordered(s, 1, m) /\ m <= b => Ordered(s, 1, b)
<1> SUFFICES ASSUME NEW m \in Nat, NEW b \in Nat, NEW s, Ordered(s, 1, m), m <= b
             PROVE  Ordered(s, 1, b)
  OBVIOUS
<1>1. s \in Seq(Nat) /\ Len(s) \in Nat /\ \A i \in 1..Len(s) : s[i] \in Nat
  BY DEF Ordered
<1>2. \A i \in 1..Len(s) : 1 <= s[i] /\ s[i] <= m
  BY DEF Ordered
<1>3. \A i \in 1..Len(s) : 1 <= s[i] /\ s[i] <= b
  BY <1>1, <1>2
<1>4. Len(s) <= b - 1 + 1
  BY <1>1 DEF Ordered
<1> QED BY <1>1, <1>3, <1>4 DEF Ordered

\* No rows.
LEMMA OrderedEmpty == \A m \in Nat : Ordered(<<>>, 1, m) /\ Ordered(<<>>, m + 1, m)
BY DEF Ordered

\* The rows of the next batch.
LEMMA BatchOrdered ==
  ASSUME NEW n \in Nat, nrows \in Nat
  PROVE  Ordered(Batch(n), nrows + 1, nrows + n)
<1>1. Batch(n) \in [1..n -> Nat]
  BY DEF Batch
<1>2. Batch(n) \in Seq(Nat) /\ Len(Batch(n)) = n
  BY <1>1
<1>3. \A i \in 1..n : Batch(n)[i] = nrows + i
  BY DEF Batch
<1> QED BY <1>2, <1>3 DEF Ordered

\* Induction over the naturals, for a set.
LEMMA SetInduction ==
  ASSUME NEW S, 0 \in S, \A n \in Nat : n \in S => n + 1 \in S
  PROVE  Nat \subseteq S
<1> SUFFICES ASSUME Nat \ S # {} PROVE FALSE
  OBVIOUS
<1>1. IsWellFoundedOn(OpToRel(<, Nat), Nat)
  BY NatLessThanWellFounded
<1>2. PICK n \in Nat \ S : \A m \in Nat \ S : ~(<<m, n>> \in OpToRel(<, Nat))
  BY <1>1, WFMin
<1>3. \A m \in Nat \ S : ~(m < n)
  BY <1>2 DEF OpToRel
<1>4. n # 0 /\ n - 1 \in Nat /\ n - 1 < n
  OBVIOUS
<1>5. n - 1 \in S
  BY <1>3, <1>4
<1>6. (n - 1) + 1 \in S
  BY <1>4, <1>5
<1> QED BY <1>4, <1>6

\* One row behind those made before it, or none.
LEMMA OrderedAppend ==
  ASSUME NEW a \in Nat, NEW c \in Nat, c + 1 >= a, NEW s, Ordered(s, a, c)
  PROVE  Ordered(Append(s, c + 1), a, c + 1) /\ Ordered(s, a, c + 1)
<1> DEFINE u == Append(s, c + 1)
<1>1. s \in Seq(Nat) /\ Len(s) \in Nat /\ \A i \in 1..Len(s) : s[i] \in Nat
  BY DEF Ordered
<1>2. /\ u \in Seq(Nat) /\ Len(u) = Len(s) + 1
      /\ u[Len(s) + 1] = c + 1
      /\ \A i \in 1..Len(s) : u[i] = s[i]
  BY <1>1
<1> HIDE DEF u
<1>3. \A i \in 1..Len(s) : a <= s[i] /\ s[i] <= c
  BY DEF Ordered
<1>4. Len(s) <= c - a + 1
  BY DEF Ordered
<1>5. Ordered(s, a, c + 1)
  <2>1. \A i \in 1..Len(s) : a <= s[i] /\ s[i] <= c + 1
    BY <1>1, <1>3
  <2>2. Len(s) <= (c + 1) - a + 1
    BY <1>1, <1>4
  <2> QED BY <1>1, <2>1, <2>2 DEF Ordered
<1>6. Ordered(u, a, c + 1)
  <2>1. ASSUME NEW i \in 1..Len(u) PROVE a <= u[i] /\ u[i] <= c + 1
    <3>1. CASE i \in 1..Len(s)
      BY <3>1, <1>1, <1>2, <1>3, SMTT(30)
    <3>2. CASE i \notin 1..Len(s)
      <4>1. i = Len(s) + 1
        BY <3>2, <1>1, <1>2
      <4> QED BY <4>1, <1>2
    <3> QED BY <3>1, <3>2
  <2>2. ASSUME NEW i \in 1..Len(u), NEW j \in 1..Len(u), i < j PROVE u[i] < u[j]
    <3>0. i \in 1..Len(s) /\ u[i] = s[i]
      BY <2>2, <1>1, <1>2
    <3>1. CASE j \in 1..Len(s)
      BY <2>2, <3>0, <3>1, <1>2 DEF Ordered
    <3>2. CASE j \notin 1..Len(s)
      <4>1. j = Len(s) + 1
        BY <3>2, <1>1, <1>2
      <4>2. u[j] = c + 1 /\ s[i] <= c /\ s[i] \in Nat
        BY <4>1, <3>0, <1>1, <1>2, <1>3
      <4> QED BY <4>2, <3>0
    <3> QED BY <3>1, <3>2
  <2>3. Len(u) <= (c + 1) - a + 1
    BY <1>1, <1>2, <1>4
  <2> QED BY <1>2, <2>1, <2>2, <2>3 DEF Ordered
<1> QED BY <1>5, <1>6 DEF u

\* What the loop over the null flags has pushed of a batch behind m rows.
Pushed(g, m, n, nulls) ==
    [i \in 0..n |-> IF i = 0 THEN <<>>
                    ELSE IF i \in nulls THEN g[i - 1]
                    ELSE Append(g[i - 1], m + i)]

LEMMA PushedExists ==
  ASSUME NEW m, NEW nulls
  PROVE  \A n \in Nat : \E g : g = Pushed(g, m, n, nulls)
<1> DEFINE S == {n \in Nat : \E g : g = Pushed(g, m, n, nulls)}
<1>1. 0 \in S
  <2> DEFINE g0 == [i \in 0..0 |-> <<>>]
  <2>1. g0 = Pushed(g0, m, 0, nulls)
    BY DEF Pushed
  <2> QED BY <2>1
<1>2. ASSUME NEW n \in Nat, n \in S PROVE n + 1 \in S
  <2>1. PICK g : g = Pushed(g, m, n, nulls)
    BY <1>2
  <2> DEFINE h == [i \in 0..(n + 1) |->
                     IF i = n + 1 THEN IF n + 1 \in nulls THEN g[n] ELSE Append(g[n], m + (n + 1))
                     ELSE g[i]]
  <2>2. ASSUME NEW i \in 0..(n + 1)
        PROVE  h[i] = Pushed(h, m, n + 1, nulls)[i]
    <3>1. CASE i = n + 1
      <4>1. i # 0 /\ i - 1 = n /\ n \in 0..(n + 1) /\ n # n + 1
        BY <3>1
      <4>2. h[n] = g[n]
        BY <4>1
      <4> QED BY <3>1, <4>1, <4>2 DEF Pushed
    <3>2. CASE i # n + 1 /\ i # 0
      <4>1. i \in 0..n /\ i - 1 \in 0..(n + 1) /\ i - 1 # n + 1
        BY <3>2
      <4>2. h[i] = g[i] /\ h[i - 1] = g[i - 1]
        BY <3>2, <4>1
      <4>3. g[i] = Pushed(g, m, n, nulls)[i]
        BY <2>1
      <4>4. g[i] = IF i \in nulls THEN g[i - 1] ELSE Append(g[i - 1], m + i)
        BY <4>1, <4>3, <3>2 DEF Pushed
      <4> HIDE DEF h
      <4> QED BY <3>2, <4>2, <4>4 DEF Pushed
    <3>3. CASE i = 0
      <4>1. h[0] = g[0] /\ g[0] = Pushed(g, m, n, nulls)[0] /\ 0 \in 0..n
        BY <2>1
      <4>2. g[0] = <<>>
        BY <4>1 DEF Pushed
      <4> HIDE DEF h
      <4> QED BY <3>3, <4>1, <4>2 DEF Pushed
    <3> QED BY <3>1, <3>2, <3>3
  <2>3. h = [i \in 0..(n + 1) |-> h[i]]
    OBVIOUS
  <2>4. Pushed(h, m, n + 1, nulls) = [i \in 0..(n + 1) |-> Pushed(h, m, n + 1, nulls)[i]]
    BY DEF Pushed
  <2>5. h = Pushed(h, m, n + 1, nulls)
    <3> HIDE DEF h
    <3> QED BY <2>2, <2>3, <2>4
  <2> QED BY <2>5
<1>3. Nat \subseteq S
  <2> HIDE DEF S
  <2> QED BY <1>1, <1>2, SetInduction
<1> QED BY <1>3

\* AddWithRowIdsAndNullFlags keeps the order of the rows that it pushes.
LEMMA NotNullOrdered ==
  ASSUME NEW n \in Nat, NEW nulls, nrows \in Nat
  PROVE  Ordered(NotNull(n, nulls), nrows + 1, nrows + n)
<1> DEFINE g == CHOOSE f : f = Pushed(f, nrows, n, nulls)
<1>1. g = Pushed(g, nrows, n, nulls)
  BY PushedExists
<1>2. NotNull(n, nulls) = g[n]
  BY DEF NotNull, Pushed
<1> HIDE DEF g
<1> DEFINE S == {i \in Nat : i <= n => Ordered(g[i], nrows + 1, nrows + i)}
<1>3. 0 \in S
  <2>1. g[0] = <<>>
    BY <1>1 DEF Pushed
  <2>2. Ordered(<<>>, nrows + 1, nrows)
    BY OrderedEmpty
  <2>3. nrows + 0 = nrows
    OBVIOUS
  <2> QED BY <2>1, <2>2, <2>3
<1>4. ASSUME NEW i \in Nat, i \in S PROVE i + 1 \in S
  <2> SUFFICES ASSUME i + 1 <= n PROVE Ordered(g[i + 1], nrows + 1, nrows + (i + 1))
    OBVIOUS
  <2>1. i + 1 \in 0..n /\ i + 1 # 0 /\ (i + 1) - 1 = i /\ i <= n
    OBVIOUS
  <2>2. g[i + 1] = IF i + 1 \in nulls THEN g[i] ELSE Append(g[i], nrows + (i + 1))
    BY <1>1, <2>1 DEF Pushed
  <2>3. Ordered(g[i], nrows + 1, nrows + i)
    BY <1>4, <2>1
  <2>4. nrows + 1 \in Nat /\ nrows + i \in Nat /\ (nrows + i) + 1 >= nrows + 1
        /\ nrows + (i + 1) = (nrows + i) + 1
    OBVIOUS
  <2>5. Ordered(Append(g[i], (nrows + i) + 1), nrows + 1, (nrows + i) + 1)
        /\ Ordered(g[i], nrows + 1, (nrows + i) + 1)
    BY <2>3, <2>4, OrderedAppend
  <2> QED BY <2>2, <2>4, <2>5
<1>5. Nat \subseteq S
  <2> HIDE DEF S
  <2> QED BY <1>3, <1>4, SetInduction
<1> QED BY <1>2, <1>5

-----------------------------------------------------------------------------
(***************************************************************************)
(* Indexes                                                                 *)
(***************************************************************************)

\* The pairs that faiss appends for rows, under the ids of a sequence that may
\* be too short, or under the numbers from k on.
PairsWithIds(rows, ids) ==
    [i \in 1..Len(rows) |-> <<rows[i], IF i <= Len(ids) THEN ids[i] ELSE Garbage>>]
PairsFrom(rows, k) == [i \in 1..Len(rows) |-> <<rows[i], k + i - 1>>]

LEMMA FunctionIsSeq ==
  ASSUME NEW S, NEW n \in Nat, NEW f \in [1..n -> S]
  PROVE  f \in Seq(S) /\ Len(f) = n
OBVIOUS

LEMMA PairsOfRows ==
  ASSUME NEW rows \in Seq(Nat), NEW ids \in Seq(Nat), NEW k \in Nat, Garbage \in Nat
  PROVE  /\ PairsWithIds(rows, ids) \in Seq(Nat \X Nat)
         /\ Len(PairsWithIds(rows, ids)) = Len(rows)
         /\ Vectors(PairsWithIds(rows, ids)) = rows
         /\ PairsFrom(rows, k) \in Seq(Nat \X Nat)
         /\ Len(PairsFrom(rows, k)) = Len(rows)
         /\ Vectors(PairsFrom(rows, k)) = rows
<1> DEFINE p == PairsWithIds(rows, ids)
           q == PairsFrom(rows, k)
<1>1. /\ Len(rows) \in Nat /\ Len(ids) \in Nat
      /\ \A i \in 1..Len(rows) : rows[i] \in Nat
      /\ \A i \in 1..Len(ids) : ids[i] \in Nat
      /\ rows = [i \in 1..Len(rows) |-> rows[i]]
  OBVIOUS
<1>2. ASSUME NEW i \in 1..Len(rows)
      PROVE  (IF i <= Len(ids) THEN ids[i] ELSE Garbage) \in Nat /\ k + i - 1 \in Nat
  <2>1. CASE i <= Len(ids)
    <3>1. i \in 1..Len(ids)
      BY <2>1, <1>1
    <3> QED BY <3>1, <2>1, <1>1
  <2>2. CASE ~(i <= Len(ids))
    BY <2>2, <1>1
  <2> QED BY <2>1, <2>2
<1>3. p \in [1..Len(rows) -> Nat \X Nat] /\ q \in [1..Len(rows) -> Nat \X Nat]
  BY <1>1, <1>2 DEF PairsWithIds, PairsFrom
<1>4. /\ p \in Seq(Nat \X Nat) /\ Len(p) = Len(rows)
      /\ q \in Seq(Nat \X Nat) /\ Len(q) = Len(rows)
  <2> HIDE DEF p, q
  <2> QED BY <1>1, <1>3, FunctionIsSeq
<1>5. \A i \in 1..Len(rows) : p[i][1] = rows[i] /\ q[i][1] = rows[i]
  BY DEF PairsWithIds, PairsFrom
<1> HIDE DEF p, q
<1>6. Vectors(p) = [i \in 1..Len(rows) |-> rows[i]] /\ Vectors(q) = [i \in 1..Len(rows) |-> rows[i]]
  BY <1>4, <1>5 DEF Vectors
<1> QED BY <1>1, <1>4, <1>6 DEF p, q

LEMMA VectorsConcat ==
  ASSUME NEW idx \in Seq(Nat \X Nat), NEW p \in Seq(Nat \X Nat)
  PROVE  /\ idx \o p \in Seq(Nat \X Nat)
         /\ Len(idx \o p) = Len(idx) + Len(p)
         /\ Vectors(idx) \in Seq(Nat) /\ Len(Vectors(idx)) = Len(idx)
         /\ Vectors(idx \o p) = Vectors(idx) \o Vectors(p)
         /\ \A i \in 1..Len(idx) : (idx \o p)[i] = idx[i]
         /\ \A i \in 1..(Len(idx) + Len(p)) : ~(i <= Len(idx)) =>
              i - Len(idx) \in 1..Len(p) /\ (idx \o p)[i] = p[i - Len(idx)]
<1> DEFINE u == idx \o p
<1>1. /\ Len(idx) \in Nat /\ Len(p) \in Nat
      /\ \A i \in 1..Len(idx) : idx[i] \in Nat \X Nat
      /\ \A i \in 1..Len(p) : p[i] \in Nat \X Nat
  OBVIOUS
<1>2. /\ u \in Seq(Nat \X Nat)
      /\ Len(u) = Len(idx) + Len(p)
      /\ \A i \in 1..(Len(idx) + Len(p)) : u[i] = IF i <= Len(idx) THEN idx[i] ELSE p[i - Len(idx)]
  BY ConcatProperties
<1> HIDE DEF u
<1>3. ASSUME NEW s \in Seq(Nat \X Nat)
      PROVE  /\ Vectors(s) \in Seq(Nat) /\ Len(Vectors(s)) = Len(s)
             /\ \A i \in 1..Len(s) : Vectors(s)[i] = s[i][1]
  <2>1. Len(s) \in Nat /\ \A i \in 1..Len(s) : s[i] \in Nat \X Nat
    OBVIOUS
  <2>2. \A i \in 1..Len(s) : s[i][1] \in Nat
    BY <2>1
  <2>3. Vectors(s) \in [1..Len(s) -> Nat]
    BY <2>2 DEF Vectors
  <2> QED BY <2>1, <2>3 DEF Vectors
<1>4. \A i \in 1..Len(idx) : u[i] = idx[i]
  <2>1. \A i \in 1..Len(idx) : i \in 1..(Len(idx) + Len(p)) /\ i <= Len(idx)
    BY <1>1
  <2> QED BY <1>2, <2>1
<1>5. \A i \in 1..(Len(idx) + Len(p)) : ~(i <= Len(idx)) =>
        i - Len(idx) \in 1..Len(p) /\ u[i] = p[i - Len(idx)]
  BY <1>1, <1>2
<1> DEFINE v == Vectors(idx) \o Vectors(p)
<1>6. /\ v \in Seq(Nat) /\ Len(v) = Len(idx) + Len(p)
      /\ \A i \in 1..(Len(idx) + Len(p)) :
           v[i] = IF i <= Len(idx) THEN Vectors(idx)[i] ELSE Vectors(p)[i - Len(idx)]
  <2>1. Vectors(idx) \in Seq(Nat) /\ Vectors(p) \in Seq(Nat)
        /\ Len(Vectors(idx)) = Len(idx) /\ Len(Vectors(p)) = Len(p)
    BY <1>3
  <2>2. /\ v \in Seq(Nat) /\ Len(v) = Len(Vectors(idx)) + Len(Vectors(p))
        /\ \A i \in 1..(Len(Vectors(idx)) + Len(Vectors(p))) :
             v[i] = IF i <= Len(Vectors(idx)) THEN Vectors(idx)[i]
                    ELSE Vectors(p)[i - Len(Vectors(idx))]
    BY <2>1, ConcatProperties
  <2> HIDE DEF v
  <2> QED BY <2>1, <2>2, Zenon
<1> HIDE DEF v
<1>7. ASSUME NEW i \in 1..Len(u) PROVE Vectors(u)[i] = v[i]
  <2>0. i \in 1..(Len(idx) + Len(p)) /\ Vectors(u)[i] = u[i][1]
    BY <1>2, <1>3
  <2>1. CASE i <= Len(idx)
    <3>1. i \in 1..Len(idx)
      BY <2>1, <1>1, <2>0
    <3>2. v[i] = Vectors(idx)[i] /\ Vectors(idx)[i] = idx[i][1] /\ u[i] = idx[i]
      BY <2>0, <2>1, <3>1, <1>3, <1>4, <1>6
    <3> QED BY <2>0, <3>2
  <2>2. CASE ~(i <= Len(idx))
    <3>1. i - Len(idx) \in 1..Len(p) /\ u[i] = p[i - Len(idx)]
      BY <2>0, <2>2, <1>5
    <3>2. v[i] = Vectors(p)[i - Len(idx)] /\ Vectors(p)[i - Len(idx)] = p[i - Len(idx)][1]
      BY <2>0, <2>2, <3>1, <1>3, <1>6
    <3> QED BY <2>0, <3>1, <3>2
  <2> QED BY <2>1, <2>2
<1>8. Vectors(u) = v
  <2>1. Vectors(u) \in Seq(Nat) /\ v \in Seq(Nat) /\ Len(Vectors(u)) = Len(u) /\ Len(v) = Len(u)
    BY <1>2, <1>3, <1>6
  <2> QED BY <1>7, <2>1, SeqEqual
<1> QED BY <1>2, <1>3, <1>4, <1>5, <1>8 DEF u, v

\* An index stays an index when rows that were made later are appended, whatever
\* ids they get below the garbage.
LEMMA IsIndexConcat ==
  \A m, b \in Nat : \A idx, p :
    /\ IsIndex(idx, m) /\ m <= b /\ p \in Seq(Nat \X Nat)
    /\ Ordered(Vectors(p), m + 1, b)
    /\ \A i \in 1..Len(p) : p[i][2] <= Garbage
    => IsIndex(idx \o p, b)
<1> SUFFICES ASSUME NEW m \in Nat, NEW b \in Nat, NEW idx, NEW p,
                    IsIndex(idx, m), m <= b, p \in Seq(Nat \X Nat),
                    Ordered(Vectors(p), m + 1, b),
                    \A i \in 1..Len(p) : p[i][2] <= Garbage
             PROVE  IsIndex(idx \o p, b)
  OBVIOUS
<1>1. idx \in Seq(Nat \X Nat) /\ Ordered(Vectors(idx), 1, m)
  BY DEF IsIndex
<1> DEFINE u == idx \o p
<1>2. /\ u \in Seq(Nat \X Nat) /\ Len(u) = Len(idx) + Len(p)
      /\ Vectors(u) = Vectors(idx) \o Vectors(p)
      /\ \A i \in 1..Len(idx) : u[i] = idx[i]
      /\ \A i \in 1..(Len(idx) + Len(p)) : ~(i <= Len(idx)) =>
           i - Len(idx) \in 1..Len(p) /\ u[i] = p[i - Len(idx)]
  BY <1>1, VectorsConcat
<1> HIDE DEF u
<1>3. Ordered(Vectors(u), 1, b)
  BY <1>1, <1>2, OrderedConcat
<1>4. ASSUME NEW i \in 1..Len(u) PROVE u[i][2] <= Garbage
  <2>1. CASE i <= Len(idx)
    <3>1. i \in 1..Len(idx)
      BY <2>1, <1>1, <1>2
    <3> QED BY <3>1, <1>2 DEF IsIndex
  <2>2. CASE ~(i <= Len(idx))
    BY <2>2, <1>2
  <2> QED BY <2>1, <2>2
<1>5. IsIndex(u, b)
  BY <1>2, <1>3, <1>4 DEF IsIndex
<1> QED BY <1>5 DEF u

\* Ids that may be given to faiss.
Bounded(ids) == ids \in Seq(Nat) /\ \A i \in 1..Len(ids) : ids[i] <= Garbage

LEMMA GarbageType == Garbage \in Nat /\ MaxRows \in Nat /\ MaxRows <= Garbage
BY IndexBuilderAssumption DEF Garbage

\* add_with_ids and add with rows that were made after those in the index.
LEMMA AddWithIdsIsIndex ==
  \A m, b \in Nat : \A idx, rows, ids :
    IsIndex(idx, m) /\ m <= b /\ Ordered(rows, m + 1, b) /\ Bounded(ids)
    => IsIndex(AddWithIds(idx, rows, ids), b)
<1> SUFFICES ASSUME NEW m \in Nat, NEW b \in Nat, NEW idx, NEW rows, NEW ids,
                    IsIndex(idx, m), m <= b, Ordered(rows, m + 1, b), Bounded(ids)
             PROVE  IsIndex(AddWithIds(idx, rows, ids), b)
  OBVIOUS
<1>1. rows \in Seq(Nat) /\ ids \in Seq(Nat)
  BY DEF Ordered, Bounded
<1> DEFINE p == PairsWithIds(rows, ids)
<1>2. p \in Seq(Nat \X Nat) /\ Len(p) = Len(rows) /\ Vectors(p) = rows
  BY <1>1, GarbageType, PairsOfRows
<1>3. ASSUME NEW i \in 1..Len(rows) PROVE p[i][2] <= Garbage
  <2>1. p[i][2] = IF i <= Len(ids) THEN ids[i] ELSE Garbage
    BY DEF PairsWithIds
  <2>2. CASE i <= Len(ids)
    <3>1. i \in 1..Len(ids)
      BY <2>2, <1>1
    <3> HIDE DEF p
    <3> QED BY <2>1, <2>2, <3>1 DEF Bounded
  <2>3. CASE ~(i <= Len(ids))
    <3> HIDE DEF p
    <3> QED BY <2>1, <2>3, GarbageType
  <2> QED BY <2>2, <2>3
<1> HIDE DEF p
<1>4. IsIndex(idx \o p, b)
  BY <1>2, <1>3, IsIndexConcat
<1> QED BY <1>4 DEF AddWithIds, p, PairsWithIds

LEMMA AddPlainIsIndex ==
  \A m, b \in Nat : \A idx, rows :
    IsIndex(idx, m) /\ m <= b /\ b <= MaxRows /\ Ordered(rows, m + 1, b)
    => IsIndex(AddPlain(idx, rows), b)
<1> SUFFICES ASSUME NEW m \in Nat, NEW b \in Nat, NEW idx, NEW rows,
                    IsIndex(idx, m), m <= b, b <= MaxRows, Ordered(rows, m + 1, b)
             PROVE  IsIndex(AddPlain(idx, rows), b)
  OBVIOUS
<1>1. rows \in Seq(Nat) /\ idx \in Seq(Nat \X Nat) /\ Ordered(Vectors(idx), 1, m)
  BY DEF Ordered, IsIndex
<1>2. Len(rows) \in Nat /\ Len(idx) \in Nat
  BY <1>1
<1> DEFINE p == PairsFrom(rows, Len(idx))
<1>3. p \in Seq(Nat \X Nat) /\ Len(p) = Len(rows) /\ Vectors(p) = rows
  <2>1. <<>> \in Seq(Nat)
    OBVIOUS
  <2> QED BY <1>1, <1>2, <2>1, GarbageType, PairsOfRows
<1>4. Len(Vectors(idx)) = Len(idx)
  BY <1>1, VectorsConcat
<1>5. Len(idx) <= m /\ Len(rows) <= b - m
  BY <1>1, <1>2, <1>4 DEF Ordered
<1>6. ASSUME NEW i \in 1..Len(rows) PROVE p[i][2] <= Garbage
  <2>1. p[i][2] = Len(idx) + i - 1
    BY DEF PairsFrom
  <2> HIDE DEF p
  <2>2. Len(idx) + i - 1 <= MaxRows
    BY <1>2, <1>5, GarbageType
  <2> QED BY <1>2, <2>1, <2>2, GarbageType
<1> HIDE DEF p
<1>7. IsIndex(idx \o p, b)
  BY <1>3, <1>6, IsIndexConcat
<1> QED BY <1>7 DEF AddPlain, p, PairsFrom

LEMMA IsIndexEmpty == IsIndex(<<>>, 0)
<1>1. Vectors(<<>>) = <<>>
  BY DEF Vectors
<1>2. Ordered(<<>>, 1, 0)
  BY OrderedEmpty
<1> QED BY <1>1, <1>2 DEF IsIndex

LEMMA IsIndexWiden ==
  \A m, b \in Nat : \A idx : IsIndex(idx, m) /\ m <= b => IsIndex(idx, b)
BY OrderedWiden DEF IsIndex

\* The complete index of rows, with and without row ids.
Complete(rows, custom) ==
    [i \in 1..Len(rows) |-> <<rows[i], IF custom THEN rows[i] ELSE i - 1>>]

LEMMA CompleteIsIndexOf == \A rows : IndexOf(rows) = Complete(rows, use_custom_row_id)
BY DEF IndexOf, Complete

LEMMA CompletePairs ==
  ASSUME NEW rows \in Seq(Nat)
  PROVE  /\ Complete(rows, TRUE) = PairsWithIds(rows, rows)
         /\ Complete(rows, FALSE) = PairsFrom(rows, 0)
         /\ Len(Complete(rows, TRUE)) = Len(rows)
         /\ Len(Complete(rows, FALSE)) = Len(rows)
         /\ \A c \in BOOLEAN : Complete(rows, c) \in Seq(Nat \X Nat)
         /\ \A c \in BOOLEAN : Vectors(Complete(rows, c)) = rows
<1>1. Complete(rows, TRUE) = PairsWithIds(rows, rows)
  BY DEF Complete, PairsWithIds
<1>2. Complete(rows, FALSE) = PairsFrom(rows, 0)
  <2>1. \A i \in 1..Len(rows) : 0 + i - 1 = i - 1
    OBVIOUS
  <2> QED BY <2>1 DEF Complete, PairsFrom
<1>3. /\ PairsWithIds(rows, rows) \in Seq(Nat \X Nat)
      /\ Len(PairsWithIds(rows, rows)) = Len(rows)
      /\ Vectors(PairsWithIds(rows, rows)) = rows
      /\ PairsFrom(rows, 0) \in Seq(Nat \X Nat)
      /\ Len(PairsFrom(rows, 0)) = Len(rows)
      /\ Vectors(PairsFrom(rows, 0)) = rows
  BY GarbageType, PairsOfRows
<1> QED BY <1>1, <1>2, <1>3

\* Adding a batch to a complete index makes a complete index.
LEMMA CompleteConcat ==
  ASSUME NEW a \in Seq(Nat), NEW r \in Seq(Nat)
  PROVE  /\ AddWithIds(Complete(a, TRUE), r, r) = Complete(a \o r, TRUE)
         /\ AddPlain(Complete(a, FALSE), r) = Complete(a \o r, FALSE)
<1>1. /\ a \o r \in Seq(Nat) /\ Len(a \o r) = Len(a) + Len(r)
      /\ Len(a) \in Nat /\ Len(r) \in Nat
      /\ \A i \in 1..(Len(a) + Len(r)) : (a \o r)[i] = IF i <= Len(a) THEN a[i] ELSE r[i - Len(a)]
  BY ConcatProperties
<1>2. ASSUME NEW c \in BOOLEAN, NEW p \in Seq(Nat \X Nat), Len(p) = Len(r),
             Len(Complete(a, c)) = Len(a),
             \A i \in 1..Len(r) : p[i] = <<r[i], IF c THEN r[i] ELSE Len(a) + i - 1>>
      PROVE  Complete(a, c) \o p = Complete(a \o r, c)
  <2> DEFINE u == Complete(a, c) \o p
             w == Complete(a \o r, c)
  <2>1. /\ u \in Seq(Nat \X Nat) /\ Len(u) = Len(a) + Len(r)
        /\ \A i \in 1..Len(a) : u[i] = Complete(a, c)[i]
        /\ \A i \in 1..(Len(a) + Len(r)) : ~(i <= Len(a)) =>
             i - Len(a) \in 1..Len(r) /\ u[i] = p[i - Len(a)]
    <3>1. Complete(a, c) \in Seq(Nat \X Nat)
      BY CompletePairs
    <3>2. /\ u \in Seq(Nat \X Nat) /\ Len(u) = Len(Complete(a, c)) + Len(p)
          /\ \A i \in 1..Len(Complete(a, c)) : u[i] = Complete(a, c)[i]
          /\ \A i \in 1..(Len(Complete(a, c)) + Len(p)) : ~(i <= Len(Complete(a, c))) =>
               i - Len(Complete(a, c)) \in 1..Len(p) /\ u[i] = p[i - Len(Complete(a, c))]
      BY <3>1, VectorsConcat
    <3> HIDE DEF u
    <3> QED BY <1>2, <3>2, Zenon
  <2>2. w \in Seq(Nat \X Nat) /\ Len(w) = Len(a) + Len(r)
    <3>1. CASE c = TRUE
      BY <1>1, <3>1, CompletePairs
    <3>2. CASE c = FALSE
      BY <1>1, <3>2, CompletePairs
    <3> QED BY <3>1, <3>2
  <2>3. \A i \in 1..(Len(a) + Len(r)) :
          w[i] = <<(a \o r)[i], IF c THEN (a \o r)[i] ELSE i - 1>>
    BY <1>1 DEF Complete
  <2>4. \A i \in 1..Len(a) : Complete(a, c)[i] = <<a[i], IF c THEN a[i] ELSE i - 1>>
    BY DEF Complete
  <2> HIDE DEF u, w
  <2>5. ASSUME NEW i \in 1..Len(u) PROVE u[i] = w[i]
    <3>0. i \in 1..(Len(a) + Len(r))
      BY <2>1
    <3>1. CASE i <= Len(a)
      <4>1. i \in 1..Len(a) /\ (a \o r)[i] = a[i]
        BY <1>1, <3>0, <3>1
      <4> QED BY <2>1, <2>3, <2>4, <3>0, <4>1
    <3>2. CASE ~(i <= Len(a))
      <4>1. i - Len(a) \in 1..Len(r) /\ u[i] = p[i - Len(a)]
        BY <2>1, <3>0, <3>2
      <4>2. (a \o r)[i] = r[i - Len(a)]
        BY <1>1, <3>0, <3>2
      <4>3. Len(a) + (i - Len(a)) - 1 = i - 1
        BY <1>1, <3>0
      <4>4. p[i - Len(a)] = <<r[i - Len(a)], IF c THEN r[i - Len(a)] ELSE Len(a) + (i - Len(a)) - 1>>
        BY <1>2, <4>1
      <4> QED BY <2>3, <3>0, <4>1, <4>2, <4>3, <4>4
    <3> QED BY <3>1, <3>2
  <2>6. u = w
    BY <2>1, <2>2, <2>5, SeqEqual
  <2> QED BY <2>6 DEF u, w
<1>3. AddWithIds(Complete(a, TRUE), r, r) = Complete(a, TRUE) \o PairsWithIds(r, r)
  BY DEF AddWithIds, PairsWithIds
<1>4. AddPlain(Complete(a, FALSE), r) = Complete(a, FALSE) \o PairsFrom(r, Len(a))
  BY CompletePairs DEF AddPlain, PairsFrom
<1>5. \A i \in 1..Len(r) : PairsWithIds(r, r)[i] = <<r[i], r[i]>>
  BY DEF PairsWithIds
<1>6. \A i \in 1..Len(r) : PairsFrom(r, Len(a))[i] = <<r[i], Len(a) + i - 1>>
  BY DEF PairsFrom
<1>7. /\ PairsWithIds(r, r) \in Seq(Nat \X Nat) /\ Len(PairsWithIds(r, r)) = Len(r)
      /\ PairsFrom(r, Len(a)) \in Seq(Nat \X Nat) /\ Len(PairsFrom(r, Len(a))) = Len(r)
  BY <1>1, GarbageType, PairsOfRows
<1>8. Complete(a, TRUE) \o PairsWithIds(r, r) = Complete(a \o r, TRUE)
  BY <1>2, <1>5, <1>7, CompletePairs
<1>9. Complete(a, FALSE) \o PairsFrom(r, Len(a)) = Complete(a \o r, FALSE)
  BY <1>2, <1>6, <1>7, CompletePairs
<1> QED BY <1>3, <1>4, <1>8, <1>9

LEMMA CompleteEmpty == \A c \in BOOLEAN : Complete(<<>>, c) = <<>>
BY DEF Complete

\* Adding rows to an empty index makes a complete index.
LEMMA CompleteFirst ==
  ASSUME NEW r \in Seq(Nat)
  PROVE  AddWithIds(<<>>, r, r) = Complete(r, TRUE) /\ AddPlain(<<>>, r) = Complete(r, FALSE)
<1>1. <<>> \in Seq(Nat) /\ <<>> \o r = r
  BY ConcatEmptySeq
<1>2. Complete(<<>>, TRUE) = <<>> /\ Complete(<<>>, FALSE) = <<>>
  BY CompleteEmpty
<1> QED BY <1>1, <1>2, CompleteConcat

\* The ids of a complete index of rows made so far are in range.
LEMMA CompleteInRange ==
  \A b \in Nat : \A c \in BOOLEAN : \A rows :
     Ordered(rows, 1, b) /\ b <= MaxRows => IdsInRange(Complete(rows, c))
<1> SUFFICES ASSUME NEW b \in Nat, NEW c \in BOOLEAN, NEW rows, Ordered(rows, 1, b), b <= MaxRows
             PROVE  IdsInRange(Complete(rows, c))
  OBVIOUS
<1>1. /\ rows \in Seq(Nat) /\ Len(rows) \in Nat /\ Len(rows) <= b
      /\ \A i \in 1..Len(rows) : rows[i] \in Nat /\ rows[i] <= b
  BY DEF Ordered
<1>2. Len(Complete(rows, c)) = Len(rows)
  BY <1>1, CompletePairs
<1>3. \A i \in 1..Len(rows) : Complete(rows, c)[i][2] = IF c THEN rows[i] ELSE i - 1
  BY DEF Complete
<1>4. \A i \in 1..Len(rows) : rows[i] <= MaxRows /\ i - 1 <= MaxRows
  BY <1>1, GarbageType
<1> QED BY <1>2, <1>3, <1>4 DEF IdsInRange

-----------------------------------------------------------------------------
(***************************************************************************)
(* What Add does to the buffers                                            *)
(***************************************************************************)

\* New rows are rows; no sequence of rows is the null pointer.
LEMMA OrderedFromOne ==
  \A m, b \in Nat : \A t : Ordered(t, m + 1, b) /\ m <= b => Ordered(t, 1, b)
<1> SUFFICES ASSUME NEW m \in Nat, NEW b \in Nat, NEW t, Ordered(t, m + 1, b), m <= b
             PROVE  Ordered(t, 1, b)
  OBVIOUS
<1>1. t \in Seq(Nat) /\ <<>> \o t = t
  BY ConcatEmptySeq DEF Ordered
<1>2. Ordered(<<>>, 1, m)
  BY OrderedEmpty
<1>3. Ordered(<<>> \o t, 1, b)
  BY <1>2, OrderedConcat
<1> QED BY <1>1, <1>3

LEMMA OrderedIsNotNil ==
  \A b \in Nat : \A s : Ordered(s, 1, b) /\ b <= MaxRows => s # Nil
<1> SUFFICES ASSUME NEW b \in Nat, NEW s, Ordered(s, 1, b), b <= MaxRows
             PROVE  s # Nil
  OBVIOUS
<1>1. s \in Seq(Nat) /\ Len(s) \in Nat /\ s \in [1..Len(s) -> Nat]
  BY DEF Ordered
<1>2. \A i \in 1..Len(s) : s[i] \in 1..MaxRows
  BY <1>1, GarbageType DEF Ordered
<1>3. s \in [1..Len(s) -> 1..MaxRows]
  BY <1>1, <1>2
<1>4. s \in Seq(1..MaxRows)
  BY <1>1, <1>3, FunctionIsSeq
<1> QED BY <1>4, IndexBuilderAssumption

\* What a batch of rows, all made after those made so far, is.
NewRows(batch, b) == b \in Nat /\ nrows \in Nat /\ nrows <= b /\ b <= MaxRows
                     /\ Ordered(batch, nrows + 1, b)

LEMMA BatchIsNew ==
  ASSUME NEW n \in Nat, Flags, CanAdd(n)
  PROVE  NewRows(Batch(n), nrows + n)
<1>1. nrows \in Nat /\ nrows + n \in Nat /\ nrows <= nrows + n /\ nrows + n <= MaxRows
  BY GarbageType DEF Flags, CanAdd
<1> QED BY <1>1, BatchOrdered DEF NewRows

LEMMA NotNullIsNew ==
  ASSUME NEW n \in Nat, NEW nulls, Flags, CanAdd(n)
  PROVE  NewRows(NotNull(n, nulls), nrows + n)
<1>1. nrows \in Nat /\ nrows + n \in Nat /\ nrows <= nrows + n /\ nrows + n <= MaxRows
  BY GarbageType DEF Flags, CanAdd
<1> QED BY <1>1, NotNullOrdered DEF NewRows

\* Behind rows made so far, and by themselves, new rows are in order.
LEMMA NewRowsOrdered ==
  ASSUME NEW batch, NEW b, NewRows(batch, b)
  PROVE  /\ Ordered(batch, 1, b)
         /\ Ordered(RowIds(batch), nrows + 1, b)
         /\ batch # Nil
         /\ \A s : Made(s) => /\ Ordered(s \o batch, 1, b)
                              /\ Ordered(s \o RowIds(batch), 1, b)
                              /\ Ordered(s, 1, b)
                              /\ s # Nil
<1>0. b \in Nat /\ nrows \in Nat /\ nrows <= b /\ b <= MaxRows /\ Ordered(batch, nrows + 1, b)
  BY DEF NewRows
<1>1. Ordered(batch, 1, b)
  BY <1>0, OrderedFromOne
<1>2. Ordered(<<>>, nrows + 1, b)
  BY <1>0 DEF Ordered
<1>3. Ordered(RowIds(batch), nrows + 1, b)
  BY <1>0, <1>2 DEF RowIds
<1>4. ASSUME NEW s, Made(s)
      PROVE  /\ Ordered(s \o batch, 1, b)
             /\ Ordered(s \o RowIds(batch), 1, b)
             /\ Ordered(s, 1, b)
             /\ s # Nil
  <2>1. Ordered(s, 1, nrows)
    BY <1>4 DEF Made
  <2>2. Ordered(s, 1, b)
    BY <1>0, <2>1, OrderedWiden
  <2> QED BY <1>0, <1>3, <2>1, <2>2, OrderedConcat, OrderedIsNotNil
<1>5. batch # Nil
  BY <1>0, <1>1, OrderedIsNotNil
<1> QED BY <1>1, <1>3, <1>4, <1>5

\* Merge keeps every buffer in order, whatever its client does.
LEMMA MergeInOrder ==
  ASSUME NEW batch, NEW live \in BOOLEAN, RowsInOrder,
         NewRows(batch, nrows'), Merge(batch, live)
  PROVE  /\ Made(data_buffer)' /\ Made(id_buffer)'
         /\ input_row_iterator' = Nil \/ Made(input_row_iterator)'
         /\ row_id' = Nil \/ Made(row_id)'
<1>1. /\ Made(data_buffer) /\ Made(id_buffer)
      /\ input_row_iterator = Nil \/ Made(input_row_iterator)
      /\ row_id = Nil \/ Made(row_id)
  BY DEF RowsInOrder
<1>2. /\ Ordered(batch, 1, nrows')
      /\ \A s : Made(s) => /\ Ordered(s \o batch, 1, nrows')
                           /\ Ordered(s \o RowIds(batch), 1, nrows')
                           /\ Ordered(s, 1, nrows')
  BY NewRowsOrdered
<1>3. CASE ~live
  BY <1>1, <1>2, <1>3 DEF Merge, Made
<1>4. CASE live /\ input_row_iterator = Nil
  BY <1>1, <1>2, <1>4 DEF Merge, Made
<1>5. CASE live /\ input_row_iterator # Nil /\ data_buffer = <<>>
  <2>1. Made(data_buffer)'
    BY <1>1, <1>2, <1>5 DEF Merge, Made
  <2>2. Made(id_buffer)'
    BY <1>1, <1>2, <1>5 DEF Merge, Made
  <2>3. UNCHANGED <<input_row_iterator, row_id>>
    BY <1>5 DEF Merge
  <2> QED BY <1>1, <1>2, <2>1, <2>2, <2>3 DEF Made
<1>6. CASE live /\ input_row_iterator # Nil /\ data_buffer # <<>>
  BY <1>1, <1>2, <1>6 DEF Merge, Made
<1> QED BY <1>3, <1>4, <1>5, <1>6

\* For a client that does not mix the ways to add, Merge keeps the accepted rows.
LEMMA MergeKeepsAccepted ==
  ASSUME NEW batch \in Seq(Nat), NEW live \in BOOLEAN, batch # Nil,
         KeepsAccepted, accepted \in Seq(Nat), given \subseteq BOOLEAN,
         use_custom_row_id \in BOOLEAN,
         input_row_iterator = Nil \/ input_row_iterator \in Seq(Nat),
         Merge(batch, live), ~crashed', UNCHANGED use_custom_row_id,
         accepted' = accepted \o batch,
         given' = given \cup {live}, given' # BOOLEAN
  PROVE  KeepsAccepted'
<1>0. /\ <<>> \o batch = batch
      /\ accepted \o batch \in Seq(Nat)
      /\ accepted \o batch = <<>> <=> accepted = <<>> /\ batch = <<>>
      /\ RowIds(accepted \o batch) = RowIds(accepted) \o RowIds(batch)
  <2>1. <<>> \o batch = batch /\ <<>> \o <<>> = <<>>
    BY ConcatEmptySeq
  <2>2. accepted \o batch \in Seq(Nat)
    OBVIOUS
  <2>3. accepted \o batch = <<>> <=> accepted = <<>> /\ batch = <<>>
    BY ConcatEqualIffEmpty
  <2>4. RowIds(accepted \o batch) = RowIds(accepted) \o RowIds(batch)
    BY <2>1 DEF RowIds
  <2> QED BY <2>1, <2>2, <2>3, <2>4
<1>1. RowIds(<<>>) = <<>>
  BY DEF RowIds
<1>2. RowIds(accepted)' = RowIds(accepted \o batch)
  BY DEF RowIds
<1>3. CASE ~live
  <2>1. TRUE \notin given /\ TRUE \notin given' /\ FALSE \in given'
    BY <1>3
  <2>2. input_row_iterator = Nil /\ input_row_iterator' = Nil /\ row_id' = row_id
    BY <1>3, <2>1 DEF KeepsAccepted, Merge
  <2>3. data_buffer = accepted /\ id_buffer = RowIds(accepted)
    <3>1. CASE data_buffer # <<>>
      BY <3>1 DEF KeepsAccepted
    <3>2. CASE data_buffer = <<>>
      BY <3>2, <2>2, <1>1 DEF KeepsAccepted
    <3> QED BY <3>1, <3>2
  <2>4. data_buffer' = accepted' /\ id_buffer' = RowIds(accepted)'
    BY <1>0, <1>2, <1>3, <2>3 DEF Merge
  <2>5. ASSUME data_buffer' = <<>>
        PROVE  accepted' = <<>> /\ id_buffer' = <<>> /\ row_id' = Nil
    <3>1. accepted = <<>> /\ batch = <<>> /\ data_buffer = <<>>
      BY <1>0, <2>3, <2>4, <2>5
    <3>2. row_id = Nil
      BY <3>1, <2>2 DEF KeepsAccepted
    <3>3. RowIds(accepted) \o RowIds(batch) = <<>>
      BY <3>1, <1>0, <1>1
    <3> QED BY <3>1, <3>2, <3>3, <2>2, <2>4, <1>0, <1>2
  <2>6. ~use_custom_row_id' => row_id' = Nil
    BY <2>2 DEF KeepsAccepted
  <2> QED BY <2>1, <2>2, <2>4, <2>5, <2>6 DEF KeepsAccepted
<1>4. CASE live /\ input_row_iterator = Nil
  <2>1. FALSE \notin given /\ TRUE \in given'
    BY <1>4
  <2>2. data_buffer = <<>> /\ accepted = <<>> /\ id_buffer = <<>> /\ row_id = Nil
    BY <1>4, <2>1 DEF KeepsAccepted
  <2>3. /\ data_buffer' = <<>> /\ id_buffer' = <<>>
        /\ input_row_iterator' = batch /\ input_row_iterator' # Nil
        /\ row_id' = IF use_custom_row_id THEN batch ELSE Nil
    BY <1>4, <2>2 DEF Merge
  <2>4. accepted' = batch
    BY <2>2, <1>0
  <2> QED BY <2>1, <2>3, <2>4 DEF KeepsAccepted
<1>5. CASE live /\ input_row_iterator # Nil /\ data_buffer = <<>>
  <2>1. TRUE \in given'
    BY <1>5
  <2>2. /\ accepted = input_row_iterator /\ id_buffer = <<>>
        /\ row_id = IF use_custom_row_id THEN input_row_iterator ELSE Nil
    BY <1>5 DEF KeepsAccepted
  <2>3. UNCHANGED <<input_row_iterator, row_id>>
    BY <1>5 DEF Merge
  <2>4. data_buffer' = accepted'
    BY <1>5, <2>2 DEF Merge
  <2>5. id_buffer' = RowIds(accepted)'
    <3>1. CASE use_custom_row_id
      <4>1. row_id = accepted /\ row_id # Nil
        BY <3>1, <2>2, <1>5
      <4>2. id_buffer' = row_id \o batch
        BY <3>1, <4>1, <1>5 DEF Merge
      <4> QED BY <3>1, <4>1, <4>2 DEF RowIds
    <3>2. CASE ~use_custom_row_id
      BY <3>2, <2>2, <1>5 DEF Merge, RowIds
    <3> QED BY <3>1, <3>2
  <2>6. ASSUME data_buffer' = <<>>
        PROVE  accepted' = input_row_iterator' /\ id_buffer' = <<>>
    <3>1. accepted = <<>> /\ batch = <<>> /\ accepted' = <<>>
      BY <1>0, <2>4, <2>6
    <3>2. RowIds(accepted)' = <<>>
      BY <3>1, <1>2 DEF RowIds
    <3> QED BY <3>1, <3>2, <2>2, <2>3, <2>5
  <2>7. (~use_custom_row_id' => row_id' = Nil) /\ input_row_iterator' # Nil
        /\ row_id' = IF use_custom_row_id' THEN input_row_iterator' ELSE Nil
    BY <1>5, <2>2, <2>3
  <2> QED BY <2>1, <2>4, <2>5, <2>6, <2>7 DEF KeepsAccepted
<1>6. CASE live /\ input_row_iterator # Nil /\ data_buffer # <<>>
  <2>1. TRUE \in given'
    BY <1>6
  <2>2. data_buffer = accepted /\ id_buffer = RowIds(accepted) /\ accepted # <<>>
    BY <1>6 DEF KeepsAccepted
  <2>3. data_buffer' = accepted' /\ id_buffer' = RowIds(accepted)' /\ data_buffer' # <<>>
        /\ UNCHANGED <<input_row_iterator, row_id>>
    BY <1>0, <1>2, <1>6, <2>2 DEF Merge
  <2>4. ~use_custom_row_id' => row_id' = Nil
    BY <2>3 DEF KeepsAccepted
  <2> QED BY <1>6, <2>1, <2>3, <2>4 DEF KeepsAccepted
<1> QED BY <1>3, <1>4, <1>5, <1>6

-----------------------------------------------------------------------------
(***************************************************************************)
(* The steps keep the invariant                                            *)
(***************************************************************************)

LEMMA InitIInv == Init => IInv
<1> SUFFICES ASSUME Init PROVE IInv
  OBVIOUS
<1>1. Flags
  <2>1. 0 \in 0..MaxRows /\ 0 \in 0..MaxOpens
    BY IndexBuilderAssumption
  <2>2. FALSE \in BOOLEAN /\ {} \subseteq BOOLEAN
    OBVIOUS
  <2>3. {FALSE, FALSE, FALSE, FALSE, FALSE, FALSE} \subseteq BOOLEAN
    OBVIOUS
  <2> QED BY <2>1, <2>2, <2>3, Zenon DEF Init, Flags
<1>2. RowsInOrder
  <2>1. Ordered(<<>>, 1, 0)
    BY OrderedEmpty
  <2> QED BY <2>1, IsIndexEmpty DEF Init, RowsInOrder, Made
<1>3. Phases
  BY DEF Init, Phases
<1>4. CarefulInv
  BY DEF Init, CarefulInv, IndexIsComplete, FlushedIsComplete, IdsInRange
<1> QED BY <1>1, <1>2, <1>3, <1>4 DEF IInv

\* A client was careful if it still is.
LEMMA CarefulBefore ==
  ASSUME Careful', UNCHANGED with_buffer, nopens \in Nat, nopens' \in Nat,
         nopens <= nopens', given \subseteq given', given' \subseteq BOOLEAN,
         late \in BOOLEAN, late => late'
  PROVE  Careful
<1>1. CASE ~with_buffer
  BY <1>1 DEF Careful
<1>2. CASE with_buffer
  <2>1. nopens' <= 1 /\ given' # BOOLEAN /\ ~late'
    BY <1>2 DEF Careful
  <2>2. nopens <= 1 /\ ~late
    BY <2>1
  <2>3. given # BOOLEAN
    BY <2>1
  <2> QED BY <2>2, <2>3 DEF Careful
<1> QED BY <1>1, <1>2

LEMMA EnableIInv == IInv /\ EnableCustomRowId => IInv'
<1> SUFFICES ASSUME IInv, EnableCustomRowId PROVE IInv'
  OBVIOUS
<1>1. Flags'
  BY DEF IInv, Flags, EnableCustomRowId, history, buffers
<1>2. RowsInOrder'
  BY DEF IInv, RowsInOrder, Made, EnableCustomRowId, history, buffers
<1>3. Phases'
  BY DEF IInv, Phases, EnableCustomRowId, history, buffers
<1>4. CarefulInv'
  <2>1. ~is_opened' /\ (Careful' <=> Careful)
    BY DEF EnableCustomRowId, history, Careful
  <2>2. UNCHANGED <<index, file, promised>>
    BY DEF EnableCustomRowId, history
  <2> QED BY <2>1, <2>2 DEF IInv, CarefulInv, IndexIsComplete, FlushedIsComplete, IdsInRange
<1> QED BY <1>1, <1>2, <1>3, <1>4 DEF IInv

LEMMA CloseIInv == IInv /\ Close => IInv'
<1> SUFFICES ASSUME IInv, Close PROVE IInv'
  OBVIOUS
<1>1. Flags'
  BY DEF IInv, Flags, Close, history, buffers
<1>2. RowsInOrder'
  BY DEF IInv, RowsInOrder, Made, Close, history, buffers
<1>3. Phases'
  BY DEF IInv, Phases, Close, history, buffers
<1>4. CarefulInv'
  <2>1. ~is_opened' /\ (Careful' <=> Careful)
    BY DEF Close, history, Careful
  <2>2. UNCHANGED <<index, file, promised>>
    BY DEF Close, history
  <2> QED BY <2>1, <2>2 DEF IInv, CarefulInv, IndexIsComplete, FlushedIsComplete, IdsInRange
<1> QED BY <1>1, <1>2, <1>3, <1>4 DEF IInv

\* A careful client of the buffering builder opens it once, with empty buffers.
LEMMA OpenIInv ==
  ASSUME IInv, NEW in_memory \in BOOLEAN, Open(in_memory) PROVE IInv'
<1>0. /\ UNCHANGED <<data_buffer, id_buffer, input_row_iterator, row_id>>
      /\ UNCHANGED <<with_buffer, use_custom_row_id, file, crashed, nrows, promised, given, late>>
      /\ nopens' = nopens + 1 /\ nopens < MaxOpens
      /\ index' = <<>> /\ accepted' = <<>> /\ is_opened' = TRUE
      /\ is_trained' = ~with_buffer /\ ~crashed
  BY DEF Open, buffers
<1>1. Flags'
  <2>1. nopens' \in 0..MaxOpens
    BY <1>0, IndexBuilderAssumption DEF IInv, Flags
  <2> QED BY <1>0, <2>1 DEF IInv, Flags, Open
<1>2. RowsInOrder'
  <2>0. nrows \in Nat /\ 0 <= nrows
    BY GarbageType DEF IInv, Flags
  <2>1. IsIndex(index, nrows)'
    BY <1>0, <2>0, IsIndexEmpty, IsIndexWiden
  <2>2. Made(accepted)'
    BY <1>0, <2>0, OrderedEmpty DEF Made
  <2> QED BY <1>0, <2>1, <2>2 DEF IInv, RowsInOrder, Made
<1>3. Phases'
  <2>1. nopens' > 0 /\ nopens' # 0
    BY <1>0, IndexBuilderAssumption DEF IInv, Flags
  <2> QED BY <1>0, <2>1 DEF Phases
<1>4. CarefulInv'
  <2> SUFFICES ASSUME Careful'
               PROVE  /\ IndexIsComplete'
                      /\ FlushedIsComplete'
                      /\ (with_buffer /\ is_opened /\ ~is_trained /\ ~crashed => KeepsAccepted)'
                      /\ IdsInRange(index)'
                      /\ (file \notin {Nil, Torn} => IdsInRange(file))'
    BY DEF CarefulInv
  <2>1. Careful
    <3>1. nopens \in Nat /\ nopens' \in Nat /\ nopens <= nopens'
      BY <1>0, IndexBuilderAssumption DEF IInv, Flags
    <3> QED BY <1>0, <3>1, CarefulBefore DEF IInv, Flags
  <2>2. FlushedIsComplete' /\ (file \notin {Nil, Torn} => IdsInRange(file))'
    BY <1>0, <2>1 DEF IInv, CarefulInv, FlushedIsComplete, IdsInRange
  <2>3. IndexIsComplete' /\ IdsInRange(index)'
    BY <1>0 DEF IndexIsComplete, IndexOf, IdsInRange
  <2>4. ASSUME with_buffer PROVE KeepsAccepted'
    <3>1. nopens = 0
      BY <1>0, <2>4, IndexBuilderAssumption DEF Careful, IInv, Flags
    <3>2. /\ data_buffer = <<>> /\ id_buffer = <<>>
          /\ input_row_iterator = Nil /\ row_id = Nil
      BY <3>1 DEF IInv, Phases
    <3> QED BY <1>0, <3>2 DEF KeepsAccepted
  <2> QED BY <1>0, <2>2, <2>3, <2>4
<1> QED BY <1>1, <1>2, <1>3, <1>4 DEF IInv

\* The rows of a trained index are those accepted, also after a batch.
LEMMA AddToIndex ==
  ASSUME IInv, NEW batch, NEW b, NewRows(batch, b)
  PROVE  /\ IsIndex(AddBatch(index, batch), b)
         /\ IsIndex(AddWithIds(index, batch, batch), b)
         /\ index = IndexOf(accepted) =>
              /\ AddBatch(index, batch) = IndexOf(accepted \o batch)
              /\ use_custom_row_id =>
                   AddWithIds(index, batch, batch) = IndexOf(accepted \o batch)
         /\ IdsInRange(IndexOf(accepted \o batch))
<1>0. b \in Nat /\ nrows \in Nat /\ nrows <= b /\ b <= MaxRows /\ Ordered(batch, nrows + 1, b)
  BY DEF NewRows
<1>1. IsIndex(index, nrows) /\ Made(accepted) /\ use_custom_row_id \in BOOLEAN
  BY DEF IInv, RowsInOrder, Flags
<1>2. Ordered(batch, 1, b) /\ Ordered(accepted \o batch, 1, b)
  BY <1>1, NewRowsOrdered
<1>3. batch \in Seq(Nat) /\ accepted \in Seq(Nat)
  BY <1>1, <1>2 DEF Ordered, Made
<1>4. Bounded(batch)
  <2>1. \A i \in 1..Len(batch) : batch[i] \in Nat /\ batch[i] <= b
    BY <1>2, <1>3 DEF Ordered
  <2> QED BY <1>0, <1>3, <2>1, GarbageType DEF Bounded
<1>5. IsIndex(AddWithIds(index, batch, batch), b)
  BY <1>0, <1>1, <1>4, AddWithIdsIsIndex
<1>6. IsIndex(AddPlain(index, batch), b)
  BY <1>0, <1>1, AddPlainIsIndex
<1>7. IsIndex(AddBatch(index, batch), b)
  BY <1>5, <1>6 DEF AddBatch
<1>8. ASSUME index = IndexOf(accepted)
      PROVE  /\ AddBatch(index, batch) = IndexOf(accepted \o batch)
             /\ use_custom_row_id =>
                  AddWithIds(index, batch, batch) = IndexOf(accepted \o batch)
  <2>1. index = Complete(accepted, use_custom_row_id)
    BY <1>8, CompleteIsIndexOf
  <2>2. IndexOf(accepted \o batch) = Complete(accepted \o batch, use_custom_row_id)
    BY CompleteIsIndexOf
  <2>3. CASE use_custom_row_id
    <3>1. use_custom_row_id = TRUE
      BY <1>1, <2>3
    <3> QED BY <1>3, <2>1, <2>2, <3>1, CompleteConcat DEF AddBatch
  <2>4. CASE ~use_custom_row_id
    <3>1. use_custom_row_id = FALSE
      BY <1>1, <2>4
    <3> QED BY <1>3, <2>1, <2>2, <3>1, CompleteConcat DEF AddBatch
  <2> QED BY <2>3, <2>4
<1>9. IdsInRange(IndexOf(accepted \o batch))
  BY <1>0, <1>1, <1>2, CompleteInRange, CompleteIsIndexOf
<1> QED BY <1>5, <1>7, <1>8, <1>9

\* What does not get the new rows stays in order.
LEMMA OthersInOrder ==
  ASSUME IInv, nrows' \in Nat, nrows <= nrows'
  PROVE  /\ \A s : Made(s) => Ordered(s, 1, nrows')
         /\ IsIndex(index, nrows')
         /\ file \in {Nil, Torn} \/ IsIndex(file, nrows')
<1>1. nrows \in Nat
  BY GarbageType DEF IInv, Flags
<1>2. \A s : Made(s) => Ordered(s, 1, nrows')
  BY <1>1, OrderedWiden DEF Made
<1>3. IsIndex(index, nrows) /\ (file \in {Nil, Torn} \/ IsIndex(file, nrows))
  BY DEF IInv, RowsInOrder
<1> QED BY <1>1, <1>2, <1>3, IsIndexWiden

LEMMA AddIInv ==
  ASSUME IInv, NEW n \in Nat, NEW live \in BOOLEAN, Add(n, live) PROVE IInv'
<1> DEFINE batch == Batch(n)
<1>0. /\ CanAdd(n) /\ AddWithRowIds(batch, live)
      /\ nrows' = nrows + n /\ accepted' = accepted \o batch
      /\ given' = given \cup {live}
      /\ UNCHANGED <<with_buffer, is_opened, is_closed, use_custom_row_id, memory_only>>
      /\ UNCHANGED <<is_trained, file, nopens, promised, late>>
  BY DEF Add, mode
<1>1. NewRows(batch, nrows')
  BY <1>0, BatchIsNew DEF IInv
<1> HIDE DEF batch
<1>2. nrows \in Nat /\ nrows' \in Nat /\ nrows <= nrows' /\ nrows' <= MaxRows
  BY <1>1 DEF NewRows
<1>3. batch \in Seq(Nat) /\ batch # Nil /\ Made(accepted)' /\ accepted \in Seq(Nat)
  <2>1. Made(accepted)
    BY DEF IInv, RowsInOrder
  <2>2. Ordered(batch, 1, nrows') /\ batch # Nil /\ Ordered(accepted \o batch, 1, nrows')
    BY <1>1, <2>1, NewRowsOrdered
  <2> QED BY <1>0, <2>1, <2>2 DEF Made, Ordered
<1>4. is_opened /\ ~crashed /\ nopens > 0
  BY <1>0 DEF CanAdd, IInv, Phases
<1>5. nopens # 0
  BY <1>4, IndexBuilderAssumption DEF IInv, Flags
<1>6. ASSUME Careful' PROVE Careful
  <2>1. nopens \in Nat /\ nopens' \in Nat /\ nopens <= nopens'
    BY <1>0, IndexBuilderAssumption DEF IInv, Flags
  <2>2. given \subseteq given' /\ given' \subseteq BOOLEAN /\ late \in BOOLEAN
    BY <1>0 DEF IInv, Flags
  <2> QED BY <1>0, <1>6, <2>1, <2>2, CarefulBefore
<1>7. ASSUME Careful'
      PROVE  FlushedIsComplete' /\ (file \notin {Nil, Torn} => IdsInRange(file))'
  BY <1>0, <1>6, <1>7 DEF IInv, CarefulInv, FlushedIsComplete, IdsInRange
<1>8. /\ crashed' \in BOOLEAN => Flags'
      /\ \A s : Made(s) => Ordered(s, 1, nrows')
      /\ file' \in {Nil, Torn} \/ IsIndex(file', nrows')
      /\ Made(promised)'
  <2>1. /\ \A s : Made(s) => Ordered(s, 1, nrows')
        /\ file \in {Nil, Torn} \/ IsIndex(file, nrows')
    BY <1>2, OthersInOrder
  <2>2. Made(promised)
    BY DEF IInv, RowsInOrder
  <2>3. nrows' \in 0..MaxRows
    BY <1>2, GarbageType
  <2>4. given' \subseteq BOOLEAN
    BY <1>0 DEF IInv, Flags
  <2>5. crashed' \in BOOLEAN => Flags'
    BY <1>0, <2>3, <2>4 DEF IInv, Flags
  <2> QED BY <1>0, <2>1, <2>2, <2>5 DEF Made
<1>9. CASE is_trained
  <2>1. index' = AddBatch(index, batch) /\ UNCHANGED crashed
        /\ UNCHANGED <<data_buffer, id_buffer, input_row_iterator, row_id>>
    BY <1>0, <1>9 DEF AddWithRowIds, buffers
  <2>2. Flags'
    BY <1>8, <2>1 DEF IInv, Flags
  <2>3. RowsInOrder'
    <3>1. IsIndex(index, nrows)'
      BY <1>1, <2>1, AddToIndex
    <3> QED BY <1>3, <1>8, <2>1, <3>1 DEF IInv, RowsInOrder, Made
  <2>4. Phases'
    BY <1>0, <1>4, <1>5, <1>9, <2>1 DEF IInv, Phases
  <2>5. CarefulInv'
    <3>1. ASSUME Careful' PROVE index' = IndexOf(accepted)' /\ IdsInRange(index)'
      <4>1. index = IndexOf(accepted)
        BY <1>4, <1>6, <1>9, <3>1 DEF IInv, CarefulInv, IndexIsComplete
      <4>2. index' = IndexOf(accepted \o batch) /\ IdsInRange(IndexOf(accepted \o batch))
        BY <1>1, <2>1, <4>1, AddToIndex
      <4>3. IndexOf(accepted)' = IndexOf(accepted \o batch)
        BY <1>0 DEF IndexOf
      <4> QED BY <4>2, <4>3 DEF IdsInRange
    <3> QED BY <1>0, <1>7, <1>9, <3>1 DEF CarefulInv, IndexIsComplete
  <2> QED BY <2>2, <2>3, <2>4, <2>5 DEF IInv
<1>10. CASE ~is_trained
  <2>1. Merge(batch, live) /\ index' = index
    BY <1>0, <1>10 DEF AddWithRowIds
  <2>2. crashed' \in BOOLEAN
    <3>1. crashed' = TRUE \/ crashed' = crashed
      BY <2>1 DEF Merge
    <3> QED BY <3>1 DEF IInv, Flags
  <2>3. Flags'
    BY <1>8, <2>2
  <2>4. RowsInOrder'
    <3>1. IsIndex(index, nrows)'
      BY <1>2, <2>1, OthersInOrder
    <3>2. /\ Made(data_buffer)' /\ Made(id_buffer)'
          /\ input_row_iterator' = Nil \/ Made(input_row_iterator)'
          /\ row_id' = Nil \/ Made(row_id)'
      BY <1>1, <2>1, MergeInOrder DEF IInv
    <3> QED BY <1>3, <1>8, <3>1, <3>2 DEF RowsInOrder
  <2>5. with_buffer
    BY <1>4, <1>10 DEF IInv, Phases
  <2>6. Phases'
    BY <1>0, <1>4, <1>5, <1>10, <2>1, <2>5 DEF IInv, Phases
  <2>7. CarefulInv'
    <3>1. ASSUME Careful' PROVE IdsInRange(index)'
      BY <1>6, <2>1, <3>1 DEF IInv, CarefulInv, IdsInRange
    <3>2. ASSUME Careful', ~crashed' PROVE KeepsAccepted'
      <4>1. KeepsAccepted
        BY <1>4, <1>6, <1>10, <2>5, <3>2 DEF IInv, CarefulInv
      <4>2. given' # BOOLEAN
        BY <1>0, <2>5, <3>2 DEF Careful
      <4>3. /\ given \subseteq BOOLEAN /\ use_custom_row_id \in BOOLEAN
            /\ input_row_iterator = Nil \/ input_row_iterator \in Seq(Nat)
        BY DEF IInv, Flags, RowsInOrder, Made, Ordered
      <4> QED BY <1>0, <1>3, <2>1, <3>2, <4>1, <4>2, <4>3, MergeKeepsAccepted
    <3> QED BY <1>0, <1>7, <1>10, <3>1, <3>2 DEF CarefulInv, IndexIsComplete
  <2> QED BY <2>3, <2>4, <2>6, <2>7 DEF IInv
<1> QED BY <1>9, <1>10

LEMMA AddNullableIInv ==
  ASSUME IInv, NEW n \in Nat, NEW nulls, AddNullable(n, nulls) PROVE IInv'
<1> DEFINE rows == NotNull(n, nulls)
<1>0. /\ CanAdd(n) /\ use_custom_row_id
      /\ nrows' = nrows + n /\ accepted' = accepted \o rows
      /\ given' = given \cup {FALSE} /\ late' = (late \/ is_trained)
      /\ UNCHANGED <<with_buffer, is_opened, is_closed, use_custom_row_id, memory_only>>
      /\ UNCHANGED <<is_trained, input_row_iterator, row_id, file, crashed, nopens, promised>>
  BY DEF AddNullable, mode
<1>1. \/ /\ with_buffer
         /\ data_buffer' = data_buffer \o rows
         /\ id_buffer' = id_buffer \o rows
         /\ UNCHANGED index
      \/ /\ ~with_buffer
         /\ index' = AddWithIds(index, rows, rows)
         /\ UNCHANGED <<data_buffer, id_buffer>>
  BY DEF AddNullable
<1>2. NewRows(rows, nrows')
  BY <1>0, NotNullIsNew DEF IInv
<1> HIDE DEF rows
<1>3. nrows \in Nat /\ nrows' \in Nat /\ nrows <= nrows' /\ nrows' <= MaxRows
  BY <1>2 DEF NewRows
<1>4. \A s : Made(s) => Ordered(s \o rows, 1, nrows') /\ Ordered(s, 1, nrows')
  BY <1>2, NewRowsOrdered
<1>5. rows \in Seq(Nat) /\ accepted \in Seq(Nat) /\ Made(accepted)'
  BY <1>0, <1>2, <1>4, NewRowsOrdered DEF IInv, RowsInOrder, Made, Ordered
<1>6. is_opened /\ ~crashed /\ nopens > 0
  BY <1>0 DEF CanAdd, IInv, Phases
<1>7. nopens # 0
  BY <1>6, IndexBuilderAssumption DEF IInv, Flags
<1>8. Flags'
  <2>1. nrows' \in 0..MaxRows
    BY <1>3, GarbageType
  <2>2. given' \subseteq BOOLEAN /\ late' \in BOOLEAN
    BY <1>0 DEF IInv, Flags
  <2> QED BY <1>0, <2>1, <2>2 DEF IInv, Flags
<1>9. RowsInOrder'
  <2>1. IsIndex(index, nrows')
    BY <1>3, OthersInOrder
  <2>2. file' \in {Nil, Torn} \/ IsIndex(file', nrows')
    BY <1>0, <1>3, OthersInOrder
  <2>3. IsIndex(index, nrows)'
    BY <1>1, <1>2, <2>1, AddToIndex
  <2>4. Made(data_buffer)' /\ Made(id_buffer)'
    BY <1>1, <1>4 DEF IInv, RowsInOrder, Made
  <2>5. Made(promised)' /\ (input_row_iterator' = Nil \/ Made(input_row_iterator)')
        /\ (row_id' = Nil \/ Made(row_id)')
    BY <1>0, <1>4 DEF IInv, RowsInOrder, Made
  <2> QED BY <1>5, <2>2, <2>3, <2>4, <2>5 DEF RowsInOrder
<1>10. Phases'
  <2>1. ~is_trained' => index' = <<>>
    <3>1. ~is_trained => with_buffer /\ index = <<>>
      BY <1>6 DEF IInv, Phases
    <3> QED BY <1>0, <1>1, <3>1
  <2> QED BY <1>0, <1>6, <1>7, <2>1 DEF IInv, Phases
<1>11. CarefulInv'
  <2> SUFFICES ASSUME Careful'
               PROVE  /\ IndexIsComplete'
                      /\ FlushedIsComplete'
                      /\ (with_buffer /\ is_opened /\ ~is_trained /\ ~crashed => KeepsAccepted)'
                      /\ IdsInRange(index)'
                      /\ (file \notin {Nil, Torn} => IdsInRange(file))'
    BY DEF CarefulInv
  <2>1. Careful
    <3>1. nopens \in Nat /\ nopens' \in Nat /\ nopens <= nopens'
      BY <1>0, IndexBuilderAssumption DEF IInv, Flags
    <3>2. given \subseteq given' /\ given' \subseteq BOOLEAN /\ late \in BOOLEAN /\ (late => late')
      BY <1>0 DEF IInv, Flags
    <3> QED BY <1>0, <3>1, <3>2, CarefulBefore
  <2>2. FlushedIsComplete' /\ (file \notin {Nil, Torn} => IdsInRange(file))'
    BY <1>0, <2>1 DEF IInv, CarefulInv, FlushedIsComplete, IdsInRange
  <2>3. CASE ~with_buffer
    <3>1. is_trained
      BY <1>6, <2>3 DEF IInv, Phases
    <3>2. index = IndexOf(accepted)
      BY <1>6, <2>1, <3>1 DEF IInv, CarefulInv, IndexIsComplete
    <3>3. index' = IndexOf(accepted \o rows) /\ IdsInRange(IndexOf(accepted \o rows))
      BY <1>0, <1>1, <1>2, <2>3, <3>2, AddToIndex
    <3>4. IndexOf(accepted)' = IndexOf(accepted \o rows)
      BY <1>0 DEF IndexOf
    <3> QED BY <1>0, <2>2, <2>3, <3>3, <3>4 DEF IndexIsComplete, IdsInRange
  <2>4. CASE with_buffer
    <3>1. ~is_trained /\ TRUE \notin given
      <4>1. ~late' /\ given' # BOOLEAN
        BY <1>0, <2>4 DEF Careful
      <4>2. given \subseteq BOOLEAN
        BY DEF IInv, Flags
      <4> QED BY <1>0, <4>1, <4>2
    <3>2. KeepsAccepted
      BY <1>6, <2>1, <2>4, <3>1 DEF IInv, CarefulInv
    <3>3. data_buffer = accepted /\ id_buffer = accepted /\ input_row_iterator = Nil
      BY <1>0, <3>1, <3>2 DEF KeepsAccepted, RowIds
    <3>4. data_buffer' = accepted' /\ id_buffer' = accepted' /\ index' = index
      BY <1>0, <1>1, <2>4, <3>3
    <3>5. ASSUME data_buffer' = <<>> PROVE row_id' = Nil
      <4>0. accepted \o rows = <<>>
        BY <1>0, <3>4, <3>5
      <4>1. accepted = <<>>
        BY <1>5, <4>0, ConcatEqualIffEmpty
      <4> QED BY <1>0, <3>2, <3>3, <4>1 DEF KeepsAccepted
    <3>6. TRUE \notin given' /\ FALSE \in given'
      BY <1>0, <3>1
    <3>7. KeepsAccepted'
      BY <1>0, <3>3, <3>4, <3>5, <3>6 DEF KeepsAccepted, RowIds
    <3>8. IdsInRange(index)' /\ IndexIsComplete'
      BY <1>0, <2>1, <3>1, <3>4 DEF IInv, CarefulInv, IndexIsComplete, IdsInRange
    <3> QED BY <2>2, <3>7, <3>8
  <2> QED BY <2>3, <2>4
<1> QED BY <1>8, <1>9, <1>10, <1>11 DEF IInv

\* WriteIndex of an index that is complete leaves a file that is complete, is
\* the one that was there, or is not finished.
LEMMA WriteInv ==
  ASSUME IInv, NEW idx, WriteIndex(idx), IsIndex(idx, nrows),
         UNCHANGED <<nrows, accepted>>, Careful' => Careful,
         Careful' => idx = IndexOf(accepted)
  PROVE  /\ file' \in {Nil, Torn} \/ IsIndex(file', nrows')
         /\ Made(promised)'
         /\ Careful' => FlushedIsComplete' /\ (file \notin {Nil, Torn} => IdsInRange(file))'
<1>0. /\ Made(accepted) /\ Made(promised) /\ (file \in {Nil, Torn} \/ IsIndex(file, nrows))
      /\ nrows \in Nat /\ nrows <= MaxRows /\ use_custom_row_id \in BOOLEAN
  BY GarbageType DEF IInv, RowsInOrder, Flags
<1>1. CASE UNCHANGED <<file, promised>>
  <2>1. ASSUME Careful'
        PROVE  FlushedIsComplete' /\ (file \notin {Nil, Torn} => IdsInRange(file))'
    <3>1. FlushedIsComplete /\ (file \notin {Nil, Torn} => IdsInRange(file))
      BY <2>1 DEF IInv, CarefulInv
    <3> QED BY <1>1, <3>1 DEF FlushedIsComplete, IdsInRange
  <2> QED BY <1>0, <1>1, <2>1 DEF Made
<1>2. CASE file' = idx /\ promised' = accepted
  <2>1. ASSUME Careful'
        PROVE  FlushedIsComplete' /\ (file \notin {Nil, Torn} => IdsInRange(file))'
    <3>1. idx = Complete(accepted, use_custom_row_id)
      BY <2>1, CompleteIsIndexOf
    <3>2. Ordered(accepted, 1, nrows) /\ accepted \in Seq(Nat)
      BY <1>0 DEF Made, Ordered
    <3>3. Vectors(idx) = accepted
      BY <1>0, <3>1, <3>2, CompletePairs
    <3>4. IdsInRange(idx)
      BY <1>0, <3>1, <3>2, CompleteInRange
    <3> QED BY <1>2, <3>3, <3>4 DEF FlushedIsComplete, Vectors, IdsInRange
  <2> QED BY <1>0, <1>2, <2>1 DEF Made
<1>3. CASE file' = Torn /\ UNCHANGED promised
  BY <1>0, <1>3 DEF FlushedIsComplete, Made
<1> QED BY <1>1, <1>2, <1>3 DEF WriteIndex

LEMMA FlushTrainedIInv == IInv /\ FlushTrained => IInv'
<1> SUFFICES ASSUME IInv, FlushTrained PROVE IInv'
  OBVIOUS
<1>0. /\ ~crashed /\ is_opened /\ is_trained /\ WriteIndex(index)
      /\ UNCHANGED <<with_buffer, is_opened, is_closed, use_custom_row_id, memory_only>>
      /\ UNCHANGED <<data_buffer, id_buffer, input_row_iterator, row_id>>
      /\ UNCHANGED <<is_trained, index, crashed, nrows, nopens, accepted, given, late>>
  BY DEF FlushTrained, mode, buffers
<1>1. Careful' <=> Careful
  BY <1>0 DEF Careful
<1>2. Careful => index = IndexOf(accepted)
  BY <1>0 DEF IInv, CarefulInv, IndexIsComplete
<1>3. /\ file' \in {Nil, Torn} \/ IsIndex(file', nrows')
      /\ Made(promised)'
      /\ Careful' => FlushedIsComplete' /\ (file \notin {Nil, Torn} => IdsInRange(file))'
  <2>1. IsIndex(index, nrows)
    BY DEF IInv, RowsInOrder
  <2> QED BY <1>0, <1>1, <1>2, <2>1, WriteInv
<1>4. Flags'
  BY <1>0 DEF IInv, Flags
<1>5. RowsInOrder'
  BY <1>0, <1>3 DEF IInv, RowsInOrder, Made
<1>6. Phases'
  BY <1>0 DEF IInv, Phases
<1>7. CarefulInv'
  <2>1. IndexOf(accepted)' = IndexOf(accepted)
    BY <1>0 DEF IndexOf
  <2>2. Careful' => IdsInRange(index)'
    BY <1>0, <1>1 DEF IInv, CarefulInv, IdsInRange
  <2>3. Careful' => IndexIsComplete'
    BY <1>0, <1>1, <1>2, <2>1 DEF IndexIsComplete
  <2> QED BY <1>0, <1>3, <2>2, <2>3 DEF CarefulInv
<1> QED BY <1>4, <1>5, <1>6, <1>7 DEF IInv

\* The rows that Flush trains with and adds, and their ids: for a careful client
\* they are the accepted rows.
LEMMA TrainingIsAccepted ==
  ASSUME KeepsAccepted, TrainingRows # Nil, accepted # Nil,
         use_custom_row_id \in BOOLEAN
  PROVE  /\ TrainingRows = accepted
         /\ use_custom_row_id => FlushRowId = accepted
         /\ ~use_custom_row_id => FlushRowId = Nil
<1>1. CASE data_buffer # <<>>
  BY <1>1 DEF KeepsAccepted, TrainingRows, FlushRowId, RowIds
<1>2. CASE data_buffer = <<>>
  BY <1>2 DEF KeepsAccepted, TrainingRows, FlushRowId, RowIds
<1> QED BY <1>1, <1>2

LEMMA FlushUntrainedIInv == IInv /\ FlushUntrained => IInv'
<1> SUFFICES ASSUME IInv, FlushUntrained PROVE IInv'
  OBVIOUS
<1>0. /\ ~crashed /\ is_opened /\ ~is_trained /\ TrainingRows # Nil
      /\ row_id' = FlushRowId
      /\ UNCHANGED <<with_buffer, is_opened, is_closed, use_custom_row_id, memory_only>>
      /\ UNCHANGED <<data_buffer, id_buffer, input_row_iterator, crashed, nrows,
                     nopens, accepted, given, late>>
  BY DEF FlushUntrained, mode
<1>1. (Careful' <=> Careful) /\ IndexOf(accepted)' = IndexOf(accepted)
  BY <1>0 DEF Careful, IndexOf
<1>2. /\ nrows \in Nat /\ nrows <= MaxRows /\ use_custom_row_id \in BOOLEAN
      /\ with_buffer /\ index = <<>>
      /\ Made(accepted) /\ Made(promised) /\ Made(data_buffer) /\ Made(id_buffer)
      /\ input_row_iterator = Nil \/ Made(input_row_iterator)
      /\ row_id = Nil \/ Made(row_id)
      /\ file \in {Nil, Torn} \/ IsIndex(file, nrows)
  BY <1>0, GarbageType DEF IInv, Flags, RowsInOrder, Phases
<1>3. Made(TrainingRows) /\ (FlushRowId = Nil \/ Made(FlushRowId))
  BY <1>0, <1>2 DEF TrainingRows, FlushRowId
<1>4. accepted # Nil /\ accepted \in Seq(Nat)
  BY <1>2, OrderedIsNotNil DEF Made, Ordered
<1>5. Careful =>
        /\ KeepsAccepted
        /\ TrainingRows = accepted
        /\ use_custom_row_id => FlushRowId = accepted
        /\ ~use_custom_row_id => FlushRowId = Nil
  <2>1. Careful => KeepsAccepted
    BY <1>0, <1>2 DEF IInv, CarefulInv
  <2> QED BY <1>0, <1>2, <1>4, <2>1, TrainingIsAccepted
<1>6. CASE Len(TrainingRows) < MinTrain /\ UNCHANGED <<is_trained, index, file, promised>>
  <2>1. Flags'
    BY <1>0, <1>6 DEF IInv, Flags
  <2>2. RowsInOrder'
    BY <1>0, <1>3, <1>6 DEF IInv, RowsInOrder, Made
  <2>3. Phases'
    <3>1. nopens # 0
      BY <1>0, IndexBuilderAssumption DEF IInv, Phases, Flags
    <3> QED BY <1>0, <1>6, <3>1 DEF IInv, Phases
  <2>4. CarefulInv'
    <3> SUFFICES ASSUME Careful'
                 PROVE  /\ IndexIsComplete'
                        /\ FlushedIsComplete'
                        /\ KeepsAccepted'
                        /\ IdsInRange(index)'
                        /\ (file \notin {Nil, Torn} => IdsInRange(file))'
      BY DEF CarefulInv
    <3>1. IndexIsComplete' /\ FlushedIsComplete' /\ IdsInRange(index)'
          /\ (file \notin {Nil, Torn} => IdsInRange(file))'
      BY <1>0, <1>1, <1>6 DEF IInv, CarefulInv, IndexIsComplete, FlushedIsComplete, IdsInRange
    <3>2. ASSUME data_buffer = <<>>
          PROVE  row_id' = IF use_custom_row_id THEN input_row_iterator ELSE Nil
      BY <1>0, <1>1, <1>5, <3>2 DEF KeepsAccepted, FlushRowId
    <3>3. ~use_custom_row_id => row_id' = Nil
      BY <1>0, <1>1, <1>5
    <3>4. RowIds(accepted)' = RowIds(accepted)
      BY <1>0 DEF RowIds
    <3>5. KeepsAccepted'
      BY <1>0, <1>1, <1>5, <3>2, <3>3, <3>4 DEF KeepsAccepted
    <3> QED BY <3>1, <3>5
  <2> QED BY <2>1, <2>2, <2>3, <2>4 DEF IInv
<1>7. CASE /\ is_trained' = TRUE
           /\ index' = IF FlushRowId # Nil
                       THEN AddWithIds(index, TrainingRows, FlushRowId)
                       ELSE AddPlain(index, TrainingRows)
           /\ WriteIndex(index')
  <2>1. IsIndex(index', nrows)
    <3>1. IsIndex(index, 0) /\ 0 <= nrows /\ 0 \in Nat /\ Ordered(TrainingRows, 0 + 1, nrows)
      BY <1>2, <1>3, IsIndexEmpty DEF Made
    <3>2. CASE FlushRowId # Nil
      <4>1. Bounded(FlushRowId)
        <5>1. FlushRowId \in Seq(Nat) /\ \A i \in 1..Len(FlushRowId) : FlushRowId[i] <= nrows
          BY <1>3, <3>2 DEF Made, Ordered
        <5>2. \A i \in 1..Len(FlushRowId) : FlushRowId[i] \in Nat
          BY <5>1
        <5>3. \A i \in 1..Len(FlushRowId) : FlushRowId[i] <= Garbage
          BY <1>2, <5>1, <5>2, GarbageType
        <5> QED BY <5>1, <5>3 DEF Bounded
      <4> QED BY <1>2, <1>7, <3>1, <3>2, <4>1, AddWithIdsIsIndex
    <3>3. CASE FlushRowId = Nil
      BY <1>2, <1>7, <3>1, <3>3, AddPlainIsIndex
    <3> QED BY <3>2, <3>3
  <2>2. Careful => index' = IndexOf(accepted)
    <3> SUFFICES ASSUME Careful PROVE index' = IndexOf(accepted)
      OBVIOUS
    <3>1. IndexOf(accepted) = Complete(accepted, use_custom_row_id)
      BY CompleteIsIndexOf
    <3>2. CASE use_custom_row_id
      <4>1. index' = AddWithIds(<<>>, accepted, accepted)
        BY <1>2, <1>4, <1>5, <1>7, <3>2
      <4>2. use_custom_row_id = TRUE
        BY <1>2, <3>2
      <4> QED BY <1>4, <3>1, <4>1, <4>2, CompleteFirst
    <3>3. CASE ~use_custom_row_id
      <4>1. index' = AddPlain(<<>>, accepted)
        BY <1>2, <1>5, <1>7, <3>3
      <4>2. use_custom_row_id = FALSE
        BY <1>2, <3>3
      <4> QED BY <1>4, <3>1, <4>1, <4>2, CompleteFirst
    <3> QED BY <3>2, <3>3
  <2>3. /\ file' \in {Nil, Torn} \/ IsIndex(file', nrows')
        /\ Made(promised)'
        /\ Careful' => FlushedIsComplete' /\ (file \notin {Nil, Torn} => IdsInRange(file))'
    BY <1>0, <1>1, <1>7, <2>1, <2>2, WriteInv
  <2>4. Flags'
    BY <1>0, <1>7 DEF IInv, Flags
  <2>5. RowsInOrder'
    BY <1>0, <1>2, <1>3, <2>1, <2>3 DEF RowsInOrder, Made
  <2>6. Phases'
    <3>1. nopens # 0
      BY <1>0, IndexBuilderAssumption DEF IInv, Phases, Flags
    <3> QED BY <1>0, <1>7, <3>1 DEF IInv, Phases
  <2>7. CarefulInv'
    <3>1. ASSUME Careful PROVE IdsInRange(index)'
      <4>1. IdsInRange(IndexOf(accepted))
        BY <1>2, CompleteIsIndexOf, CompleteInRange DEF Made
      <4> QED BY <2>2, <3>1, <4>1 DEF IdsInRange
    <3> QED BY <1>1, <1>7, <2>2, <2>3, <3>1 DEF CarefulInv, IndexIsComplete
  <2> QED BY <2>4, <2>5, <2>6, <2>7 DEF IInv
<1> QED BY <1>6, <1>7 DEF FlushUntrained

LEMMA FlushNothingIInv == IInv /\ FlushNothing => IInv'
<1> SUFFICES ASSUME IInv, FlushNothing PROVE IInv'
  OBVIOUS
<1>0. /\ ~is_trained /\ is_opened /\ crashed' = TRUE
      /\ UNCHANGED <<with_buffer, is_opened, is_closed, use_custom_row_id, memory_only>>
      /\ UNCHANGED <<data_buffer, id_buffer, input_row_iterator, row_id>>
      /\ UNCHANGED <<is_trained, index, file, nrows, nopens, accepted, promised, given, late>>
  BY DEF FlushNothing, mode, buffers, history
<1>1. Flags'
  BY <1>0 DEF IInv, Flags
<1>2. RowsInOrder'
  BY <1>0 DEF IInv, RowsInOrder, Made
<1>3. Phases'
  BY <1>0 DEF IInv, Phases
<1>4. CarefulInv'
  <2>1. Careful' <=> Careful
    BY <1>0 DEF Careful
  <2> QED BY <1>0, <2>1 DEF IInv, CarefulInv, IndexIsComplete, FlushedIsComplete, IdsInRange
<1> QED BY <1>1, <1>2, <1>3, <1>4 DEF IInv

LEMMA NextIInv == IInv /\ [Next]_vars => IInv'
<1> SUFFICES ASSUME IInv, [Next]_vars PROVE IInv'
  OBVIOUS
<1>0. BatchSizes \subseteq Nat /\ Live \subseteq BOOLEAN
  BY IndexBuilderAssumption
<1>1. ASSUME NEW in_memory \in BOOLEAN, Open(in_memory) PROVE IInv'
  BY <1>1, OpenIInv
<1>2. ASSUME NEW n \in BatchSizes, NEW live \in Live, Add(n, live) PROVE IInv'
  BY <1>0, <1>2, AddIInv
<1>3. ASSUME NEW n \in BatchSizes, NEW nulls \in SUBSET (1..n), AddNullable(n, nulls)
      PROVE  IInv'
  BY <1>0, <1>3, AddNullableIInv
<1>4. CASE UNCHANGED vars
  <2>1. /\ Flags' /\ RowsInOrder' /\ Phases'
    BY <1>4 DEF IInv, vars, Flags, RowsInOrder, Made, Phases
  <2>2. CarefulInv'
    BY <1>4 DEF IInv, vars, CarefulInv, Careful, IndexIsComplete, IndexOf,
                FlushedIsComplete, KeepsAccepted, RowIds, IdsInRange
  <2> QED BY <2>1, <2>2 DEF IInv
<1> QED BY <1>1, <1>2, <1>3, <1>4, EnableIInv, CloseIInv, FlushTrainedIInv,
           FlushUntrainedIInv, FlushNothingIInv DEF Next

-----------------------------------------------------------------------------
(***************************************************************************)
(* The theorems                                                            *)
(***************************************************************************)

\* Whatever clients do with Open, Add, Flush and Close, the buffers and the
\* index keep the order of the rows; and as long as a client is careful the
\* buffers of an untrained index hold the accepted rows.
THEOREM BuilderInvariant == Spec => []IInv
BY InitIInv, NextIInv, PTL DEF Spec

\* The members of the builders keep their types, and Flush passes row ids from
\* behind the end of their array to faiss only for a client that is not careful.
THEOREM BuilderTypeCorrect == Spec => []TypeOK
<1>1. IInv => TypeOK
  <2> SUFFICES ASSUME IInv PROVE TypeOK
    OBVIOUS
  <2>0. nrows \in Nat /\ nrows <= MaxRows /\ MaxRows \in Nat
    BY GarbageType DEF IInv, Flags
  <2>1. ASSUME NEW s, Made(s) PROVE s \in Seq(Row)
    <3>1. s \in Seq(Nat) /\ Len(s) \in Nat /\ s \in [1..Len(s) -> Nat]
      BY <2>1 DEF Made, Ordered
    <3>2. \A i \in 1..Len(s) : 1 <= s[i] /\ s[i] <= nrows
      BY <2>1 DEF Made, Ordered
    <3>3. \A i \in 1..Len(s) : s[i] \in Row
      BY <2>0, <3>1, <3>2 DEF Row
    <3>4. s \in [1..Len(s) -> Row]
      BY <3>1, <3>3
    <3> QED BY <3>1, <3>4, FunctionIsSeq
  <2>2. ASSUME NEW idx, IsIndex(idx, nrows), Careful => IdsInRange(idx) PROVE idx \in Pairs
    <3>0. idx \in Seq(Nat \X Nat) /\ Len(idx) \in Nat
          /\ idx \in [1..Len(idx) -> Nat \X Nat]
      BY <2>2 DEF IsIndex
    <3>1. Vectors(idx) \in Seq(Row)
      BY <2>1, <2>2 DEF IsIndex, Made
    <3>2. Len(Vectors(idx)) = Len(idx)
      BY <3>0, VectorsConcat
    <3> DEFINE Ids == IF Careful THEN 0..MaxRows ELSE 0..Garbage
    <3>3. ASSUME NEW i \in 1..Len(idx) PROVE idx[i] \in Row \X Ids
      <4>1. Vectors(idx)[i] \in Row
        BY <3>1, <3>2, ElementOfSeq
      <4>2. idx[i][1] \in Row
        BY <4>1 DEF Vectors
      <4>3. idx[i] \in Nat \X Nat
        BY <3>0
      <4>4. idx[i][2] <= Garbage /\ (Careful => idx[i][2] <= MaxRows)
        BY <2>2 DEF IsIndex, IdsInRange
      <4>5. idx[i][2] \in Ids
        BY <4>3, <4>4, GarbageType
      <4>6. idx[i] = <<idx[i][1], idx[i][2]>>
        BY <4>3
      <4> HIDE DEF Ids
      <4> QED BY <4>2, <4>5, <4>6
    <3>4. idx \in [1..Len(idx) -> Row \X Ids]
      <4> HIDE DEF Ids
      <4> QED BY <3>0, <3>3
    <3>5. idx \in Seq(Row \X Ids)
      <4> HIDE DEF Ids
      <4> QED BY <3>0, <3>4, FunctionIsSeq
    <3> QED BY <3>5 DEF Pairs
  <2>3. index \in Pairs
    BY <2>2 DEF IInv, RowsInOrder, CarefulInv
  <2>4. file \in {Nil, Torn} \/ file \in Pairs
    BY <2>2 DEF IInv, RowsInOrder, CarefulInv
  <2>5. /\ data_buffer \in Seq(Row) /\ id_buffer \in Seq(Row)
        /\ input_row_iterator = Nil \/ input_row_iterator \in Seq(Row)
        /\ row_id = Nil \/ row_id \in Seq(Row)
        /\ accepted \in Seq(Row) /\ promised \in Seq(Row)
    BY <2>1 DEF IInv, RowsInOrder
  <2> QED BY <2>3, <2>4, <2>5 DEF IInv, Flags, TypeOK
<1> QED BY <1>1, BuilderInvariant, PTL

\* For a careful client a trained index holds exactly the rows that Add has
\* accepted since Open, in order and each under its own id, for all batches,
\* null flags, failed trainings and repeated Flushes.
THEOREM CarefulIndex == Spec => []CarefulIndexIsComplete
<1>1. IInv => CarefulIndexIsComplete
  BY DEF IInv, CarefulInv, CarefulIndexIsComplete
<1> QED BY <1>1, BuilderInvariant, PTL

\* For a careful client a file that Flush finished holds every row accepted until
\* then, whichever other writes failed.
THEOREM CarefulFlush == Spec => []CarefulFlushIsComplete
<1>1. IInv => CarefulFlushIsComplete
  BY DEF IInv, CarefulInv, CarefulFlushIsComplete
<1> QED BY <1>1, BuilderInvariant, PTL

\* No row is in the index twice, however a client mixes kept, copied and nullable
\* batches, opens again with old buffers, or repeats what failed.
THEOREM RowsAreIndexedOnce == Spec => []NoRowTwice
<1>1. IInv => NoRowTwice
  <2> SUFFICES ASSUME IInv, NEW i \in 1..Len(index), NEW j \in 1..Len(index),
                      index[i][1] = index[j][1], i # j
               PROVE  FALSE
    BY DEF NoRowTwice
  <2>1. index \in Seq(Nat \X Nat) /\ Ordered(Vectors(index), 1, nrows)
    BY DEF IInv, RowsInOrder, IsIndex
  <2>2. Len(Vectors(index)) = Len(index) /\ Vectors(index) \in Seq(Nat) /\ Len(index) \in Nat
    BY <2>1, VectorsConcat
  <2>3. Vectors(index)[i] = Vectors(index)[j]
    BY DEF Vectors
  <2>4. Vectors(index)[i] \in Nat /\ Vectors(index)[j] \in Nat
    BY <2>2, ElementOfSeq
  <2>5. i < j \/ j < i
    BY <2>2
  <2>6. Vectors(index)[i] < Vectors(index)[j] \/ Vectors(index)[j] < Vectors(index)[i]
    BY <2>1, <2>2, <2>5 DEF Ordered
  <2> QED BY <2>3, <2>4, <2>6
<1> QED BY <1>1, BuilderInvariant, PTL

=============================================================================
