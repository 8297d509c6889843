-------------------------- MODULE BlockCacheProofs --------------------------
(***************************************************************************)
(* Proofs about BlockCacheInvertedLists for any number of files, indexes,  *)
(* threads, lists and buffers, and any layout of the files.                *)
(***************************************************************************)
EXTENDS BlockCacheInvertedLists, FiniteSetTheorems, WellFoundedInduction, TLAPS

(***************************************************************************)
(* The inductive invariant of every configuration.                         *)
(***************************************************************************)

\* What is mapped or held is alive.
CacheSafe ==
    /\ \A k \in CacheKey : map[k] # Nil => map[k] \in alive
    /\ \A e \in Entry : handles[e] > 0 => e \in alive

\* The locals of get_ptr: when the temporary handle and the buffer exist.
Locals(t) ==
    /\ pc[t] = "swap" <=> old[t] # Nil
    /\ pc[t] \in {"seek", "read", "insert"} <=> buffer[t] # Nil

\* A buffer is not yet in the cache, and has one thread.
BuffersApart ==
    \A t \in Thread : buffer[t] # Nil =>
      /\ buffer[t] \notin alive
      /\ \A u \in Thread : buffer[u] = buffer[t] => u = t

IInv ==
    /\ TypeOK
    /\ CacheSafe
    /\ HandlesAccounted
    /\ \A t \in Thread : Locals(t)
    /\ BuffersApart

(***************************************************************************)
(* The invariant of a process that searches each file in one thread only.  *)
(***************************************************************************)

OneThreadPerFile ==
    \A t, u \in Thread : FileOf[InstanceOf[t]] = FileOf[InstanceOf[u]] => t = u

\* The handle that the thread's index keeps for the list the thread is at.
Kept(t) == cache_handles[InstanceOf[t]][list_no[t]]

\* What get_ptr has returned is what is kept for the list.
Pointers(t) ==
    /\ codes[t] # Nil <=> phase[t] = "ids"
    /\ ids[t] # Nil <=> pc[t] = "scan"
    /\ codes[t] # Nil => codes[t] = Kept(t)
    /\ ids[t] # Nil => ids[t] = Kept(t)
    /\ pc[t] = "idle" => phase[t] = "codes"
    /\ pc[t] = "scan" => phase[t] = "ids"

\* Nothing is kept for a list that is being read, and nothing else moves the
\* descriptor meanwhile.
Reads(t) ==
    /\ pc[t] # "idle" => InstanceOf[t] \in opened
    /\ pc[t] \in {"alloc", "seek", "read", "insert"} => Kept(t) = Nil
    /\ pc[t] = "swap" => old[t] = Kept(t)
    /\ pc[t] = "read" => pos[InstanceOf[t]] = AlignedOffset(list_no[t])
    /\ pc[t] = "insert" =>
         content[buffer[t]] = <<FileOf[InstanceOf[t]], AlignedOffset(list_no[t]),
                                ExpectedReadSize(list_no[t])>>

\* What is kept for a list is what is cached for it: nobody else replaces it.
KeptIsCached ==
    \A i \in Instance, l \in List : cache_handles[i][l] # Nil =>
      /\ map[<<FileOf[i], l>>] = cache_handles[i][l]
      /\ \E t \in Thread : InstanceOf[t] = i

SInv ==
    /\ KeptIsCached
    /\ CachedIsTheList
    /\ \A t \in Thread : Pointers(t) /\ Reads(t)

-----------------------------------------------------------------------------
(***************************************************************************)
(* The layout of a file.  Offset is recursive: induction over the lists    *)
(* goes through the least list that a set leaves out.                      *)
(***************************************************************************)

LEMMA SetInduction ==
  ASSUME NEW S, 0 \in S, \A n \in Nat : n \in S => n + 1 \in S
  PROVE  Nat \subseteq S
<1> SUFFICES ASSUME Nat \ S # {} PROVE FALSE
  OBVIOUS
<1>1. IsWellFoundedOn(OpToRel(<, Nat), Nat)
  BY NatLessThanWellFounded
<1>2. PICK n \in Nat \ S : \A m \in Nat \ S : ~(<<m, n>> \in OpToRel(<, Nat))
  BY <1>1, WFMin
<1>3. \A m \in Nat \ S : ~(m < n)
  BY <1>2 DEF OpToRel
<1>4. n # 0 /\ n - 1 \in Nat /\ n - 1 < n
  OBVIOUS
<1>5. n - 1 \in S
  BY <1>3, <1>4
<1>6. (n - 1) + 1 \in S
  BY <1>4, <1>5
<1> QED BY <1>4, <1>6

\* The layout of a file with m lists.
IsLayout(g, m) ==
    /\ g \in [0..m -> Nat]
    /\ g[0] = StartOffset
    /\ \A l \in 0..m : l # 0 => g[l] = g[l - 1] + Sizes[l - 1] * OneEntrySize

LEMMA LayoutExists == \E g : IsLayout(g, NList)
<1> DEFINE S == {m \in Nat : m <= NList => \E g : IsLayout(g, m)}
<1>1. 0 \in S
  <2>1. IsLayout([l \in 0..0 |-> StartOffset], 0)
    BY BlockCacheAssumption DEF IsLayout
  <2> QED BY <2>1
<1>2. ASSUME NEW m \in Nat, m \in S
      PROVE  m + 1 \in S
  <2> SUFFICES ASSUME m + 1 <= NList
               PROVE  \E g : IsLayout(g, m + 1)
    OBVIOUS
  <2>0. m <= NList /\ m \in List /\ Sizes[m] \in Nat /\ OneEntrySize \in Nat
    BY BlockCacheAssumption DEF List
  <2>1. PICK g : IsLayout(g, m)
    BY <1>2, <2>0
  <2> DEFINE h == [l \in 0..(m + 1) |-> IF l = m + 1 THEN g[m] + Sizes[m] * OneEntrySize ELSE g[l]]
  <2>2. Sizes[m] * OneEntrySize \in Nat
    BY <2>0
  <2>3. h \in [0..(m + 1) -> Nat]
    BY <2>1, <2>2 DEF IsLayout
  <2>4. h[0] = StartOffset
    BY <2>1 DEF IsLayout
  <2>5. ASSUME NEW l \in 0..(m + 1), l # 0
        PROVE  h[l] = h[l - 1] + Sizes[l - 1] * OneEntrySize
    <3>1. CASE l = m + 1
      BY <3>1
    <3>2. CASE l # m + 1
      <4>1. l \in 0..m /\ l - 1 \in 0..m /\ l - 1 # m + 1 /\ l - 1 \in 0..(m+1)
        BY <3>2, <2>5
      <4>2. h[l] = g[l] /\ h[l-1] = g[l-1]
        BY <3>2, <4>1
      <4> QED BY <2>1, <2>5, <4>1, <4>2 DEF IsLayout
    <3> QED BY <3>1, <3>2
  <2>6. IsLayout(h, m + 1)
    BY <2>3, <2>4, <2>5 DEF IsLayout
  <2> QED BY <2>6
<1>3. Nat \subseteq S
  <2> HIDE DEF S
  <2> QED BY <1>1, <1>2, SetInduction
<1> QED BY <1>3, BlockCacheAssumption

\* Offset is the layout it recurses to.
LEMMA OffsetIsLayout == IsLayout(Offset, NList)
<1> DEFINE F(g) == [l \in 0..NList |->
                      IF l = 0 THEN StartOffset ELSE g[l - 1] + Sizes[l - 1] * OneEntrySize]
<1>1. PICK g : IsLayout(g, NList)
  BY LayoutExists
<1>2. g = F(g)
  BY <1>1, BlockCacheAssumption DEF IsLayout
<1>3. Offset = CHOOSE f : f = F(f)
  BY DEF Offset
<1>4. Offset = F(Offset)
  BY <1>2, <1>3
<1> DEFINE S == {l \in Nat : l <= NList => Offset[l] \in Nat}
<1>5. 0 \in S
  BY <1>4, BlockCacheAssumption
<1>6. ASSUME NEW l \in Nat, l \in S
      PROVE  l + 1 \in S
  <2> SUFFICES ASSUME l + 1 <= NList PROVE Offset[l + 1] \in Nat
    OBVIOUS
  <2>1. l \in List /\ l + 1 \in 0..NList /\ l + 1 # 0 /\ (l + 1) - 1 = l
    BY BlockCacheAssumption DEF List
  <2>2. Offset[l + 1] = Offset[l] + Sizes[l] * OneEntrySize
    BY <1>4, <2>1
  <2>3. Offset[l] \in Nat /\ Sizes[l] * OneEntrySize \in Nat
    BY <1>6, <2>1, BlockCacheAssumption DEF List
  <2> QED BY <2>2, <2>3
<1>7. Nat \subseteq S
  <2> HIDE DEF S, F
  <2> QED BY <1>5, <1>6, SetInduction
<1>8. Offset \in [0..NList -> Nat]
  <2>1. ASSUME NEW l \in 0..NList PROVE Offset[l] \in Nat
    BY <1>7, BlockCacheAssumption
  <2>2. Offset = [l \in 0..NList |-> Offset[l]]
    BY <1>4
  <2> HIDE DEF F, S
  <2> QED BY <2>1, <2>2
<1>9. Offset[0] = StartOffset /\ \A l \in 0..NList : l # 0 => Offset[l] = Offset[l - 1] + Sizes[l - 1] * OneEntrySize
  BY <1>4, BlockCacheAssumption
<1> QED BY <1>8, <1>9 DEF IsLayout

\* Every list ends before the lists do.
LEMMA ListInFile ==
  \A l \in List : /\ Offset[l] \in Nat /\ Sizes[l] * OneEntrySize \in Nat /\ TotSize \in Nat
                  /\ Offset[l] + Sizes[l] * OneEntrySize <= TotSize
<1>1. Offset \in [0..NList -> Nat]
  BY OffsetIsLayout DEF IsLayout
<1>2. ASSUME NEW l \in List
      PROVE  /\ l \in 0..NList /\ l + 1 \in 0..NList
             /\ Sizes[l] * OneEntrySize \in Nat
             /\ Offset[l + 1] = Offset[l] + Sizes[l] * OneEntrySize
  <2>1. l \in 0..NList /\ l + 1 \in 0..NList /\ l + 1 # 0 /\ (l + 1) - 1 = l
    BY BlockCacheAssumption DEF List
  <2>2. Sizes[l] * OneEntrySize \in Nat
    BY BlockCacheAssumption
  <2> QED BY <2>1, <2>2, OffsetIsLayout DEF IsLayout
<1> DEFINE S == {m \in Nat : m <= NList => \A l \in 0..m : Offset[l] <= Offset[m]}
<1>3. 0 \in S
  BY <1>1, BlockCacheAssumption
<1>4. ASSUME NEW m \in Nat, m \in S
      PROVE  m + 1 \in S
  <2> SUFFICES ASSUME m + 1 <= NList, NEW l \in 0..(m + 1)
               PROVE  Offset[l] <= Offset[m + 1]
    OBVIOUS
  <2>1. m \in List /\ l \in 0..NList /\ m \in 0..NList /\ m + 1 \in 0..NList
    BY BlockCacheAssumption DEF List
  <2>2. Offset[l] \in Nat /\ Offset[m] \in Nat /\ Offset[m + 1] \in Nat
    BY <1>1, <2>1
  <2>3. CASE l = m + 1
    BY <2>2, <2>3
  <2>4. CASE l # m + 1
    <3>1. Offset[l] <= Offset[m]
      BY <1>4, <2>1, <2>4
    <3>2. Offset[m] <= Offset[m + 1]
      BY <1>2, <2>1, <2>2
    <3> QED BY <2>2, <3>1, <3>2
  <2> QED BY <2>3, <2>4
<1>5. Nat \subseteq S
  <2> HIDE DEF S
  <2> QED BY <1>3, <1>4, SetInduction
<1>6. ASSUME NEW l \in List
      PROVE  Offset[l + 1] <= Offset[NList]
  <2>1. l + 1 \in 0..NList /\ NList \in Nat
    BY <1>2, BlockCacheAssumption
  <2> QED BY <1>5, <2>1
<1>7. Offset[NList] \in Nat /\ TailSize \in Nat
  BY <1>1, BlockCacheAssumption
<1> SUFFICES ASSUME NEW l \in List
             PROVE  /\ Offset[l] \in Nat /\ Sizes[l] * OneEntrySize \in Nat /\ TotSize \in Nat
                    /\ Offset[l] + Sizes[l] * OneEntrySize <= TotSize
  OBVIOUS
<1>8. Offset[l] \in Nat
  BY <1>1, <1>2
<1> HIDE DEF S
<1> QED BY <1>2, <1>6, <1>7, <1>8 DEF TotSize

\* The multiples of the block size around a number.
LEMMA Blocks ==
  \A n \in Nat, b \in Nat \ {0} :
    /\ (n \div b) * b \in Nat /\ (n \div b) * b <= n
    /\ ((n + b - 1) \div b) * b \in Nat /\ ((n + b - 1) \div b) * b >= n
<1> SUFFICES ASSUME NEW n \in Nat, NEW b \in Nat \ {0}
             PROVE  /\ (n \div b) * b \in Nat /\ (n \div b) * b <= n
                    /\ ((n + b - 1) \div b) * b \in Nat /\ ((n + b - 1) \div b) * b >= n
  OBVIOUS
<1>1. (n \div b) * b \in Nat /\ (n \div b) * b <= n
  OBVIOUS
<1>2. ((n + b - 1) \div b) * b \in Nat /\ ((n + b - 1) \div b) * b >= n
  OBVIOUS
<1> QED BY <1>1, <1>2

LEMMA ReadSizeType ==
  \A l \in List : \A p \in Nat :
    /\ AlignedOffset(l) \in Nat /\ AlignedSize(l) \in Nat
    /\ ReadSize(p, AlignedSize(l)) \in Nat /\ ExpectedReadSize(l) \in Nat
<1> SUFFICES ASSUME NEW l \in List, NEW p \in Nat
             PROVE  /\ AlignedOffset(l) \in Nat /\ AlignedSize(l) \in Nat
                    /\ ReadSize(p, AlignedSize(l)) \in Nat /\ ExpectedReadSize(l) \in Nat
  OBVIOUS
<1>1. /\ Offset[l] \in Nat /\ Sizes[l] * OneEntrySize \in Nat /\ TotSize \in Nat
      /\ BlockSize \in Nat \ {0}
  BY ListInFile, BlockCacheAssumption
<1>2. AlignedOffset(l) \in Nat /\ AlignedOffset(l) <= Offset[l]
  BY <1>1, Blocks DEF AlignedOffset
<1>3. OffsetDifference(l) + Sizes[l] * OneEntrySize \in Nat
  BY <1>1, <1>2 DEF OffsetDifference
<1>4. AlignedSize(l) \in Nat
  BY <1>1, <1>3, Blocks DEF AlignedSize
<1> QED BY <1>1, <1>2, <1>4 DEF ReadSize, ExpectedReadSize

\* The blocks that get_ptr reads hold the list, also where the file ends within
\* the last one.
LEMMA ReadHoldsTheList ==
  \A f \in File, l \in List : Holds(<<f, AlignedOffset(l), ExpectedReadSize(l)>>, f, l)
<1> SUFFICES ASSUME NEW f \in File, NEW l \in List
             PROVE  Holds(<<f, AlignedOffset(l), ExpectedReadSize(l)>>, f, l)
  OBVIOUS
<1>1. /\ Offset[l] \in Nat /\ Sizes[l] * OneEntrySize \in Nat /\ TotSize \in Nat
      /\ Offset[l] + Sizes[l] * OneEntrySize <= TotSize
      /\ BlockSize \in Nat \ {0}
  BY ListInFile, BlockCacheAssumption
<1>2. AlignedOffset(l) \in Nat /\ AlignedOffset(l) <= Offset[l]
  BY <1>1, Blocks DEF AlignedOffset
<1>3. /\ AlignedSize(l) \in Nat
      /\ AlignedSize(l) >= OffsetDifference(l) + Sizes[l] * OneEntrySize
  <2>1. OffsetDifference(l) + Sizes[l] * OneEntrySize \in Nat
    BY <1>1, <1>2 DEF OffsetDifference
  <2> QED BY <1>1, <2>1, Blocks DEF AlignedSize
<1>4. ExpectedReadSize(l) \in Nat
  BY ReadSizeType
<1>5. AlignedOffset(l) + ExpectedReadSize(l) >= Offset[l] + Sizes[l] * OneEntrySize
  BY <1>1, <1>2, <1>3 DEF ExpectedReadSize, ReadSize, OffsetDifference
<1>6. AlignedOffset(l) + OffsetDifference(l) = Offset[l]
  BY <1>1, <1>2 DEF OffsetDifference
<1>7. <<f, AlignedOffset(l), ExpectedReadSize(l)>> # Nil
  BY <1>2, <1>4, BlockCacheAssumption
<1> QED BY <1>5, <1>6, <1>7 DEF Holds

-----------------------------------------------------------------------------
(***************************************************************************)
(* Counting the owners of handles.                                         *)
(***************************************************************************)

Is(a, b) == IF a = b THEN 1 ELSE 0
In(x, A) == IF x \in A THEN 1 ELSE 0

Held(h, e) == {p \in Instance \X List : h[p[1]][p[2]] = e}
Temps(o, e) == {t \in Thread : o[t] = e}

LEMMA CardinalityUpdate ==
  \A A, B, x : IsFiniteSet(A) /\ A \ {x} = B \ {x} =>
    Cardinality(B) = Cardinality(A) + In(x, B) - In(x, A)
<1> SUFFICES ASSUME NEW A, NEW B, NEW x, IsFiniteSet(A), A \ {x} = B \ {x}
             PROVE  Cardinality(B) = Cardinality(A) + In(x, B) - In(x, A)
  OBVIOUS
<1>1. Cardinality(A) \in Nat
  BY FS_CardinalityType
<1>2. CASE x \in B
  <2>1. B = A \cup {x}
    BY <1>2
  <2>2. Cardinality(A \cup {x}) = IF x \in A THEN Cardinality(A) ELSE Cardinality(A) + 1
    BY FS_AddElement
  <2> QED BY <1>1, <1>2, <2>1, <2>2 DEF In
<1>3. CASE x \notin B
  <2>1. B = A \ {x}
    BY <1>3
  <2>2. Cardinality(A \ {x}) = IF x \in A THEN Cardinality(A) - 1 ELSE Cardinality(A)
    BY FS_RemoveElement
  <2> QED BY <1>1, <1>3, <2>1, <2>2 DEF In
<1> QED BY <1>2, <1>3

LEMMA HeldFinite ==
  \A h, e : IsFiniteSet(Held(h, e)) /\ Cardinality(Held(h, e)) \in Nat
<1> SUFFICES ASSUME NEW h, NEW e
             PROVE  IsFiniteSet(Held(h, e)) /\ Cardinality(Held(h, e)) \in Nat
  OBVIOUS
<1>1. IsFiniteSet(List)
  BY BlockCacheAssumption, FS_Interval DEF List
<1>2. IsFiniteSet(Instance \X List)
  BY <1>1, BlockCacheAssumption, FS_Product
<1>3. IsFiniteSet(Held(h, e))
  BY <1>2, FS_Subset DEF Held
<1> QED BY <1>3, FS_CardinalityType

LEMMA TempsFinite ==
  \A o, e : IsFiniteSet(Temps(o, e)) /\ Cardinality(Temps(o, e)) \in Nat
<1> SUFFICES ASSUME NEW o, NEW e
             PROVE  IsFiniteSet(Temps(o, e)) /\ Cardinality(Temps(o, e)) \in Nat
  OBVIOUS
<1>1. IsFiniteSet(Temps(o, e))
  BY BlockCacheAssumption, FS_Subset DEF Temps
<1> QED BY <1>1, FS_CardinalityType

\* The handles kept in g are those in h but for list l of i.
SameElsewhere(g, h, i, l) ==
    \A j \in Instance, m \in List : <<j, m>> # <<i, l>> => g[j][m] = h[j][m]

LEMMA HeldUpdate ==
  \A h, g, e : \A i \in Instance : \A l \in List :
    SameElsewhere(g, h, i, l) =>
      Cardinality(Held(g, e)) = Cardinality(Held(h, e)) + Is(g[i][l], e) - Is(h[i][l], e)
<1> SUFFICES ASSUME NEW h, NEW g, NEW e, NEW i \in Instance, NEW l \in List,
                    SameElsewhere(g, h, i, l)
             PROVE  Cardinality(Held(g, e)) =
                      Cardinality(Held(h, e)) + Is(g[i][l], e) - Is(h[i][l], e)
  OBVIOUS
<1>1. Held(h, e) \ {<<i, l>>} = Held(g, e) \ {<<i, l>>}
  BY DEF Held, SameElsewhere
<1>2. In(<<i, l>>, Held(g, e)) = Is(g[i][l], e) /\ In(<<i, l>>, Held(h, e)) = Is(h[i][l], e)
  BY DEF Held, In, Is
<1> QED BY <1>1, <1>2, HeldFinite, CardinalityUpdate

LEMMA TempsUpdate ==
  \A o, g, e : \A t \in Thread :
    (\A u \in Thread : u # t => g[u] = o[u]) =>
      Cardinality(Temps(g, e)) = Cardinality(Temps(o, e)) + Is(g[t], e) - Is(o[t], e)
<1> SUFFICES ASSUME NEW o, NEW g, NEW e, NEW t \in Thread,
                    \A u \in Thread : u # t => g[u] = o[u]
             PROVE  Cardinality(Temps(g, e)) =
                      Cardinality(Temps(o, e)) + Is(g[t], e) - Is(o[t], e)
  OBVIOUS
<1>1. Temps(o, e) \ {t} = Temps(g, e) \ {t}
  BY DEF Temps
<1>2. In(t, Temps(g, e)) = Is(g[t], e) /\ In(t, Temps(o, e)) = Is(o[t], e)
  BY DEF Temps, In, Is
<1> QED BY <1>1, <1>2, TempsFinite, CardinalityUpdate

LEMMA Accounted ==
  HandlesAccounted <=>
    \A e \in Entry :
      handles[e] = Cardinality(Held(cache_handles, e)) + Cardinality(Temps(old, e))
BY DEF HandlesAccounted, Held, Temps

\* A handle that is kept is counted, so its entry is alive.
LEMMA KeptIsAlive ==
  ASSUME TypeOK, CacheSafe, HandlesAccounted, NEW i \in Instance, NEW l \in List,
         cache_handles[i][l] # Nil
  PROVE  /\ cache_handles[i][l] \in Entry /\ cache_handles[i][l] \in alive
         /\ handles[cache_handles[i][l]] > 0
<1> DEFINE e == cache_handles[i][l]
<1>1. e \in Entry
  BY DEF TypeOK
<1>2. <<i, l>> \in Held(cache_handles, e)
  BY DEF Held
<1>3. Cardinality(Held(cache_handles, e)) # 0
  BY <1>2, HeldFinite, FS_EmptySet
<1>4. handles[e] > 0
  BY <1>1, <1>3, Accounted, HeldFinite, TempsFinite
<1> QED BY <1>1, <1>4 DEF CacheSafe

-----------------------------------------------------------------------------
(***************************************************************************)
(* Steps that both critical sections of get_ptr are made of.               *)
(***************************************************************************)

CacheTypes ==
    /\ map \in [CacheKey -> Entry \cup {Nil}]
    /\ handles \in [Entry -> Nat]
    /\ alive \subseteq Entry

ScanTypes ==
    /\ pc \in [Thread -> {"idle", "lookup", "swap", "alloc", "seek", "read",
                          "insert", "scan"}]
    /\ phase \in [Thread -> {"codes", "ids"}]
    /\ codes \in [Thread -> Entry \cup {Nil}]
    /\ ids \in [Thread -> Entry \cup {Nil}]

HandleTypes ==
    /\ cache_handles \in [Instance -> [List -> Entry \cup {Nil}]]
    /\ invlist_locks \in [Instance -> [List -> Thread \cup {Nil}]]
    /\ old \in [Thread -> Entry \cup {Nil}]

LEMMA KeyType ==
  ASSUME TypeOK, NEW t \in Thread
  PROVE  /\ InstanceOf[t] \in Instance /\ list_no[t] \in List /\ FileOf[InstanceOf[t]] \in File
         /\ KeyFor(t) \in CacheKey
BY BlockCacheAssumption DEF TypeOK, KeyFor, CacheKey

LEMMA ReturnTypes ==
  ASSUME TypeOK, NEW t \in Thread, NEW e \in Entry \cup {Nil}, Return(t, e)
  PROVE  /\ ScanTypes'
         /\ pc'[t] \in {"lookup", "scan"}
         /\ \A u \in Thread : u # t => pc'[u] = pc[u]
<1>1. CASE phase[t] = "codes"
  <2>1. /\ codes' = [codes EXCEPT ![t] = e] /\ phase' = [phase EXCEPT ![t] = "ids"]
        /\ pc' = [pc EXCEPT ![t] = "lookup"] /\ UNCHANGED ids
    BY <1>1 DEF Return
  <2> QED BY <2>1 DEF TypeOK, ScanTypes
<1>2. CASE phase[t] # "codes"
  <2>1. /\ ids' = [ids EXCEPT ![t] = e] /\ pc' = [pc EXCEPT ![t] = "scan"]
        /\ UNCHANGED <<codes, phase>>
    BY <1>2 DEF Return
  <2> QED BY <2>1 DEF TypeOK, ScanTypes
<1> QED BY <1>1, <1>2

LEMMA LeaveTypes ==
  ASSUME TypeOK, NEW t \in Thread, Leave(t)
  PROVE  /\ ScanTypes'
         /\ pc'[t] = "idle"
         /\ \A u \in Thread : u # t => pc'[u] = pc[u]
BY DEF TypeOK, ScanTypes, Leave

LEMMA SwapTypes ==
  ASSUME TypeOK, NEW t \in Thread, NEW e \in Entry, SwapHandle(t, e)
  PROVE  /\ ScanTypes' /\ HandleTypes'
         /\ pc'[t] \in {"swap", "lookup", "scan"} /\ (pc'[t] = "swap" <=> old'[t] # Nil)
         /\ \A u \in Thread : u # t => pc'[u] = pc[u] /\ old'[u] = old[u]
         /\ old'[t] = Kept(t)
         /\ cache_handles'[InstanceOf[t]][list_no[t]] = e
         /\ SameElsewhere(cache_handles', cache_handles, InstanceOf[t], list_no[t])
<1>1. InstanceOf[t] \in Instance /\ list_no[t] \in List
  BY KeyType
<1>2. /\ cache_handles' \in [Instance -> [List -> Entry \cup {Nil}]]
      /\ cache_handles'[InstanceOf[t]][list_no[t]] = e
      /\ SameElsewhere(cache_handles', cache_handles, InstanceOf[t], list_no[t])
  BY <1>1 DEF TypeOK, SwapHandle, SameElsewhere
<1>3. /\ old' \in [Thread -> Entry \cup {Nil}] /\ old'[t] = Kept(t)
      /\ \A u \in Thread : u # t => old'[u] = old[u]
  BY <1>1 DEF TypeOK, SwapHandle, Kept
<1>4. CASE Kept(t) # Nil
  <2>1. /\ invlist_locks' = [invlist_locks EXCEPT ![InstanceOf[t]][list_no[t]] = t]
        /\ pc' = [pc EXCEPT ![t] = "swap"] /\ UNCHANGED <<codes, ids, phase>>
    BY <1>4 DEF SwapHandle, Kept
  <2>2. invlist_locks' \in [Instance -> [List -> Thread \cup {Nil}]]
    BY <1>1, <2>1 DEF TypeOK
  <2>3. ScanTypes' /\ pc'[t] = "swap" /\ \A u \in Thread : u # t => pc'[u] = pc[u]
    BY <2>1 DEF TypeOK, ScanTypes
  <2> QED BY <1>2, <1>3, <1>4, <2>2, <2>3 DEF HandleTypes
<1>5. CASE Kept(t) = Nil
  <2>1. Return(t, e) /\ UNCHANGED invlist_locks
    BY <1>5 DEF SwapHandle, Kept
  <2>2. /\ ScanTypes'
        /\ pc'[t] \in {"lookup", "scan"} /\ \A u \in Thread : u # t => pc'[u] = pc[u]
    BY <2>1, ReturnTypes
  <2> QED BY <1>2, <1>3, <1>5, <2>1, <2>2 DEF HandleTypes, TypeOK
<1> QED BY <1>4, <1>5

\* The cache has given out one more handle of e, or got one back.
Gains(e) == \A x \in Entry : handles'[x] = handles[x] + Is(e, x)
Loses(e) == \A x \in Entry : handles'[x] = handles[x] - Is(e, x)

\* Every handle the cache counts has an owner, also after a swap.
LEMMA SwapAccounted ==
  ASSUME IInv, NEW t \in Thread, NEW e \in Entry, old[t] = Nil, SwapHandle(t, e), Gains(e)
  PROVE  HandlesAccounted'
<1> SUFFICES ASSUME NEW x \in Entry
             PROVE  handles'[x] = Cardinality(Held(cache_handles', x)) + Cardinality(Temps(old', x))
  BY DEF HandlesAccounted, Held, Temps
<1>1. TypeOK /\ InstanceOf[t] \in Instance /\ list_no[t] \in List /\ x # Nil
  BY KeyType, BlockCacheAssumption DEF IInv
<1>2. handles[x] = Cardinality(Held(cache_handles, x)) + Cardinality(Temps(old, x))
  BY Accounted DEF IInv
<1>3. Cardinality(Held(cache_handles', x)) =
        Cardinality(Held(cache_handles, x)) + Is(e, x) - Is(Kept(t), x)
  <2>1. SameElsewhere(cache_handles', cache_handles, InstanceOf[t], list_no[t])
    BY <1>1, SwapTypes
  <2>2. cache_handles'[InstanceOf[t]][list_no[t]] = e
    BY <1>1, SwapTypes
  <2>3. InstanceOf[t] \in Instance /\ list_no[t] \in List
    BY <1>1
  <2>4. Cardinality(Held(cache_handles', x)) =
          Cardinality(Held(cache_handles, x)) + Is(cache_handles'[InstanceOf[t]][list_no[t]], x)
            - Is(cache_handles[InstanceOf[t]][list_no[t]], x)
    BY <2>1, <2>3, HeldUpdate, ZenonT(40)
  <2> QED BY <2>2, <2>4 DEF Kept
<1>4. Cardinality(Temps(old', x)) = Cardinality(Temps(old, x)) + Is(Kept(t), x)
  <2>1. \A u \in Thread : u # t => old'[u] = old[u]
    BY <1>1, SwapTypes
  <2>2. old'[t] = Kept(t)
    BY <1>1, SwapTypes
  <2>3. Cardinality(Temps(old', x)) = Cardinality(Temps(old, x)) + Is(old'[t], x) - Is(old[t], x)
    BY <2>1, TempsUpdate, Zenon
  <2> QED BY <1>1, <2>2, <2>3, TempsFinite DEF Is
<1> QED BY <1>2, <1>3, <1>4, HeldFinite, TempsFinite DEF Is, Gains

\* A handle, kept for a list or swapped out of it, is no longer there.
DropsKept(i, l) == cache_handles' = [cache_handles EXCEPT ![i][l] = Nil] /\ UNCHANGED old
DropsOld(t) == old' = [old EXCEPT ![t] = Nil] /\ UNCHANGED cache_handles

\* ... and after it was given back.
LEMMA ReleaseKeptAccounted ==
  ASSUME IInv, NEW i \in Instance, NEW l \in List, DropsKept(i, l),
         Loses(cache_handles[i][l])
  PROVE  HandlesAccounted'
<1> SUFFICES ASSUME NEW x \in Entry
             PROVE  handles'[x] = Cardinality(Held(cache_handles', x)) + Cardinality(Temps(old, x))
  BY DEF HandlesAccounted, Held, Temps, DropsKept
<1>1. handles[x] = Cardinality(Held(cache_handles, x)) + Cardinality(Temps(old, x)) /\ x # Nil
  BY Accounted, BlockCacheAssumption DEF IInv
<1>2. cache_handles'[i][l] = Nil /\ SameElsewhere(cache_handles', cache_handles, i, l)
  BY DEF IInv, TypeOK, SameElsewhere, DropsKept
<1>3. Cardinality(Held(cache_handles', x)) =
        Cardinality(Held(cache_handles, x)) + Is(cache_handles'[i][l], x) - Is(cache_handles[i][l], x)
  BY <1>2, HeldUpdate, ZenonT(40)
<1> QED BY <1>1, <1>2, <1>3, HeldFinite, TempsFinite DEF Is, Loses

LEMMA ReleaseOldAccounted ==
  ASSUME IInv, NEW t \in Thread, DropsOld(t), Loses(old[t])
  PROVE  HandlesAccounted'
<1> SUFFICES ASSUME NEW x \in Entry
             PROVE  handles'[x] = Cardinality(Held(cache_handles, x)) + Cardinality(Temps(old', x))
  BY DEF HandlesAccounted, Held, Temps, DropsOld
<1>1. handles[x] = Cardinality(Held(cache_handles, x)) + Cardinality(Temps(old, x)) /\ x # Nil
  BY Accounted, BlockCacheAssumption DEF IInv
<1>2. old'[t] = Nil /\ \A u \in Thread : u # t => old'[u] = old[u]
  BY DEF IInv, TypeOK, DropsOld
<1>3. Cardinality(Temps(old', x)) = Cardinality(Temps(old, x)) + Is(old'[t], x) - Is(old[t], x)
  BY <1>2, TempsUpdate, Zenon
<1> QED BY <1>1, <1>2, <1>3, HeldFinite, TempsFinite DEF Is, Loses

(***************************************************************************)
(* Operations of the cache.                                                *)
(***************************************************************************)

LEMMA LookupSafe ==
  ASSUME IInv, NEW k \in CacheKey, Cache!Lookup(k)
  PROVE  CacheTypes' /\ CacheSafe' /\ map[k] \in Entry /\ Gains(map[k])
<1>1. CacheTypes /\ CacheSafe
  BY DEF IInv, TypeOK, CacheTypes
<1>2. map[k] \in Entry /\ map[k] \in alive
  BY <1>1 DEF CacheTypes, CacheSafe, Cache!Lookup
<1> QED BY <1>1, <1>2 DEF CacheTypes, CacheSafe, Cache!Lookup, Gains, Is

LEMMA InsertSafe ==
  ASSUME IInv, NEW k \in CacheKey, NEW e \in Entry, Cache!Insert(k, e)
  PROVE  CacheTypes' /\ CacheSafe' /\ Gains(e)
<1>1. CacheTypes /\ CacheSafe
  BY DEF IInv, TypeOK, CacheTypes
<1>2. e \notin alive /\ handles[e] = 0
  BY <1>1 DEF CacheTypes, CacheSafe, Cache!Insert
<1> QED BY <1>1, <1>2 DEF CacheTypes, CacheSafe, Cache!Insert, Gains, Is

LEMMA ReleaseSafe ==
  ASSUME IInv, NEW e \in Entry, Cache!Release(e)
  PROVE  /\ CacheTypes' /\ CacheSafe' /\ Loses(e) /\ UNCHANGED alive
         /\ \A k \in CacheKey : \/ map'[k] = map[k]
                                \/ map'[k] = Nil /\ map[k] = e /\ handles'[e] = 0
<1>1. CacheTypes /\ CacheSafe
  BY DEF IInv, TypeOK, CacheTypes
<1>2. /\ map' \in [CacheKey -> Entry \cup {Nil}]
      /\ handles' \in [Entry -> Nat] /\ handles'[e] = handles[e] - 1 /\ handles[e] > 0
      /\ Loses(e) /\ UNCHANGED alive
  BY <1>1 DEF CacheTypes, Cache!Release, Cache!Unmapped, Loses, Is
<1>3. \A k \in CacheKey : \/ map'[k] = map[k]
                          \/ map'[k] = Nil /\ map[k] = e /\ handles'[e] = 0
  BY <1>1, <1>2 DEF CacheTypes, Cache!Release, Cache!Unmapped
<1>4. CacheSafe'
  BY <1>1, <1>2, <1>3 DEF CacheTypes, CacheSafe, Loses, Is
<1> QED BY <1>1, <1>2, <1>3, <1>4 DEF CacheTypes

-----------------------------------------------------------------------------
(***************************************************************************)
(* Every step keeps IInv.                                                  *)
(***************************************************************************)

LEMMA LookupHitIInv ==
  ASSUME IInv, NEW t \in Thread, LookupHit(t)
  PROVE  IInv'
<1> DEFINE e == map[KeyFor(t)]
<1>1. /\ pc[t] = "lookup" /\ Cache!Lookup(KeyFor(t)) /\ SwapHandle(t, e)
      /\ UNCHANGED <<opened, pos, list_no, buffer, content, leaked>>
  BY DEF LookupHit
<1>2. TypeOK /\ KeyFor(t) \in CacheKey /\ old[t] = Nil
  BY <1>1, KeyType DEF IInv, Locals
<1>3. CacheTypes' /\ CacheSafe' /\ e \in Entry /\ Gains(e) /\ UNCHANGED alive
  BY <1>1, <1>2, LookupSafe DEF Cache!Lookup
<1> HIDE DEF e
<1>4. /\ ScanTypes' /\ HandleTypes'
      /\ pc'[t] \in {"swap", "lookup", "scan"} /\ (pc'[t] = "swap" <=> old'[t] # Nil)
      /\ \A u \in Thread : u # t => pc'[u] = pc[u] /\ old'[u] = old[u]
  BY <1>1, <1>2, <1>3, SwapTypes
<1>5. TypeOK'
  BY <1>1, <1>2, <1>3, <1>4 DEF TypeOK, CacheTypes, ScanTypes, HandleTypes
<1>6. HandlesAccounted'
  BY <1>1, <1>2, <1>3, SwapAccounted
<1>7. \A u \in Thread : Locals(u)'
  BY <1>1, <1>4 DEF IInv, Locals
<1>8. BuffersApart'
  BY <1>1, <1>3 DEF IInv, BuffersApart
<1> QED BY <1>3, <1>5, <1>6, <1>7, <1>8 DEF IInv

LEMMA InsertBufferIInv ==
  ASSUME IInv, NEW t \in Thread, InsertBuffer(t)
  PROVE  IInv'
<1> DEFINE e == buffer[t]
<1>1. /\ pc[t] = "insert" /\ Cache!Insert(KeyFor(t), e) /\ SwapHandle(t, e)
      /\ buffer' = [buffer EXCEPT ![t] = Nil]
      /\ UNCHANGED <<opened, pos, list_no, content, leaked>>
  BY DEF InsertBuffer
<1>2. TypeOK /\ KeyFor(t) \in CacheKey /\ old[t] = Nil /\ e \in Entry
  BY <1>1, KeyType DEF IInv, TypeOK, Locals
<1>3. CacheTypes' /\ CacheSafe' /\ Gains(e)
  BY <1>1, <1>2, InsertSafe
<1>4. /\ ScanTypes' /\ HandleTypes'
      /\ pc'[t] \in {"swap", "lookup", "scan"} /\ (pc'[t] = "swap" <=> old'[t] # Nil)
      /\ \A u \in Thread : u # t => pc'[u] = pc[u] /\ old'[u] = old[u]
  BY <1>1, <1>2, SwapTypes
<1>5. TypeOK'
  BY <1>1, <1>2, <1>3, <1>4 DEF TypeOK, CacheTypes, ScanTypes, HandleTypes
<1>6. HandlesAccounted'
  BY <1>1, <1>2, <1>3, SwapAccounted
<1>7. \A u \in Thread : Locals(u)'
  BY <1>1, <1>2, <1>4 DEF IInv, Locals, TypeOK
<1>8. BuffersApart'
  <2>1. buffer'[t] = Nil /\ \A u \in Thread : u # t => buffer'[u] = buffer[u]
    BY <1>1, <1>2 DEF TypeOK
  <2>2. alive' = alive \cup {e}
    BY <1>1 DEF Cache!Insert
  <2> QED BY <2>1, <2>2 DEF IInv, BuffersApart
<1> QED BY <1>3, <1>5, <1>6, <1>7, <1>8 DEF IInv

LEMMA ReleaseOldIInv ==
  ASSUME IInv, NEW t \in Thread, ReleaseOld(t)
  PROVE  IInv'
<1> DEFINE e == old[t]
<1>1. /\ pc[t] = "swap" /\ Cache!Release(e) /\ old' = [old EXCEPT ![t] = Nil]
      /\ invlist_locks' = [invlist_locks EXCEPT ![InstanceOf[t]][list_no[t]] = Nil]
      /\ Return(t, Kept(t))
      /\ UNCHANGED <<opened, pos, cache_handles, list_no, buffer, content, leaked>>
  BY DEF ReleaseOld, Kept
<1>2. /\ TypeOK /\ e \in Entry /\ InstanceOf[t] \in Instance /\ list_no[t] \in List
      /\ Kept(t) \in Entry \cup {Nil}
  BY <1>1, KeyType DEF IInv, TypeOK, Locals, Kept
<1>3. CacheTypes' /\ CacheSafe' /\ Loses(e) /\ UNCHANGED alive
  BY <1>1, <1>2, ReleaseSafe
<1>4. /\ ScanTypes'
      /\ pc'[t] \in {"lookup", "scan"} /\ \A u \in Thread : u # t => pc'[u] = pc[u]
  BY <1>1, <1>2, ReturnTypes
<1>5. HandleTypes'
  BY <1>1, <1>2 DEF TypeOK, HandleTypes
<1>6. TypeOK'
  BY <1>1, <1>2, <1>3, <1>4, <1>5 DEF TypeOK, CacheTypes, ScanTypes, HandleTypes
<1>7. HandlesAccounted'
  BY <1>1, <1>2, <1>3, ReleaseOldAccounted DEF DropsOld
<1>8. \A u \in Thread : Locals(u)'
  BY <1>1, <1>2, <1>4 DEF IInv, TypeOK, Locals
<1>9. BuffersApart'
  BY <1>1, <1>3 DEF IInv, BuffersApart
<1> QED BY <1>3, <1>6, <1>7, <1>8, <1>9 DEF IInv

\* What the steps of a thread outside of the critical sections leave alone.
LEMMA OutsideKeeps ==
  ASSUME IInv, UNCHANGED <<cacheVars, cache_handles, old>>
  PROVE  CacheSafe' /\ HandlesAccounted'
BY DEF IInv, CacheSafe, HandlesAccounted, cacheVars

LEMMA AllocateIInv ==
  ASSUME IInv, NEW t \in Thread, Allocate(t)
  PROVE  IInv'
<1>1. PICK e \in Unused : buffer' = [buffer EXCEPT ![t] = e]
  BY DEF Allocate
<1>2. /\ e \in Entry /\ e # Nil /\ e \notin alive /\ \A u \in Thread : buffer[u] # e
  BY BlockCacheAssumption DEF Unused
<1>3. /\ pc[t] = "alloc" /\ pc' = [pc EXCEPT ![t] = "seek"]
      /\ UNCHANGED <<cacheVars, opened, pos, cache_handles, invlist_locks, list_no, phase, old,
                     codes, ids, content, leaked>>
  BY DEF Allocate
<1>4. TypeOK'
  BY <1>1, <1>2, <1>3 DEF IInv, TypeOK, cacheVars
<1>5. \A u \in Thread : Locals(u)'
  BY <1>1, <1>2, <1>3 DEF IInv, TypeOK, Locals
<1>6. BuffersApart'
  <2>1. buffer'[t] = e /\ \A u \in Thread : u # t => buffer'[u] = buffer[u]
    BY <1>1 DEF IInv, TypeOK
  <2> QED BY <1>2, <1>3, <2>1 DEF IInv, BuffersApart, cacheVars
<1> QED BY <1>3, <1>4, <1>5, <1>6, OutsideKeeps DEF IInv

LEMMA ReadIInv ==
  ASSUME IInv, NEW t \in Thread, Read(t)
  PROVE  IInv'
<1> DEFINE i == InstanceOf[t]
           n == ReadSize(pos[i], AlignedSize(list_no[t]))
<1>1. /\ pc[t] = "read" /\ pos' = [pos EXCEPT ![i] = @ + n]
      /\ content' = [content EXCEPT ![buffer[t]] = <<FileOf[i], pos[i], n>>]
      /\ pc' = [pc EXCEPT ![t] = "insert"]
      /\ UNCHANGED <<cacheVars, opened, cache_handles, invlist_locks, list_no, phase, buffer,
                     old, codes, ids, leaked>>
  BY DEF Read
<1>2. i \in Instance /\ FileOf[i] \in File /\ list_no[t] \in List /\ pos[i] \in Nat
  BY KeyType DEF IInv, TypeOK
<1>3. n \in Nat
  BY <1>2, ReadSizeType
<1> HIDE DEF i, n
<1>4. pos' \in [Instance -> Nat]
  BY <1>1, <1>2, <1>3 DEF IInv, TypeOK
<1>5. content' \in [Entry -> (File \X Nat \X Nat) \cup {Nil}]
  BY <1>1, <1>2, <1>3 DEF IInv, TypeOK
<1>6. TypeOK'
  BY <1>1, <1>4, <1>5 DEF IInv, TypeOK, cacheVars
<1>7. \A u \in Thread : Locals(u)'
  BY <1>1 DEF IInv, TypeOK, Locals
<1>8. BuffersApart'
  BY <1>1 DEF IInv, BuffersApart, cacheVars
<1> QED BY <1>1, <1>6, <1>7, <1>8, OutsideKeeps DEF IInv

LEMMA ReadFailsIInv ==
  ASSUME IInv, NEW t \in Thread, ReadFails(t)
  PROVE  IInv'
<1> DEFINE i == InstanceOf[t]
           n == ReadSize(pos[i], AlignedSize(list_no[t]))
<1>1. /\ pc[t] = "read" /\ pos' = [pos EXCEPT ![i] = @ + n]
      /\ leaked' = leaked \cup {buffer[t]} /\ buffer' = [buffer EXCEPT ![t] = Nil] /\ Leave(t)
      /\ UNCHANGED <<cacheVars, opened, cache_handles, invlist_locks, list_no, old, content>>
  <2>1. i \in Instance /\ pos \in [Instance -> Nat]
    BY KeyType DEF IInv, TypeOK
  <2> QED BY <2>1 DEF ReadFails
<1>2. i \in Instance /\ list_no[t] \in List /\ pos[i] \in Nat
  BY KeyType DEF IInv, TypeOK
<1>3. n \in Nat
  BY <1>2, ReadSizeType
<1> HIDE DEF i, n
<1>4. pos' \in [Instance -> Nat]
  BY <1>1, <1>2, <1>3 DEF IInv, TypeOK
<1>5. /\ ScanTypes' /\ pc'[t] = "idle" /\ \A u \in Thread : u # t => pc'[u] = pc[u]
  BY <1>1, LeaveTypes DEF IInv
<1>6. buffer[t] \in Entry
  BY <1>1 DEF IInv, TypeOK, Locals
<1>7. TypeOK'
  BY <1>1, <1>4, <1>5, <1>6 DEF IInv, TypeOK, ScanTypes, cacheVars
<1>8. \A u \in Thread : Locals(u)'
  BY <1>1, <1>5 DEF IInv, TypeOK, Locals
<1>9. BuffersApart'
  <2>1. buffer'[t] = Nil /\ \A u \in Thread : u # t => buffer'[u] = buffer[u]
    BY <1>1 DEF IInv, TypeOK
  <2> QED BY <1>1, <2>1 DEF IInv, BuffersApart, cacheVars
<1> QED BY <1>1, <1>7, <1>8, <1>9, OutsideKeeps DEF IInv

\* The other steps of a thread.
LEMMA ThreadIInv ==
  ASSUME IInv, NEW t \in Thread, NEW l \in List,
         ScanList(t, l) \/ LookupMiss(t) \/ AllocateFails(t) \/ Seek(t) \/ ScanDone(t)
  PROVE  IInv'
<1>1. CASE ScanList(t, l)
  <2>1. TypeOK' /\ (\A u \in Thread : Locals(u)') /\ BuffersApart'
    BY <1>1 DEF IInv, TypeOK, Locals, BuffersApart, ScanList, cacheVars
  <2> QED BY <1>1, <2>1, OutsideKeeps DEF IInv, ScanList
<1>2. CASE LookupMiss(t)
  <2>1. TypeOK' /\ (\A u \in Thread : Locals(u)') /\ BuffersApart'
    BY <1>2 DEF IInv, TypeOK, Locals, BuffersApart, LookupMiss, cacheVars
  <2> QED BY <1>2, <2>1, OutsideKeeps DEF IInv, LookupMiss
<1>3. CASE AllocateFails(t)
  <2>1. TypeOK' /\ (\A u \in Thread : Locals(u)') /\ BuffersApart'
    BY <1>3 DEF IInv, TypeOK, Locals, BuffersApart, AllocateFails, Leave, cacheVars
  <2> QED BY <1>3, <2>1, OutsideKeeps DEF IInv, AllocateFails
<1>4. CASE Seek(t)
  <2>1. AlignedOffset(list_no[t]) \in Nat
    BY KeyType, ReadSizeType DEF IInv
  <2>2. TypeOK' /\ (\A u \in Thread : Locals(u)') /\ BuffersApart'
    BY <1>4, <2>1 DEF IInv, TypeOK, Locals, BuffersApart, Seek, cacheVars
  <2> QED BY <1>4, <2>2, OutsideKeeps DEF IInv, Seek
<1>5. CASE ScanDone(t)
  <2>1. TypeOK' /\ (\A u \in Thread : Locals(u)') /\ BuffersApart'
    BY <1>5 DEF IInv, TypeOK, Locals, BuffersApart, ScanDone, Leave, cacheVars
  <2> QED BY <1>5, <2>1, OutsideKeeps DEF IInv, ScanDone
<1> QED BY <1>1, <1>2, <1>3, <1>4, <1>5

LEMMA InstanceIInv ==
  ASSUME IInv, NEW i \in Instance, Destroy(i) \/ Reopen(i)
  PROVE  IInv'
<1>1. TypeOK'
  <2>1. CASE Destroy(i)
    BY <2>1 DEF IInv, TypeOK, Destroy, cacheVars
  <2>2. CASE Reopen(i)
    BY <2>2 DEF IInv, TypeOK, Reopen, cacheVars
  <2> QED BY <2>1, <2>2
<1>2. UNCHANGED <<cacheVars, cache_handles, old, pc, buffer>>
  BY DEF Destroy, Reopen
<1>3. (\A u \in Thread : Locals(u)') /\ BuffersApart'
  BY <1>2 DEF IInv, Locals, BuffersApart, cacheVars
<1> QED BY <1>1, <1>2, <1>3, OutsideKeeps DEF IInv

LEMMA DestroyHandleIInv ==
  ASSUME IInv, NEW i \in Instance, NEW l \in List, DestroyHandle(i, l)
  PROVE  IInv'
<1> DEFINE e == cache_handles[i][l]
<1>1. /\ e # Nil /\ Cache!Release(e) /\ cache_handles' = [cache_handles EXCEPT ![i][l] = Nil]
      /\ UNCHANGED <<opened, pos, invlist_locks, pc, list_no, phase, buffer, old, codes, ids,
                     content, leaked>>
  BY DEF DestroyHandle
<1>2. TypeOK /\ e \in Entry
  BY <1>1 DEF IInv, TypeOK
<1>3. CacheTypes' /\ CacheSafe' /\ Loses(e) /\ UNCHANGED alive
  BY <1>1, <1>2, ReleaseSafe
<1>4. TypeOK'
  BY <1>1, <1>2, <1>3 DEF TypeOK, CacheTypes
<1>5. HandlesAccounted'
  BY <1>1, <1>2, <1>3, ReleaseKeptAccounted DEF DropsKept
<1>6. (\A u \in Thread : Locals(u)') /\ BuffersApart'
  BY <1>1, <1>3 DEF IInv, Locals, BuffersApart
<1> QED BY <1>3, <1>4, <1>5, <1>6 DEF IInv

LEMMA CacheIInv ==
  ASSUME IInv, NEW e \in Entry, Evict(e) \/ Free(e)
  PROVE  IInv'
<1>1. CacheTypes /\ CacheSafe
  BY DEF IInv, TypeOK, CacheTypes
<1>2. /\ CacheTypes' /\ CacheSafe' /\ alive' \subseteq alive /\ UNCHANGED handles
      /\ content' \in [Entry -> (File \X Nat \X Nat) \cup {Nil}]
      /\ UNCHANGED <<opened, pos, cache_handles, invlist_locks, pc, list_no, phase, buffer, old,
                     codes, ids, leaked>>
  <2>1. CASE Evict(e)
    BY <1>1, <2>1 DEF CacheTypes, CacheSafe, IInv, TypeOK, Evict, Cache!Evict, Cache!Unmapped
  <2>2. CASE Free(e)
    BY <1>1, <2>2 DEF CacheTypes, CacheSafe, IInv, TypeOK, Free, Cache!Free, Cache!Mapped
  <2> QED BY <2>1, <2>2
<1>3. TypeOK'
  BY <1>2 DEF IInv, TypeOK, CacheTypes
<1>4. HandlesAccounted' /\ (\A u \in Thread : Locals(u)') /\ BuffersApart'
  BY <1>2 DEF IInv, HandlesAccounted, Locals, BuffersApart
<1> QED BY <1>2, <1>3, <1>4 DEF IInv

LEMMA InitIInv == Init => IInv
<1> SUFFICES ASSUME Init PROVE IInv
  OBVIOUS
<1>1. TypeOK
  BY BlockCacheAssumption DEF Init, TypeOK, Cache!Init, List
<1>2. CacheSafe /\ (\A t \in Thread : Locals(t)) /\ BuffersApart
  BY DEF Init, CacheSafe, Locals, BuffersApart, Cache!Init
<1>3. HandlesAccounted
  <2> SUFFICES ASSUME NEW e \in Entry
               PROVE  handles[e] =
                        Cardinality({p \in Instance \X List : cache_handles[p[1]][p[2]] = e})
                        + Cardinality({t \in Thread : old[t] = e})
    BY DEF HandlesAccounted
  <2>1. e # Nil
    BY BlockCacheAssumption
  <2>2. /\ {p \in Instance \X List : cache_handles[p[1]][p[2]] = e} = {}
        /\ {t \in Thread : old[t] = e} = {} /\ handles[e] = 0
    BY <2>1 DEF Init, Cache!Init
  <2>3. Cardinality({}) = 0
    BY FS_EmptySet
  <2> QED BY <2>2, <2>3
<1> QED BY <1>1, <1>2, <1>3 DEF IInv

LEMMA NextIInv == IInv /\ [Next]_vars => IInv'
<1> SUFFICES ASSUME IInv, [Next]_vars PROVE IInv'
  OBVIOUS
<1>1. ASSUME NEW t \in Thread, Proceed(t) PROVE IInv'
  <2>1. 0 \in List
    BY BlockCacheAssumption DEF List
  <2> QED BY <1>1, <2>1, LookupHitIInv, ReleaseOldIInv, AllocateIInv, ReadIInv, ReadFailsIInv,
             InsertBufferIInv, ThreadIInv DEF Proceed
<1>2. ASSUME NEW t \in Thread, NEW l \in List, ScanList(t, l) PROVE IInv'
  BY <1>2, ThreadIInv
<1>3. ASSUME NEW i \in Instance, Destroy(i) \/ Reopen(i) PROVE IInv'
  BY <1>3, InstanceIInv
<1>4. ASSUME NEW i \in Instance, NEW l \in List, DestroyHandle(i, l) PROVE IInv'
  BY <1>4, DestroyHandleIInv
<1>5. ASSUME NEW e \in Entry, Evict(e) \/ Free(e) PROVE IInv'
  BY <1>5, CacheIInv
<1>6. CASE UNCHANGED vars
  BY <1>6 DEF vars, IInv, TypeOK, CacheSafe, HandlesAccounted, Locals, BuffersApart
<1> QED BY <1>1, <1>2, <1>3, <1>4, <1>5, <1>6 DEF Next

\* What holds of BlockCacheInvertedLists whichever threads and indexes share the
\* cache: the entries are counted as the handles on them, each handle get_ptr
\* obtained is in one place, and a buffer is either on its way into the cache or
\* in it, never both.
THEOREM BlockCacheInvariant == Spec => []IInv
BY InitIInv, NextIInv, PTL DEF Spec

\* Every variable keeps its type, whichever files and indexes the threads share.
THEOREM TypeCorrect == Spec => []TypeOK
<1>1. IInv => TypeOK
  BY DEF IInv
<1> QED BY <1>1, BlockCacheInvariant, PTL

\* Every handle that get_ptr obtains stays where it will be released once, however
\* many threads and indexes share lists: the swap under the lock of a list, the
\* destructor of the temporary and that of the index lose none.
THEOREM EveryHandleHasAnOwner == Spec => []HandlesAccounted
<1>1. IInv => HandlesAccounted
  BY DEF IInv
<1> QED BY <1>1, BlockCacheInvariant, PTL

-----------------------------------------------------------------------------
(***************************************************************************)
(* Every step keeps SInv.                                                  *)
(***************************************************************************)

\* What a step leaves alone of a thread that does not take it.
SameThread(u) ==
    /\ pc'[u] = pc[u] /\ list_no'[u] = list_no[u] /\ phase'[u] = phase[u]
    /\ codes'[u] = codes[u] /\ ids'[u] = ids[u] /\ old'[u] = old[u] /\ buffer'[u] = buffer[u]
    /\ pc[u] # "idle" => Kept(u)' = Kept(u)
    /\ pc[u] # "idle" /\ InstanceOf[u] \in opened => InstanceOf[u] \in opened'
    /\ pc[u] = "read" => pos'[InstanceOf[u]] = pos[InstanceOf[u]]
    /\ pc[u] = "insert" => content'[buffer[u]] = content[buffer[u]]

LEMMA OthersKeep ==
  ASSUME SInv, NEW u \in Thread, SameThread(u)
  PROVE  (Pointers(u) /\ Reads(u))'
<1>1. Pointers(u) /\ Reads(u)
  BY DEF SInv
<1>2. Pointers(u)'
  BY <1>1 DEF Pointers, SameThread
<1>3. Reads(u)'
  BY <1>1 DEF Reads, SameThread
<1> QED BY <1>2, <1>3

\* The cache drops at most an entry that nobody holds any more.
Shrinks(e) ==
    /\ \A k \in CacheKey : \/ map'[k] = map[k]
                           \/ map'[k] = Nil /\ map[k] = e /\ handles'[e] = 0
    /\ \A i \in Instance, l \in List : cache_handles'[i][l] \in {Nil, cache_handles[i][l]}
    /\ \A k \in CacheKey : map'[k] # Nil => content'[map'[k]] = content[map'[k]]

LEMMA KeptCounted ==
  ASSUME IInv', NEW i \in Instance, NEW l \in List, cache_handles'[i][l] # Nil
  PROVE  handles'[cache_handles'[i][l]] > 0
<1>1. cache_handles'[i][l] \in Entry
  BY DEF IInv, TypeOK
<1>2. <<i, l>> \in Held(cache_handles', cache_handles'[i][l])
  BY DEF Held
<1>3. Cardinality(Held(cache_handles', cache_handles'[i][l])) # 0
  BY <1>2, HeldFinite, FS_EmptySet
<1>4. \A e \in Entry :
        handles'[e] = Cardinality(Held(cache_handles', e)) + Cardinality(Temps(old', e))
  BY DEF IInv, HandlesAccounted, Held, Temps
<1> QED BY <1>1, <1>3, <1>4, HeldFinite, TempsFinite

LEMMA ShrinksSafe ==
  ASSUME IInv', SInv, NEW e \in Entry, Shrinks(e)
  PROVE  KeptIsCached' /\ CachedIsTheList'
<1>1. ASSUME NEW i \in Instance, NEW l \in List, cache_handles'[i][l] # Nil
      PROVE  /\ map'[<<FileOf[i], l>>] = cache_handles'[i][l]
             /\ \E t \in Thread : InstanceOf[t] = i
  <2>1. cache_handles'[i][l] = cache_handles[i][l]
    BY <1>1 DEF Shrinks
  <2>2. handles'[cache_handles'[i][l]] > 0
    BY <1>1, KeptCounted
  <2>3. /\ map[<<FileOf[i], l>>] = cache_handles[i][l] /\ \E t \in Thread : InstanceOf[t] = i
    BY <1>1, <2>1 DEF SInv, KeptIsCached
  <2>4. <<FileOf[i], l>> \in CacheKey
    BY BlockCacheAssumption DEF CacheKey
  <2>5. handles'[e] = 0 => cache_handles'[i][l] # e
    BY <2>2
  <2> QED BY <2>1, <2>3, <2>4, <2>5 DEF Shrinks
<1>2. ASSUME NEW f \in File, NEW l \in List, map'[<<f, l>>] # Nil
      PROVE  Holds(content'[map'[<<f, l>>]], f, l)
  <2>1. <<f, l>> \in CacheKey
    BY DEF CacheKey
  <2>2. map'[<<f, l>>] = map[<<f, l>>] /\ content'[map'[<<f, l>>]] = content[map[<<f, l>>]]
    BY <1>2, <2>1 DEF Shrinks
  <2> QED BY <1>2, <2>2 DEF SInv, CachedIsTheList
<1>3. KeptIsCached'
  BY <1>1 DEF KeptIsCached
<1> QED BY <1>2, <1>3 DEF CachedIsTheList, Holds

\* The threads of a process that searches each file in one thread have indexes of
\* their own.
LEMMA Apart ==
  ASSUME OneThreadPerFile, NEW t \in Thread, NEW u \in Thread, u # t
  PROVE  InstanceOf[u] # InstanceOf[t]
BY DEF OneThreadPerFile

\* A step outside of the cache that leaves the entries in it alone.
LEMMA MapKeeps ==
  ASSUME SInv, UNCHANGED <<map, cache_handles>>,
         \A k \in CacheKey : map[k] # Nil => content'[map[k]] = content[map[k]]
  PROVE  KeptIsCached' /\ CachedIsTheList'
<1>1. KeptIsCached'
  BY DEF SInv, KeptIsCached
<1>2. ASSUME NEW f \in File, NEW l \in List, map'[<<f, l>>] # Nil
      PROVE  Holds(content'[map'[<<f, l>>]], f, l)
  <2>1. <<f, l>> \in CacheKey
    BY DEF CacheKey
  <2> QED BY <1>2, <2>1 DEF SInv, CachedIsTheList
<1> QED BY <1>1, <1>2 DEF CachedIsTheList, Holds

LEMMA ScanListSInv ==
  ASSUME IInv, SInv, NEW t \in Thread, NEW l \in List, ScanList(t, l)
  PROVE  SInv'
<1>1. /\ pc[t] = "idle" /\ InstanceOf[t] \in opened /\ pc' = [pc EXCEPT ![t] = "lookup"]
      /\ list_no' = [list_no EXCEPT ![t] = l]
      /\ UNCHANGED <<map, opened, pos, cache_handles, phase, buffer, old, codes, ids, content>>
  BY DEF ScanList, cacheVars
<1>2. ASSUME NEW u \in Thread PROVE (Pointers(u) /\ Reads(u))'
  <2>1. CASE u = t
    <3>1. Pointers(t) /\ pc'[t] = "lookup"
      BY <1>1 DEF SInv, IInv, TypeOK
    <3> QED BY <1>1, <2>1, <3>1 DEF Pointers, Reads
  <2>2. CASE u # t
    <3>1. SameThread(u)
      BY <1>1, <2>2 DEF SameThread, Kept, IInv, TypeOK
    <3> QED BY <3>1, OthersKeep
  <2> QED BY <2>1, <2>2
<1> QED BY <1>1, <1>2, MapKeeps DEF SInv

\* What a step at one list leaves alone of the threads with other indexes.
LEMMA SwapApart ==
  ASSUME IInv, OneThreadPerFile, NEW t \in Thread, NEW u \in Thread, u # t, NEW e \in Entry,
         SwapHandle(t, e), UNCHANGED <<list_no, opened, pos, content>>, buffer'[u] = buffer[u]
  PROVE  SameThread(u)
<1>1. TypeOK /\ InstanceOf[u] # InstanceOf[t] /\ InstanceOf[u] \in Instance /\ list_no[u] \in List
  BY Apart, KeyType DEF IInv
<1>2. Kept(u)' = Kept(u)
  <2>1. SameElsewhere(cache_handles', cache_handles, InstanceOf[t], list_no[t])
    BY <1>1, SwapTypes
  <2> QED BY <1>1, <2>1 DEF SameElsewhere, Kept
<1>3. pc'[u] = pc[u] /\ old'[u] = old[u]
  BY <1>1, SwapTypes
<1>4. phase'[u] = phase[u] /\ codes'[u] = codes[u] /\ ids'[u] = ids[u]
  <2>1. CASE UNCHANGED <<codes, ids, phase>>
    BY <2>1
  <2>2. CASE Return(t, e)
    BY <1>1, <2>2 DEF Return, TypeOK
  <2> QED BY <2>1, <2>2 DEF SwapHandle
<1> QED BY <1>2, <1>3, <1>4 DEF SameThread

\* What get_ptr returns to get_codes or get_ids.
LEMMA ReturnPointers ==
  ASSUME IInv, SInv, NEW t \in Thread, NEW e \in Entry, Return(t, e), Kept(t)' = e,
         UNCHANGED opened, pc[t] \in {"lookup", "swap", "insert"},
         phase[t] = "ids" => codes[t] = e
  PROVE  (Pointers(t) /\ Reads(t))'
<1>1. TypeOK /\ Pointers(t) /\ Reads(t) /\ e # Nil
  BY BlockCacheAssumption DEF IInv, SInv
<1>2. CASE phase[t] = "codes"
  <2>1. codes'[t] = e /\ phase'[t] = "ids" /\ pc'[t] = "lookup" /\ ids'[t] = ids[t]
    BY <1>1, <1>2 DEF Return, TypeOK
  <2> QED BY <1>1, <2>1 DEF Pointers, Reads
<1>3. CASE phase[t] # "codes"
  <2>1. ids'[t] = e /\ phase'[t] = "ids" /\ pc'[t] = "scan" /\ codes'[t] = codes[t] /\ codes[t] = e
    BY <1>1, <1>3 DEF Return, TypeOK
  <2> QED BY <1>1, <2>1 DEF Pointers, Reads
<1> QED BY <1>2, <1>3

\* A list that is found is the one that is kept, if any is.
LEMMA LookupHitSInv ==
  ASSUME IInv, SInv, OneThreadPerFile, NEW t \in Thread, LookupHit(t)
  PROVE  SInv'
<1> DEFINE e == map[KeyFor(t)]
<1>1. /\ pc[t] = "lookup" /\ Cache!Lookup(KeyFor(t)) /\ SwapHandle(t, e)
      /\ UNCHANGED <<map, opened, pos, list_no, buffer, content>>
  BY DEF LookupHit, Cache!Lookup
<1>2. /\ TypeOK /\ KeyFor(t) \in CacheKey /\ InstanceOf[t] \in Instance /\ list_no[t] \in List
      /\ Pointers(t) /\ Reads(t)
  BY KeyType DEF IInv, SInv
<1>3. e \in Entry /\ e # Nil
  BY <1>1, <1>2, LookupSafe, BlockCacheAssumption
<1>4. Kept(t) # Nil => Kept(t) = e
  BY <1>2 DEF SInv, KeptIsCached, Kept, KeyFor
<1>5. /\ cache_handles'[InstanceOf[t]][list_no[t]] = e
      /\ SameElsewhere(cache_handles', cache_handles, InstanceOf[t], list_no[t])
      /\ old'[t] = Kept(t)
  BY <1>1, <1>2, <1>3, SwapTypes
<1>6. Kept(t)' = e
  BY <1>1, <1>5 DEF Kept
<1>7. KeptIsCached'
  <2> SUFFICES ASSUME NEW i \in Instance, NEW l \in List, cache_handles'[i][l] # Nil
               PROVE  /\ map[<<FileOf[i], l>>] = cache_handles'[i][l]
                      /\ \E u \in Thread : InstanceOf[u] = i
    BY <1>1 DEF KeptIsCached
  <2>1. CASE <<i, l>> = <<InstanceOf[t], list_no[t]>>
    <3>1. i = InstanceOf[t] /\ l = list_no[t]
      BY <2>1
    <3> QED BY <1>5, <3>1 DEF KeyFor
  <2>2. CASE <<i, l>> # <<InstanceOf[t], list_no[t]>>
    BY <1>5, <2>2 DEF SInv, KeptIsCached, SameElsewhere
  <2> QED BY <2>1, <2>2
<1>8. CachedIsTheList'
  BY <1>1 DEF SInv, CachedIsTheList, Holds
<1>9. (Pointers(t) /\ Reads(t))'
  <2>1. CASE Kept(t) # Nil
    <3>1. /\ pc' = [pc EXCEPT ![t] = "swap"] /\ UNCHANGED <<codes, ids, phase>>
      BY <1>1, <2>1 DEF SwapHandle, Kept
    <3>2. pc'[t] = "swap"
      BY <1>2, <3>1 DEF TypeOK
    <3> QED BY <1>1, <1>2, <1>4, <1>5, <1>6, <2>1, <3>1, <3>2 DEF Pointers, Reads
  <2>2. CASE Kept(t) = Nil
    <3>1. Return(t, e)
      BY <1>1, <2>2 DEF SwapHandle, Kept
    <3>2. phase[t] # "ids"
      BY <1>2, <2>2 DEF Pointers
    <3> QED BY <1>1, <1>3, <1>6, <3>1, <3>2, ReturnPointers
  <2> QED BY <2>1, <2>2
<1>10. ASSUME NEW u \in Thread, u # t PROVE (Pointers(u) /\ Reads(u))'
  <2>1. SameThread(u)
    BY <1>1, <1>3, <1>10, SwapApart
  <2> QED BY <2>1, OthersKeep
<1> QED BY <1>7, <1>8, <1>9, <1>10 DEF SInv

LEMMA InsertBufferSInv ==
  ASSUME IInv, SInv, OneThreadPerFile, NEW t \in Thread, InsertBuffer(t)
  PROVE  SInv'
<1> DEFINE e == buffer[t]
           i == InstanceOf[t]
           l == list_no[t]
<1>1. /\ pc[t] = "insert" /\ Cache!Insert(KeyFor(t), e) /\ SwapHandle(t, e)
      /\ buffer' = [buffer EXCEPT ![t] = Nil]
      /\ UNCHANGED <<opened, pos, list_no, content>>
  BY DEF InsertBuffer
<1>2. /\ TypeOK /\ KeyFor(t) \in CacheKey /\ i \in Instance /\ l \in List /\ FileOf[i] \in File
      /\ Pointers(t) /\ Reads(t) /\ e \in Entry /\ e # Nil
  BY <1>1, KeyType DEF IInv, SInv, TypeOK, Locals
<1>3. Kept(t) = Nil /\ phase[t] # "ids"
  BY <1>1, <1>2 DEF Pointers, Reads
<1>4. /\ cache_handles'[i][l] = e /\ SameElsewhere(cache_handles', cache_handles, i, l)
  BY <1>1, <1>2, SwapTypes
<1>5. Kept(t)' = e
  BY <1>1, <1>4 DEF Kept
<1>6. /\ map'[<<FileOf[i], l>>] = e
      /\ \A k \in CacheKey : k # <<FileOf[i], l>> => map'[k] = map[k]
  BY <1>1, <1>2 DEF Cache!Insert, KeyFor, TypeOK
<1>7. KeptIsCached'
  <2> SUFFICES ASSUME NEW j \in Instance, NEW m \in List, cache_handles'[j][m] # Nil
               PROVE  /\ map'[<<FileOf[j], m>>] = cache_handles'[j][m]
                      /\ \E u \in Thread : InstanceOf[u] = j
    BY DEF KeptIsCached
  <2>1. CASE j = i /\ m = l
    BY <1>4, <1>6, <2>1
  <2>2. CASE ~(j = i /\ m = l)
    <3>1. cache_handles'[j][m] = cache_handles[j][m]
      BY <1>4, <2>2 DEF SameElsewhere
    <3>2. /\ map[<<FileOf[j], m>>] = cache_handles[j][m] /\ \E u \in Thread : InstanceOf[u] = j
      BY <3>1 DEF SInv, KeptIsCached
    <3>3. <<FileOf[j], m>> # <<FileOf[i], l>>
      <4>1. FileOf[j] = FileOf[i] => j = i
        BY <3>2 DEF OneThreadPerFile
      <4> QED BY <2>2, <4>1
    <3>4. <<FileOf[j], m>> \in CacheKey
      BY BlockCacheAssumption DEF CacheKey
    <3> QED BY <1>6, <3>1, <3>2, <3>3, <3>4
  <2> QED BY <2>1, <2>2
<1>8. CachedIsTheList'
  <2> SUFFICES ASSUME NEW f \in File, NEW m \in List, map'[<<f, m>>] # Nil
               PROVE  Holds(content[map'[<<f, m>>]], f, m)
    BY <1>1 DEF CachedIsTheList, Holds
  <2>1. CASE <<f, m>> = <<FileOf[i], l>>
    <3>1. f = FileOf[i] /\ m = l
      BY <2>1
    <3>2. content[e] = <<f, AlignedOffset(m), ExpectedReadSize(m)>>
      BY <1>1, <1>2, <3>1 DEF Reads
    <3>3. map'[<<f, m>>] = e
      BY <1>6, <3>1
    <3> QED BY <3>2, <3>3, ReadHoldsTheList
  <2>2. CASE <<f, m>> # <<FileOf[i], l>>
    <3>1. <<f, m>> \in CacheKey
      BY DEF CacheKey
    <3> QED BY <1>6, <2>2, <3>1 DEF SInv, CachedIsTheList
  <2> QED BY <2>1, <2>2
<1>9. (Pointers(t) /\ Reads(t))'
  <2>1. Return(t, e)
    BY <1>1, <1>3 DEF SwapHandle, Kept
  <2> QED BY <1>1, <1>2, <1>3, <1>5, <2>1, ReturnPointers
<1>10. ASSUME NEW u \in Thread, u # t PROVE (Pointers(u) /\ Reads(u))'
  <2>1. buffer'[u] = buffer[u]
    BY <1>1, <1>2, <1>10 DEF TypeOK
  <2>2. SameThread(u)
    BY <1>1, <1>2, <1>10, <2>1, SwapApart
  <2> QED BY <2>2, OthersKeep
<1> QED BY <1>7, <1>8, <1>9, <1>10 DEF SInv

LEMMA ReleaseOldSInv ==
  ASSUME IInv, IInv', SInv, NEW t \in Thread, ReleaseOld(t)
  PROVE  SInv'
<1>1. /\ pc[t] = "swap" /\ Cache!Release(old[t]) /\ old' = [old EXCEPT ![t] = Nil]
      /\ Return(t, Kept(t))
      /\ UNCHANGED <<opened, pos, cache_handles, list_no, buffer, content>>
  BY DEF ReleaseOld, Kept
<1>2. /\ TypeOK /\ Pointers(t) /\ Reads(t) /\ old[t] \in Entry /\ old[t] = Kept(t)
      /\ old[t] # Nil
  BY <1>1 DEF IInv, SInv, TypeOK, Locals, Reads
<1>3. KeptIsCached' /\ CachedIsTheList'
  <2>1. Shrinks(old[t])
    BY <1>1, <1>2, ReleaseSafe DEF Shrinks
  <2> QED BY <1>2, <2>1, ShrinksSafe
<1>4. (Pointers(t) /\ Reads(t))'
  <2>1. Kept(t)' = Kept(t)
    BY <1>1 DEF Kept
  <2>2. phase[t] = "ids" => codes[t] = Kept(t)
    BY <1>2 DEF Pointers
  <2> QED BY <1>1, <1>2, <2>1, <2>2, ReturnPointers
<1>5. ASSUME NEW u \in Thread, u # t PROVE (Pointers(u) /\ Reads(u))'
  <2>1. phase'[u] = phase[u] /\ codes'[u] = codes[u] /\ ids'[u] = ids[u] /\ pc'[u] = pc[u]
    BY <1>1, <1>2, <1>5 DEF Return, TypeOK
  <2>2. old'[u] = old[u] /\ Kept(u)' = Kept(u)
    BY <1>1, <1>2, <1>5 DEF TypeOK, Kept
  <2>3. SameThread(u)
    BY <1>1, <2>1, <2>2 DEF SameThread
  <2> QED BY <2>3, OthersKeep
<1> QED BY <1>3, <1>4, <1>5 DEF SInv

LEMMA LookupMissSInv ==
  ASSUME IInv, SInv, NEW t \in Thread, LookupMiss(t)
  PROVE  SInv'
<1>1. /\ pc[t] = "lookup" /\ map[KeyFor(t)] = Nil /\ pc' = [pc EXCEPT ![t] = "alloc"]
      /\ UNCHANGED <<map, opened, pos, cache_handles, list_no, phase, buffer, old, codes, ids,
                     content>>
  BY DEF LookupMiss, cacheVars
<1>2. ASSUME NEW u \in Thread PROVE (Pointers(u) /\ Reads(u))'
  <2>1. CASE u = t
    <3>1. Pointers(t) /\ Reads(t) /\ pc'[t] = "alloc"
      BY <1>1 DEF SInv, IInv, TypeOK
    <3>2. Kept(t) = Nil /\ Kept(t)' = Kept(t)
      BY <1>1, KeyType DEF IInv, SInv, KeptIsCached, Kept, KeyFor
    <3> QED BY <1>1, <2>1, <3>1, <3>2 DEF Pointers, Reads
  <2>2. CASE u # t
    <3>1. SameThread(u)
      BY <1>1, <2>2 DEF SameThread, Kept, IInv, TypeOK
    <3> QED BY <3>1, OthersKeep
  <2> QED BY <2>1, <2>2
<1> QED BY <1>1, <1>2, MapKeeps DEF SInv

LEMMA AllocateSInv ==
  ASSUME IInv, SInv, NEW t \in Thread, Allocate(t)
  PROVE  SInv'
<1>1. PICK e : buffer' = [buffer EXCEPT ![t] = e]
  BY DEF Allocate
<1>2. /\ pc[t] = "alloc" /\ pc' = [pc EXCEPT ![t] = "seek"]
      /\ UNCHANGED <<map, opened, pos, cache_handles, list_no, phase, old, codes, ids, content>>
  BY DEF Allocate, cacheVars
<1>3. ASSUME NEW u \in Thread PROVE (Pointers(u) /\ Reads(u))'
  <2>1. CASE u = t
    <3>1. Pointers(t) /\ Reads(t) /\ pc'[t] = "seek" /\ Kept(t)' = Kept(t)
      BY <1>2 DEF SInv, IInv, TypeOK, Kept
    <3> QED BY <1>2, <2>1, <3>1 DEF Pointers, Reads
  <2>2. CASE u # t
    <3>1. SameThread(u)
      BY <1>1, <1>2, <2>2 DEF SameThread, Kept, IInv, TypeOK
    <3> QED BY <3>1, OthersKeep
  <2> QED BY <2>1, <2>2
<1> QED BY <1>2, <1>3, MapKeeps DEF SInv

\* scan_list_func is left, normally or by an exception.
LEMMA LeaveSInv ==
  ASSUME IInv, SInv, OneThreadPerFile, NEW t \in Thread, Leave(t),
         UNCHANGED <<map, opened, cache_handles, list_no, old, content>>,
         \A u \in Thread : u # t => buffer'[u] = buffer[u],
         \A i \in Instance : i # InstanceOf[t] => pos'[i] = pos[i]
  PROVE  SInv'
<1>1. ASSUME NEW u \in Thread PROVE (Pointers(u) /\ Reads(u))'
  <2>1. CASE u = t
    <3>1. pc'[t] = "idle" /\ phase'[t] = "codes" /\ codes'[t] = Nil /\ ids'[t] = Nil
      BY DEF Leave, IInv, TypeOK
    <3> QED BY <2>1, <3>1 DEF Pointers, Reads
  <2>2. CASE u # t
    <3>1. InstanceOf[u] # InstanceOf[t] /\ InstanceOf[u] \in Instance
      BY <2>2, Apart, KeyType DEF IInv
    <3>2. pc'[u] = pc[u] /\ phase'[u] = phase[u] /\ codes'[u] = codes[u] /\ ids'[u] = ids[u]
      BY <2>2 DEF Leave, IInv, TypeOK
    <3>3. SameThread(u)
      BY <2>2, <3>1, <3>2 DEF SameThread, Kept
    <3> QED BY <3>3, OthersKeep
  <2> QED BY <2>1, <2>2
<1> QED BY <1>1, MapKeeps DEF SInv

LEMMA LeavesSInv ==
  ASSUME IInv, SInv, OneThreadPerFile, NEW t \in Thread,
         AllocateFails(t) \/ ReadFails(t) \/ ScanDone(t)
  PROVE  SInv'
<1>1. CASE AllocateFails(t)
  BY <1>1, LeaveSInv DEF AllocateFails, cacheVars
<1>2. CASE ReadFails(t)
  <2>1. /\ \A u \in Thread : u # t => buffer'[u] = buffer[u]
        /\ \A i \in Instance : i # InstanceOf[t] => pos'[i] = pos[i]
    BY <1>2 DEF ReadFails, IInv, TypeOK
  <2> QED BY <1>2, <2>1, LeaveSInv DEF ReadFails, cacheVars
<1>3. CASE ScanDone(t)
  BY <1>3, LeaveSInv DEF ScanDone, cacheVars
<1> QED BY <1>1, <1>2, <1>3

LEMMA SeekSInv ==
  ASSUME IInv, SInv, OneThreadPerFile, NEW t \in Thread, Seek(t)
  PROVE  SInv'
<1>1. /\ pc[t] = "seek" /\ pos' = [pos EXCEPT ![InstanceOf[t]] = AlignedOffset(list_no[t])]
      /\ pc' = [pc EXCEPT ![t] = "read"]
      /\ UNCHANGED <<map, opened, cache_handles, list_no, phase, buffer, old, codes, ids, content>>
  BY DEF Seek, cacheVars
<1>2. ASSUME NEW u \in Thread PROVE (Pointers(u) /\ Reads(u))'
  <2>1. CASE u = t
    <3>1. Pointers(t) /\ Reads(t) /\ pc'[t] = "read" /\ Kept(t)' = Kept(t)
      BY <1>1 DEF SInv, IInv, TypeOK, Kept
    <3>2. pos'[InstanceOf[t]] = AlignedOffset(list_no[t]) /\ AlignedOffset(list_no[t])' = AlignedOffset(list_no[t])
      BY <1>1, KeyType DEF IInv, TypeOK, AlignedOffset
    <3> QED BY <1>1, <2>1, <3>1, <3>2 DEF Pointers, Reads
  <2>2. CASE u # t
    <3>1. InstanceOf[u] # InstanceOf[t]
      BY <2>2, Apart
    <3>2. SameThread(u)
      BY <1>1, <2>2, <3>1, KeyType DEF SameThread, Kept, IInv, TypeOK
    <3> QED BY <3>2, OthersKeep
  <2> QED BY <2>1, <2>2
<1> QED BY <1>1, <1>2, MapKeeps DEF SInv

\* The descriptor is where the thread has put it, and the buffer is the thread's own.
LEMMA ReadSInv ==
  ASSUME IInv, SInv, OneThreadPerFile, NEW t \in Thread, Read(t)
  PROVE  SInv'
<1> DEFINE i == InstanceOf[t]
           l == list_no[t]
           n == ReadSize(pos[i], AlignedSize(l))
<1>1. /\ pc[t] = "read" /\ n = ExpectedReadSize(l) /\ pos' = [pos EXCEPT ![i] = @ + n]
      /\ content' = [content EXCEPT ![buffer[t]] = <<FileOf[i], pos[i], n>>]
      /\ pc' = [pc EXCEPT ![t] = "insert"]
      /\ UNCHANGED <<map, opened, cache_handles, list_no, phase, buffer, old, codes, ids>>
  BY DEF Read, cacheVars
<1>2. /\ TypeOK /\ Pointers(t) /\ Reads(t) /\ buffer[t] \in Entry /\ buffer[t] # Nil
      /\ buffer[t] \notin alive /\ \A u \in Thread : u # t => buffer[u] # buffer[t]
  BY <1>1 DEF IInv, SInv, TypeOK, Locals, BuffersApart
<1> HIDE DEF n
<1>3. /\ content'[buffer[t]] = <<FileOf[i], AlignedOffset(l), ExpectedReadSize(l)>>
      /\ \A e \in Entry : e # buffer[t] => content'[e] = content[e]
  BY <1>1, <1>2 DEF TypeOK, Reads
<1>4. ASSUME NEW u \in Thread PROVE (Pointers(u) /\ Reads(u))'
  <2>1. CASE u = t
    <3>1. pc'[t] = "insert" /\ Kept(t)' = Kept(t) /\ buffer'[t] = buffer[t] /\ list_no'[t] = l
      BY <1>1, <1>2 DEF TypeOK, Kept
    <3>2. AlignedOffset(list_no'[t]) = AlignedOffset(l) /\ ExpectedReadSize(list_no'[t]) = ExpectedReadSize(l)
      BY <3>1
    <3>3. Pointers(t)'
      BY <1>1, <1>2, <3>1 DEF Pointers
    <3>4. Reads(t)'
      BY <1>1, <1>2, <1>3, <3>1, <3>2 DEF Reads
    <3> QED BY <2>1, <3>3, <3>4
  <2>2. CASE u # t
    <3>1. InstanceOf[u] # InstanceOf[t]
      BY <2>2, Apart
    <3>2. pc[u] = "insert" => buffer[u] \in Entry /\ buffer[u] # buffer[t]
      BY <1>2, <2>2 DEF IInv, TypeOK, Locals
    <3>3. SameThread(u)
      BY <1>1, <1>2, <1>3, <2>2, <3>1, <3>2, KeyType DEF SameThread, Kept, TypeOK
    <3> QED BY <3>3, OthersKeep
  <2> QED BY <2>1, <2>2
<1>5. \A k \in CacheKey : map[k] # Nil => content'[map[k]] = content[map[k]]
  BY <1>2, <1>3 DEF IInv, TypeOK, CacheSafe
<1> QED BY <1>1, <1>4, <1>5, MapKeeps DEF SInv

LEMMA InstanceSInv ==
  ASSUME IInv, SInv, NEW i \in Instance, Destroy(i) \/ Reopen(i)
  PROVE  SInv'
<1>1. UNCHANGED <<map, cache_handles, pc, list_no, phase, buffer, old, codes, ids, content>>
  BY DEF Destroy, Reopen, cacheVars
<1>2. ASSUME NEW u \in Thread PROVE SameThread(u)
  <2>1. pc[u] # "idle" => InstanceOf[u] \in opened
    BY DEF SInv, Reads
  <2>2. pc[u] # "idle" => InstanceOf[u] \in opened'
    BY <2>1 DEF Destroy, Reopen
  <2>3. pc[u] = "read" => pos'[InstanceOf[u]] = pos[InstanceOf[u]]
    BY <2>1, KeyType DEF Destroy, Reopen, IInv, TypeOK
  <2> QED BY <1>1, <2>2, <2>3 DEF SameThread, Kept
<1> QED BY <1>1, <1>2, OthersKeep, MapKeeps DEF SInv

LEMMA DestroyHandleSInv ==
  ASSUME IInv, IInv', SInv, NEW i \in Instance, NEW l \in List, DestroyHandle(i, l)
  PROVE  SInv'
<1> DEFINE e == cache_handles[i][l]
<1>1. /\ i \notin opened /\ e # Nil /\ Cache!Release(e)
      /\ cache_handles' = [cache_handles EXCEPT ![i][l] = Nil]
      /\ UNCHANGED <<opened, pos, pc, list_no, phase, buffer, old, codes, ids, content>>
  BY DEF DestroyHandle
<1>2. TypeOK /\ e \in Entry
  BY <1>1 DEF IInv, TypeOK
<1>3. KeptIsCached' /\ CachedIsTheList'
  <2>1. \A j \in Instance, m \in List : cache_handles'[j][m] \in {Nil, cache_handles[j][m]}
    BY <1>1, <1>2 DEF TypeOK
  <2>2. Shrinks(e)
    BY <1>1, <1>2, <2>1, ReleaseSafe DEF Shrinks
  <2> QED BY <1>2, <2>2, ShrinksSafe
<1>4. ASSUME NEW u \in Thread PROVE SameThread(u)
  <2>1. pc[u] # "idle" => InstanceOf[u] # i
    BY <1>1 DEF SInv, Reads
  <2>2. pc[u] # "idle" => Kept(u)' = Kept(u)
    BY <1>1, <1>2, <2>1, KeyType DEF Kept, TypeOK
  <2> QED BY <1>1, <2>2 DEF SameThread
<1> QED BY <1>3, <1>4, OthersKeep DEF SInv

LEMMA CacheSInv ==
  ASSUME IInv, IInv', SInv, NEW e \in Entry, Evict(e) \/ Free(e)
  PROVE  SInv'
<1>1. UNCHANGED <<opened, pos, cache_handles, pc, list_no, phase, buffer, old, codes, ids>>
  BY DEF Evict, Free
<1>2. Shrinks(e) /\ (\A x \in Entry : x # e \/ x \notin alive => content'[x] = content[x])
  <2>1. CASE Evict(e)
    BY <1>1, <2>1 DEF Evict, Cache!Evict, Cache!Unmapped, Shrinks, IInv, TypeOK
  <2>2. CASE Free(e)
    BY <1>1, <2>2 DEF Free, Cache!Free, Cache!Mapped, Shrinks, IInv, TypeOK
  <2> QED BY <2>1, <2>2
<1>3. ASSUME NEW u \in Thread PROVE SameThread(u)
  <2>1. pc[u] = "insert" => content'[buffer[u]] = content[buffer[u]]
    BY <1>2 DEF IInv, TypeOK, Locals, BuffersApart
  <2> QED BY <1>1, <2>1 DEF SameThread, Kept
<1> QED BY <1>2, <1>3, OthersKeep, ShrinksSafe DEF SInv

LEMMA InitSInv == Init => SInv
BY DEF Init, SInv, KeptIsCached, CachedIsTheList, Pointers, Reads, CacheKey, Cache!Init

LEMMA NextSInv ==
  ASSUME OneThreadPerFile
  PROVE  IInv /\ IInv' /\ SInv /\ [Next]_vars => SInv'
<1> SUFFICES ASSUME IInv, IInv', SInv, [Next]_vars PROVE SInv'
  OBVIOUS
<1>1. ASSUME NEW t \in Thread, Proceed(t) PROVE SInv'
  BY <1>1, LookupHitSInv, LookupMissSInv, ReleaseOldSInv, AllocateSInv, LeavesSInv, SeekSInv,
     ReadSInv, InsertBufferSInv DEF Proceed
<1>2. ASSUME NEW t \in Thread, NEW l \in List, ScanList(t, l) PROVE SInv'
  BY <1>2, ScanListSInv
<1>3. ASSUME NEW i \in Instance, Destroy(i) \/ Reopen(i) PROVE SInv'
  BY <1>3, InstanceSInv
<1>4. ASSUME NEW i \in Instance, NEW l \in List, DestroyHandle(i, l) PROVE SInv'
  BY <1>4, DestroyHandleSInv
<1>5. ASSUME NEW e \in Entry, Evict(e) \/ Free(e) PROVE SInv'
  BY <1>5, CacheSInv
<1>6. CASE UNCHANGED vars
  <2>1. \A u \in Thread : SameThread(u)
    BY <1>6 DEF vars, SameThread, Kept
  <2>2. UNCHANGED <<map, cache_handles, content>>
    BY <1>6 DEF vars
  <2> QED BY <2>1, <2>2, OthersKeep, MapKeeps DEF SInv
<1> QED BY <1>1, <1>2, <1>3, <1>4, <1>5, <1>6 DEF Next

\* Where each file is searched in one thread, what is kept for a list is what is
\* cached for it, and what is cached is the list.
THEOREM OneThreadInvariant ==
  ASSUME OneThreadPerFile
  PROVE  Spec => []SInv
<1>1. IInv /\ IInv' /\ SInv /\ [Next]_vars => SInv'
  BY NextSInv
<1> QED BY <1>1, InitSInv, BlockCacheInvariant, PTL DEF Spec

\* Where each file is searched in one thread, the memory that get_codes and get_ids
\* returned is not freed while the thread has the pointers, whatever the cache
\* evicts, other files fill it with, and other indexes are destroyed.
THEOREM PointersStayValid ==
  ASSUME OneThreadPerFile
  PROVE  Spec => []NoDangling
<1>1. IInv /\ SInv => NoDangling
  <2> SUFFICES ASSUME IInv, SInv, NEW t \in Thread, NEW e \in {codes[t], ids[t]}, e # Nil
               PROVE  e \in alive
    BY DEF NoDangling
  <2>1. e = Kept(t)
    BY DEF SInv, Pointers
  <2>2. InstanceOf[t] \in Instance /\ list_no[t] \in List
    BY KeyType DEF IInv
  <2> QED BY <2>1, <2>2, KeptIsAlive DEF IInv, Kept
<1> QED BY <1>1, BlockCacheInvariant, OneThreadInvariant, PTL

\* Where each file is searched in one thread, the blocks cached under the key of a
\* list hold the whole list: between lseek and read nothing moves the descriptor,
\* and the aligned blocks cover the list, up to the end of the file.
THEOREM CacheHoldsTheLists ==
  ASSUME OneThreadPerFile
  PROVE  Spec => []CachedIsTheList
<1>1. SInv => CachedIsTheList
  BY DEF SInv
<1> QED BY <1>1, OneThreadInvariant, PTL

\* Where each file is searched in one thread, scan_codes_range runs over the codes
\* and ids of the list that was asked for, of the index that was asked.
THEOREM ScansAreOfTheList ==
  ASSUME OneThreadPerFile
  PROVE  Spec => []ScansTheList
<1>1. IInv /\ SInv => ScansTheList
  <2> SUFFICES ASSUME IInv, SInv, NEW t \in Thread, pc[t] = "scan", NEW e \in {codes[t], ids[t]}
               PROVE  Holds(content[e], FileOf[InstanceOf[t]], list_no[t])
    BY DEF ScansTheList
  <2>1. e # Nil /\ e = Kept(t)
    BY DEF SInv, Pointers
  <2>2. InstanceOf[t] \in Instance /\ list_no[t] \in List /\ FileOf[InstanceOf[t]] \in File
    BY KeyType DEF IInv
  <2>3. map[<<FileOf[InstanceOf[t]], list_no[t]>>] = e
    BY <2>1, <2>2 DEF SInv, KeptIsCached, Kept
  <2> QED BY <2>1, <2>2, <2>3 DEF SInv, CachedIsTheList
<1> QED BY <1>1, BlockCacheInvariant, OneThreadInvariant, PTL
=============================================================================
