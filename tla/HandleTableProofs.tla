------------------------- MODULE HandleTableProofs -------------------------
(***************************************************************************)
(* Proofs about HandleTable: the chains hold every entry once, in the      *)
(* bucket of its hash, also while _resize moves them, and the table        *)
(* implements a map from keys to entries.                                  *)
(***************************************************************************)
EXTENDS HandleTable, FiniteSetTheorems, WellFoundedInduction, TLAPS

Ptr == Entry \cup {Nil}

LEMMA SetInduction ==
  ASSUME NEW S, 0 \in S, \A n \in Nat : n \in S => n + 1 \in S
  PROVE  Nat \subseteq S
<1> SUFFICES ASSUME Nat \ S # {} PROVE FALSE
  OBVIOUS
<1>1. IsWellFoundedOn(OpToRel(<, Nat), Nat)
  BY NatLessThanWellFounded
<1>2. PICK n \in Nat \ S : \A m \in Nat \ S : ~(<<m, n>> \in OpToRel(<, Nat))
  BY <1>1, WFMin
<1>3. \A m \in Nat \ S : ~(m < n)
  BY <1>2 DEF OpToRel
<1>4. n # 0 /\ n - 1 \in Nat /\ n - 1 < n
  OBVIOUS
<1>5. n - 1 \in S
  BY <1>3, <1>4
<1>6. (n - 1) + 1 \in S
  BY <1>4, <1>5
<1> QED BY <1>4, <1>6

-----------------------------------------------------------------------------
(***************************************************************************)
(* Loops: Iterate(f, x) is the last of as many turns as there are entries. *)
(***************************************************************************)

LEMMA EntriesFinite == Cardinality(Entry) \in Nat
  BY HandleTableAssumption, FS_CardinalityType

\* The first m turns of a loop.
IsTurns(t, m, S, f, x) ==
    /\ t \in [0..m -> S]
    /\ t[0] = x
    /\ \A n \in 1..m : t[n] = f[t[n - 1]]

LEMMA TurnsExist ==
  ASSUME NEW S, NEW f \in [S -> S], NEW x \in S, NEW m \in Nat
  PROVE  \E t : IsTurns(t, m, S, f, x)
<1> DEFINE T == {n \in Nat : \E t : IsTurns(t, n, S, f, x)}
<1>1. 0 \in T
  <2>1. IsTurns([n \in 0..0 |-> x], 0, S, f, x)
    BY DEF IsTurns
  <2> QED BY <2>1
<1>2. ASSUME NEW n \in Nat, n \in T
      PROVE  n + 1 \in T
  <2>1. PICK t : IsTurns(t, n, S, f, x)
    BY <1>2
  <2> DEFINE u == [l \in 0..(n + 1) |-> IF l = n + 1 THEN f[t[n]] ELSE t[l]]
  <2>2. u \in [0..(n + 1) -> S]
    BY <2>1 DEF IsTurns
  <2>3. u[0] = x
    BY <2>1 DEF IsTurns
  <2>4. ASSUME NEW l \in 1..(n + 1)
        PROVE  u[l] = f[u[l - 1]]
    <3>1. CASE l = n + 1
      <4>1. l - 1 = n /\ u[n] = t[n] /\ u[n + 1] = f[t[n]]
        BY <3>1
      <4> QED BY <3>1, <4>1
    <3>2. CASE l # n + 1
      <4>1. l \in 1..n /\ l \in 0..(n + 1) /\ l - 1 \in 0..(n + 1) /\ l - 1 # n + 1
        BY <3>2
      <4>2. u[l] = t[l] /\ u[l - 1] = t[l - 1]
        BY <3>2, <4>1
      <4> QED BY <2>1, <4>1, <4>2 DEF IsTurns
    <3> QED BY <3>1, <3>2
  <2>5. IsTurns(u, n + 1, S, f, x)
    <3> HIDE DEF u
    <3> QED BY <2>2, <2>3, <2>4 DEF IsTurns
  <2> QED BY <2>5
<1>3. Nat \subseteq T
  <2> HIDE DEF T
  <2> QED BY <1>1, <1>2, SetInduction
<1> QED BY <1>3

\* The recursive function of Iterate is such a loop.
LEMMA IterateIsTurns ==
  ASSUME NEW S, NEW f \in [S -> S], NEW x \in S
  PROVE  \E t : /\ IsTurns(t, Cardinality(Entry), S, f, x)
                /\ Iterate(f, x) = t[Cardinality(Entry)]
<1> DEFINE N == Cardinality(Entry)
           F(g) == [n \in 0..N |-> IF n = 0 THEN x ELSE f[g[n - 1]]]
           turn == CHOOSE g : g = F(g)
<1>0. N \in Nat
  BY EntriesFinite
<1>1. Iterate(f, x) = turn[N]
  BY DEF Iterate
<1>2. PICK t : IsTurns(t, N, S, f, x)
  BY <1>0, TurnsExist
<1>3. t = F(t)
  <2>1. t = [n \in 0..N |-> t[n]]
    BY <1>2 DEF IsTurns
  <2>2. \A n \in 0..N : t[n] = IF n = 0 THEN x ELSE f[t[n - 1]]
    BY <1>0, <1>2 DEF IsTurns
  <2> QED BY <2>1, <2>2
<1>4. turn = F(turn)
  BY <1>3
<1>5. \A n \in 0..N : turn[n] = IF n = 0 THEN x ELSE f[turn[n - 1]]
  BY <1>4
<1> HIDE DEF turn, F
<1> DEFINE T == {n \in Nat : n <= N => turn[n] \in S}
<1>6. 0 \in T
  BY <1>0, <1>5
<1>7. ASSUME NEW n \in Nat, n \in T
      PROVE  n + 1 \in T
  <2> SUFFICES ASSUME n + 1 <= N PROVE turn[n + 1] \in S
    OBVIOUS
  <2>1. n + 1 \in 0..N /\ n + 1 # 0 /\ (n + 1) - 1 = n /\ n <= N
    BY <1>0
  <2>2. turn[n + 1] = f[turn[n]]
    BY <1>5, <2>1
  <2> QED BY <1>7, <2>1, <2>2
<1>8. Nat \subseteq T
  <2> HIDE DEF T
  <2> QED BY <1>6, <1>7, SetInduction
<1>9. turn \in [0..N -> S]
  <2>1. \A n \in 0..N : turn[n] \in S
    BY <1>0, <1>8
  <2>2. turn = [n \in 0..N |-> turn[n]]
    BY <1>4 DEF F
  <2> QED BY <2>1, <2>2
<1>10. IsTurns(turn, N, S, f, x)
  <2>1. \A n \in 1..N : n \in 0..N /\ n # 0
    BY <1>0
  <2> QED BY <1>0, <1>5, <1>9, <2>1 DEF IsTurns
<1> QED BY <1>1, <1>10

-----------------------------------------------------------------------------
(***************************************************************************)
(* Chains.  The entries of a chain are the least set that holds the first  *)
(* one and is closed under the links: a set with these two properties      *)
(* contains the chain, which takes the place of induction along it.        *)
(***************************************************************************)

Closed(S, links) == \A e \in S : links[e] \in S \cup {Nil}

IsReach(R, links, first) ==
    /\ R \in SUBSET Entry
    /\ first \in R \cup {Nil}
    /\ Closed(R, links)
    /\ \A S \in SUBSET Entry : first \in S \cup {Nil} /\ Closed(S, links) => R \subseteq S

LEMMA ChainIsReach ==
  ASSUME NEW links \in [Entry -> Ptr], NEW first \in Ptr
  PROVE  IsReach(Chain(links, first), links, first)
<1> DEFINE N == Cardinality(Entry)
           f == [met \in SUBSET Entry |-> met \cup ({links[e] : e \in met} \ {Nil})]
           x == {first} \ {Nil}
<1>0. N \in Nat /\ IsFiniteSet(Entry) /\ Nil \notin Entry
  BY EntriesFinite, HandleTableAssumption
<1>1. f \in [SUBSET Entry -> SUBSET Entry] /\ x \in SUBSET Entry
  BY DEF Ptr
<1>2. Chain(links, first) = Iterate(f, x)
  BY DEF Chain
<1>3. \A met \in SUBSET Entry : /\ met \subseteq f[met] /\ f[met] \in SUBSET Entry
                                /\ \A e \in met : links[e] \in f[met] \cup {Nil}
                                /\ \A d \in f[met] : d \in met \/ (d # Nil /\ \E e \in met : d = links[e])
  BY <1>1
<1>4. x # {} => x = {first}
  OBVIOUS
<1>5. first \in x \cup {Nil}
  OBVIOUS
<1> HIDE DEF f, x, N
<1>6. PICK t : IsTurns(t, N, SUBSET Entry, f, x) /\ Chain(links, first) = t[N]
  BY <1>1, <1>2, IterateIsTurns DEF N
<1>7. t \in [0..N -> SUBSET Entry] /\ t[0] = x /\ \A n \in Nat : n + 1 <= N => t[n + 1] = f[t[n]]
  <2>1. ASSUME NEW n \in Nat, n + 1 <= N PROVE t[n + 1] = f[t[n]]
    <3>1. n + 1 \in 1..N /\ (n + 1) - 1 = n
      BY <1>0, <2>1
    <3> QED BY <1>6, <3>1 DEF IsTurns
  <2> QED BY <1>6, <2>1 DEF IsTurns
<1>8. ASSUME NEW n \in Nat, n <= N PROVE t[n] \in SUBSET Entry /\ IsFiniteSet(t[n])
  <2>1. n \in 0..N
    BY <1>0, <1>8
  <2>2. t[n] \in SUBSET Entry
    BY <1>7, <2>1
  <2> QED BY <2>2, <1>0, FS_Subset
<1> DEFINE T == {n \in Nat : n <= N => /\ first \in t[n] \cup {Nil}
                                       /\ Closed(t[n], links) \/ Cardinality(t[n]) > n}
<1>9. 0 \in T
  <2>1. CASE x = {}
    BY <1>7, <1>5, <2>1 DEF Closed
  <2>2. CASE x # {}
    <3>1. x = {first} /\ Cardinality(x) = 1
      BY <1>4, <2>2, FS_Singleton
    <3>2. t[0] = {first} /\ Cardinality(t[0]) = 1
      BY <1>7, <3>1, Zenon
    <3>3. Cardinality(t[0]) > 0 /\ first \in t[0] \cup {Nil}
      BY <3>2
    <3> QED BY <3>3
  <2> QED BY <2>1, <2>2
<1>10. ASSUME NEW n \in Nat, n \in T PROVE n + 1 \in T
  <2> SUFFICES ASSUME n + 1 <= N
               PROVE  /\ first \in t[n + 1] \cup {Nil}
                      /\ Closed(t[n + 1], links) \/ Cardinality(t[n + 1]) > n + 1
    OBVIOUS
  <2>1. n <= N /\ n + 1 \in Nat
    BY <1>0
  <2>2. t[n] \in SUBSET Entry /\ t[n + 1] \in SUBSET Entry /\ IsFiniteSet(t[n]) /\ IsFiniteSet(t[n + 1])
    BY <1>8, <2>1
  <2>3. t[n + 1] = f[t[n]]
    BY <1>7
  <2>4. t[n] \subseteq t[n + 1] /\ \A d \in t[n + 1] : d \in t[n] \/ (d # Nil /\ \E e \in t[n] : d = links[e])
    BY <2>2, <2>3, <1>3
  <2>5. first \in t[n + 1] \cup {Nil}
    BY <1>10, <2>1, <2>4
  <2>6. CASE Closed(t[n], links)
    <3>1. t[n + 1] = t[n]
      BY <2>6, <2>4 DEF Closed
    <3> QED BY <2>5, <2>6, <3>1
  <2>7. CASE ~Closed(t[n], links)
    <3>1. Cardinality(t[n]) > n
      BY <1>10, <2>1, <2>7
    <3>2. PICK e \in t[n] : links[e] \notin t[n] \cup {Nil}
      BY <2>7 DEF Closed
    <3>3. links[e] \in t[n + 1]
      BY <1>3, <2>2, <2>3, <3>2
    <3>4. t[n] # t[n + 1]
      BY <3>2, <3>3
    <3>5. Cardinality(t[n]) \in Nat /\ Cardinality(t[n + 1]) \in Nat
      BY <2>2, FS_CardinalityType
    <3>6. Cardinality(t[n]) < Cardinality(t[n + 1])
      BY <2>2, <2>4, <3>4, <3>5, FS_Subset
    <3> QED BY <2>5, <3>1, <3>5, <3>6
  <2> QED BY <2>6, <2>7
<1>11. Nat \subseteq T
  <2> HIDE DEF T
  <2> QED BY <1>9, <1>10, SetInduction
<1>12. t[N] \in SUBSET Entry /\ IsFiniteSet(t[N]) /\ Cardinality(t[N]) <= N
  <2>1. t[N] \in SUBSET Entry /\ IsFiniteSet(t[N])
    BY <1>0, <1>8
  <2> QED BY <2>1, <1>0, FS_Subset DEF N
<1>13. Cardinality(t[N]) \in Nat
  BY <1>12, FS_CardinalityType
<1>14. first \in t[N] \cup {Nil} /\ Closed(t[N], links)
  BY <1>0, <1>11, <1>12, <1>13
<1>15. ASSUME NEW S \in SUBSET Entry, first \in S \cup {Nil}, Closed(S, links)
       PROVE  t[N] \subseteq S
  <2> DEFINE U == {n \in Nat : n <= N => t[n] \subseteq S}
  <2>1. 0 \in U
    BY <1>4, <1>5, <1>7, <1>15 DEF x
  <2>2. ASSUME NEW n \in Nat, n \in U PROVE n + 1 \in U
    <3> SUFFICES ASSUME n + 1 <= N PROVE t[n + 1] \subseteq S
      OBVIOUS
    <3>1. n <= N
      BY <1>0
    <3>2. t[n] \in SUBSET Entry
      BY <1>8, <3>1
    <3>3. \A d \in t[n + 1] : d \in t[n] \/ (d # Nil /\ \E e \in t[n] : d = links[e])
      BY <1>7, <1>3, <3>2
    <3>4. t[n] \subseteq S
      BY <2>2, <3>1
    <3> QED BY <3>3, <3>4, <1>15 DEF Closed
  <2>3. Nat \subseteq U
    <3> HIDE DEF U
    <3> QED BY <2>1, <2>2, SetInduction
  <2> QED BY <1>0, <2>3
<1> QED BY <1>6, <1>12, <1>14, <1>15 DEF IsReach

LEMMA ChainType ==
  ASSUME NEW links \in [Entry -> Ptr], NEW first \in Ptr
  PROVE  /\ Chain(links, first) \subseteq Entry
         /\ Nil \notin Chain(links, first)
         /\ first # Nil => first \in Chain(links, first)
         /\ \A e \in Chain(links, first) : links[e] \in Chain(links, first) \cup {Nil}
BY ChainIsReach, HandleTableAssumption DEF IsReach, Closed

\* A chain is contained in every set that its links do not leave.
LEMMA ChainLeast ==
  ASSUME NEW links \in [Entry -> Ptr], NEW first \in Ptr,
         NEW S \in SUBSET Entry, first \in S \cup {Nil}, Closed(S, links)
  PROVE  Chain(links, first) \subseteq S
BY ChainIsReach DEF IsReach

LEMMA ChainNil ==
  ASSUME NEW links \in [Entry -> Ptr]
  PROVE  Chain(links, Nil) = {}
<1>1. Nil \in Ptr /\ {} \in SUBSET Entry /\ Closed({}, links)
  BY DEF Ptr, Closed
<1> QED BY <1>1, ChainLeast

LEMMA ChainUnfold ==
  ASSUME NEW links \in [Entry -> Ptr], NEW e \in Entry
  PROVE  Chain(links, e) = {e} \cup Chain(links, links[e])
<1>1. e \in Ptr /\ links[e] \in Ptr /\ e # Nil
  BY HandleTableAssumption DEF Ptr
<1> DEFINE C == Chain(links, e)
           D == Chain(links, links[e])
<1>2. C \subseteq Entry /\ e \in C /\ Closed(C, links)
  BY <1>1, ChainType DEF Closed
<1>3. D \subseteq Entry /\ Closed(D, links) /\ links[e] \in D \cup {Nil}
  BY <1>1, ChainType DEF Closed
<1> HIDE DEF C, D
<1>4. {e} \cup D \in SUBSET Entry /\ Closed({e} \cup D, links)
  BY <1>3 DEF Closed
<1>5. C \subseteq {e} \cup D
  BY <1>1, <1>4, ChainLeast DEF C
<1>6. links[e] \in C \cup {Nil} /\ C \in SUBSET Entry
  BY <1>2 DEF Closed
<1>7. D \subseteq C
  BY <1>1, <1>2, <1>6, ChainLeast DEF D
<1> QED BY <1>2, <1>5, <1>7 DEF C, D

\* What is reached from an entry of a chain is in the chain.
LEMMA ChainSub ==
  ASSUME NEW links \in [Entry -> Ptr], NEW first \in Ptr, NEW e \in Chain(links, first)
  PROVE  /\ Chain(links, e) \subseteq Chain(links, first)
         /\ Chain(links, links[e]) \subseteq Chain(links, first)
<1>1. e \in Entry /\ e \in Ptr
  BY ChainType DEF Ptr
<1>2. Chain(links, first) \in SUBSET Entry /\ Closed(Chain(links, first), links)
  BY ChainType DEF Closed
<1>3. Chain(links, e) \subseteq Chain(links, first)
  BY <1>1, <1>2, ChainLeast
<1> QED BY <1>1, <1>3, ChainUnfold

\* Writes to links outside of a chain leave it as it is.
LEMMA ChainFrame ==
  ASSUME NEW links \in [Entry -> Ptr], NEW new \in [Entry -> Ptr], NEW first \in Ptr,
         \A e \in Chain(links, first) : new[e] = links[e]
  PROVE  Chain(new, first) = Chain(links, first)
<1> DEFINE C == Chain(links, first)
           D == Chain(new, first)
<1>1. C \in SUBSET Entry /\ Closed(C, links) /\ first \in C \cup {Nil}
  BY ChainType DEF Closed, Ptr
<1>2. D \in SUBSET Entry /\ Closed(D, new) /\ first \in D \cup {Nil}
  BY ChainType DEF Closed, Ptr
<1>3. \A e \in C : new[e] = links[e]
  OBVIOUS
<1> HIDE DEF C, D
<1>4. Closed(C, new)
  BY <1>1, <1>3 DEF Closed
<1>5. D \subseteq C
  BY <1>1, <1>4, ChainLeast DEF D
<1>6. Closed(D, links)
  BY <1>2, <1>3, <1>5 DEF Closed
<1>7. C \subseteq D
  BY <1>2, <1>6, ChainLeast DEF C
<1> QED BY <1>5, <1>7 DEF C, D

\* No entry of the chain is met again behind itself: the chain ends.
Acyclic(links, first) ==
    \A e \in Chain(links, first) : e \notin Chain(links, links[e])

LEMMA AcyclicSub ==
  ASSUME NEW links \in [Entry -> Ptr], NEW first \in Ptr, Acyclic(links, first),
         NEW e \in Chain(links, first)
  PROVE  Acyclic(links, e) /\ Acyclic(links, links[e])
BY ChainSub DEF Acyclic

LEMMA AcyclicFrame ==
  ASSUME NEW links \in [Entry -> Ptr], NEW new \in [Entry -> Ptr], NEW first \in Ptr,
         Acyclic(links, first),
         \A e \in Chain(links, first) : new[e] = links[e]
  PROVE  Acyclic(new, first)
<1>1. Chain(new, first) = Chain(links, first)
  BY ChainFrame
<1>2. ASSUME NEW e \in Chain(links, first)
      PROVE  e \notin Chain(new, new[e])
  <2>1. new[e] = links[e] /\ links[e] \in Ptr
    BY ChainType DEF Ptr
  <2>2. Chain(links, links[e]) \subseteq Chain(links, first)
    BY ChainSub
  <2>3. \A d \in Chain(links, links[e]) : new[d] = links[d]
    BY <2>2
  <2>4. Chain(new, links[e]) = Chain(links, links[e])
    BY <2>1, <2>3, ChainFrame
  <2> QED BY <2>1, <2>4 DEF Acyclic
<1> QED BY <1>1, <1>2 DEF Acyclic

\* Of two entries of a chain, one is behind the other.
LEMMA ChainLinear ==
  ASSUME NEW links \in [Entry -> Ptr], NEW first \in Ptr,
         NEW d \in Chain(links, first), NEW e \in Chain(links, first)
  PROVE  d \in Chain(links, e) \/ e \in Chain(links, d)
<1> DEFINE S == {c \in Chain(links, first) : d \in Chain(links, c) \/ c \in Chain(links, d)}
<1>0. d \in Entry /\ d \in Ptr /\ d # Nil /\ Chain(links, first) \subseteq Entry
  BY ChainType DEF Ptr
<1>1. S \in SUBSET Entry /\ first \in S \cup {Nil}
  BY <1>0, ChainType DEF Ptr
<1>2. ASSUME NEW c \in S PROVE links[c] \in S \cup {Nil}
  <2>1. c \in Entry /\ links[c] \in Chain(links, first) \cup {Nil}
    BY <1>0, ChainType
  <2>2. Chain(links, c) = {c} \cup Chain(links, links[c])
    BY <2>1, ChainUnfold
  <2>3. d \in Chain(links, d) /\ \A b \in Chain(links, d) : links[b] \in Chain(links, d) \cup {Nil}
    BY <1>0, ChainType
  <2> QED BY <2>1, <2>2, <2>3
<1>3. Chain(links, first) \subseteq S
  <2>1. Closed(S, links)
    BY <1>2 DEF Closed
  <2> HIDE DEF S
  <2> QED BY <1>1, <2>1, ChainLeast
<1> QED BY <1>3

\* One link of the chain leads to an entry, and none to the first.
LEMMA OnePredecessor ==
  ASSUME NEW links \in [Entry -> Ptr], NEW first \in Ptr, Acyclic(links, first),
         NEW d \in Chain(links, first), links[d] # Nil
  PROVE  /\ \A e \in Chain(links, first) : links[e] = links[d] => e = d
         /\ links[d] # first
<1>0. d \in Entry /\ Chain(links, first) \subseteq Entry
  BY ChainType
<1>1. ASSUME NEW e \in Chain(links, first), links[e] = links[d], e # d
      PROVE  FALSE
  <2>1. e \in Entry
    BY <1>0
  <2>2. Chain(links, d) = {d} \cup Chain(links, links[d])
    BY <1>0, ChainUnfold
  <2>3. Chain(links, e) = {e} \cup Chain(links, links[d])
    BY <1>1, <2>1, ChainUnfold
  <2>4. d \notin Chain(links, links[d]) /\ e \notin Chain(links, links[d])
    BY <1>1 DEF Acyclic
  <2>5. d \in Chain(links, e) \/ e \in Chain(links, d)
    BY ChainLinear
  <2> QED BY <1>1, <2>2, <2>3, <2>4, <2>5
<1>2. links[d] # first
  BY DEF Acyclic
<1> QED BY <1>1, <1>2

\* The link of p is moved past the entry behind it, as remove does.
LEMMA Unlink ==
  ASSUME NEW links \in [Entry -> Ptr], NEW first \in Ptr, Acyclic(links, first),
         NEW p \in Chain(links, first), NEW r, r = links[p], r # Nil,
         NEW new \in [Entry -> Ptr], new[p] = links[r],
         \A e \in Entry : e # p => new[e] = links[e]
  PROVE  /\ Chain(new, first) = Chain(links, first) \ {r}
         /\ Acyclic(new, first)
<1> DEFINE C == Chain(links, first)
<1>0. C \in SUBSET Entry /\ p \in Entry /\ p \in C /\ Closed(C, links) /\ first \in C \cup {Nil} /\ Nil \notin C
  BY ChainType DEF Closed, Ptr
<1>1. r \in C /\ r \in Entry
  BY <1>0, ChainType
<1>2. links[r] \in Ptr /\ new \in [Entry -> Ptr] /\ new[p] = links[r]
      /\ \A e \in Entry : e # p => new[e] = links[e]
  BY <1>1
<1>3. r \notin Chain(links, links[r]) /\ p \notin Chain(links, r)
  BY <1>0, <1>1 DEF Acyclic
<1>4. r # p /\ links[r] # r
  <2>1. r \in Ptr
    BY <1>1 DEF Ptr
  <2>2. r \in Chain(links, r)
    BY <2>1, ChainType
  <2>3. links[r] = r => r \in Chain(links, links[r])
    BY <2>2
  <2> QED BY <1>3, <2>2, <2>3
<1>5. r # first /\ \A e \in C : links[e] = r => e = p
  BY OnePredecessor
<1>6. \A x \in Ptr : Chain(new, x) \subseteq Chain(links, x)
  <2> SUFFICES ASSUME NEW x \in Ptr
               PROVE  Chain(new, x) \subseteq Chain(links, x)
    OBVIOUS
  <2>1. Chain(links, x) \in SUBSET Entry /\ Closed(Chain(links, x), links) /\ x \in Chain(links, x) \cup {Nil}
    BY ChainType DEF Closed, Ptr
  <2>2. Closed(Chain(links, x), new)
    BY <1>2, <2>1 DEF Closed
  <2> QED BY <1>2, <2>1, <2>2, ChainLeast
<1>7. Chain(new, first) \subseteq C \ {r}
  <2>1. C \ {r} \in SUBSET Entry /\ first \in (C \ {r}) \cup {Nil}
    BY <1>0, <1>5
  <2>2. Closed(C \ {r}, new)
    <3> SUFFICES ASSUME NEW e \in C, e # r
                 PROVE  new[e] \in (C \ {r}) \cup {Nil}
      BY DEF Closed
    <3>1. e \in Entry /\ links[e] \in C \cup {Nil} /\ links[r] \in C \cup {Nil}
      BY <1>0, <1>1 DEF Closed
    <3> HIDE DEF C
    <3> QED BY <1>2, <1>4, <1>5, <3>1
  <2> HIDE DEF C
  <2> QED BY <1>2, <2>1, <2>2, ChainLeast
<1>8. C \ {r} \subseteq Chain(new, first)
  <2> DEFINE D == Chain(new, first)
             S == D \cup (IF p \in D THEN {r} ELSE {})
  <2>1. D \in SUBSET Entry /\ Closed(D, new) /\ first \in D \cup {Nil}
    BY <1>2, ChainType DEF Closed, Ptr
  <2> HIDE DEF D
  <2>2. S \in SUBSET Entry /\ first \in S \cup {Nil}
    BY <1>1, <2>1
  <2>3. Closed(S, links)
    <3> SUFFICES ASSUME NEW e \in S
                 PROVE  links[e] \in S \cup {Nil}
      BY DEF Closed
    <3>1. CASE e = p /\ e \in D
      BY <3>1
    <3>2. CASE e # p /\ e \in D
      BY <1>2, <2>1, <3>2 DEF Closed
    <3>3. CASE e \notin D
      BY <1>2, <2>1, <3>3 DEF Closed
    <3> QED BY <3>1, <3>2, <3>3
  <2>4. C \subseteq S
    <3> HIDE DEF S
    <3> QED BY <2>2, <2>3, ChainLeast
  <2> QED BY <2>4 DEF D
<1>9. ASSUME NEW e \in C \ {r}
      PROVE  e \notin Chain(new, new[e])
  <2>0. e \in Entry /\ links[e] \in Ptr
    BY <1>0
  <2>1. CASE e = p
    <3>1. Chain(new, new[e]) \subseteq Chain(links, links[r])
      BY <1>2, <1>6, <2>1
    <3>2. Chain(links, links[r]) \subseteq Chain(links, r)
      BY <1>1, ChainUnfold
    <3> QED BY <1>3, <2>1, <3>1, <3>2
  <2>2. CASE e # p
    <3>1. new[e] = links[e] /\ Chain(new, new[e]) \subseteq Chain(links, links[e])
      BY <1>2, <1>6, <2>0, <2>2
    <3> QED BY <3>1 DEF Acyclic
  <2> QED BY <2>1, <2>2
<1>10. Chain(new, first) = C \ {r}
  BY <1>7, <1>8
<1> QED BY <1>2, <1>9, <1>10 DEF Acyclic

\* A new entry is linked behind p.
LEMMA PushBehind ==
  ASSUME NEW links \in [Entry -> Ptr], NEW first \in Ptr, Acyclic(links, first),
         NEW p \in Chain(links, first), NEW e \in Entry, e \notin Chain(links, first),
         NEW new \in [Entry -> Ptr], new[e] = links[p], new[p] = e,
         \A d \in Entry : d # p /\ d # e => new[d] = links[d]
  PROVE  /\ Chain(new, first) = Chain(links, first) \cup {e}
         /\ Acyclic(new, first)
<1> DEFINE C == Chain(links, first)
<1>0. C \in SUBSET Entry /\ p \in Entry /\ p \in C /\ e \notin C /\ p # e /\ Closed(C, links)
      /\ first \in C \cup {Nil} /\ e # Nil /\ e \in Ptr /\ links[p] \in Ptr
  BY ChainType, HandleTableAssumption DEF Closed, Ptr
<1>1. new \in [Entry -> Ptr] /\ new[e] = links[p] /\ new[p] = e
      /\ \A d \in Entry : d # p /\ d # e => new[d] = links[d]
  OBVIOUS
<1>2. Chain(new, first) \subseteq C \cup {e}
  <2>1. Closed(C \cup {e}, new) /\ C \cup {e} \in SUBSET Entry
    <3> HIDE DEF C
    <3> QED BY <1>0, <1>1 DEF Closed
  <2> HIDE DEF C
  <2> QED BY <1>0, <1>1, <2>1, ChainLeast
<1>3. C \cup {e} \subseteq Chain(new, first)
  <2> DEFINE D == Chain(new, first)
  <2>1. D \in SUBSET Entry /\ Closed(D, new) /\ first \in D \cup {Nil}
    BY <1>1, ChainType DEF Closed, Ptr
  <2>2. Closed(D \cap C, links) /\ D \cap C \in SUBSET Entry /\ first \in (D \cap C) \cup {Nil}
    <3> HIDE DEF C, D
    <3> SUFFICES ASSUME NEW d \in D \cap C
                 PROVE  links[d] \in (D \cap C) \cup {Nil}
      BY <1>0, <2>1 DEF Closed
    <3>1. links[d] \in C \cup {Nil} /\ d # e /\ d \in Entry
      BY <1>0 DEF Closed
    <3>2. CASE d = p
      <4>1. new[p] \in D \cup {Nil}
        BY <2>1, <3>2 DEF Closed
      <4>2. e \in D
        BY <1>0, <1>1, <4>1
      <4>3. new[e] \in D \cup {Nil}
        BY <2>1, <4>2 DEF Closed
      <4> QED BY <1>1, <3>1, <3>2, <4>3
    <3>3. CASE d # p
      BY <1>1, <2>1, <3>1, <3>3 DEF Closed
    <3> QED BY <3>2, <3>3
  <2>3. C \subseteq D
    <3>1. C \subseteq D \cap C
      <4> HIDE DEF D
      <4> QED BY <2>2, ChainLeast
    <3> QED BY <3>1
  <2>4. e \in D
    <3> HIDE DEF C, D
    <3>1. new[p] \in D \cup {Nil}
      BY <1>0, <2>1, <2>3 DEF Closed
    <3> QED BY <1>0, <1>1, <3>1
  <2> QED BY <2>3, <2>4
<1>4. p \notin Chain(links, links[p]) /\ Chain(links, links[p]) \subseteq C
  BY <1>0, ChainSub DEF Acyclic
<1>5. Chain(new, links[p]) = Chain(links, links[p])
  <2>1. \A d \in Chain(links, links[p]) : new[d] = links[d]
    BY <1>0, <1>1, <1>4
  <2> QED BY <1>0, <1>1, <2>1, ChainFrame
<1>6. ASSUME NEW d \in C \cup {e}
      PROVE  d \notin Chain(new, new[d])
  <2>1. CASE d = e
    BY <1>0, <1>1, <1>4, <1>5, <2>1
  <2>2. CASE d = p
    <3>1. Chain(new, e) = {e} \cup Chain(new, new[e])
      BY <1>1, ChainUnfold
    <3> QED BY <1>0, <1>1, <1>4, <1>5, <2>2, <3>1
  <2>3. CASE d # e /\ d # p
    <3>0. d \in C /\ d \in Entry /\ new[d] = links[d] /\ links[d] \in Ptr
      BY <1>0, <1>1, <2>3
    <3> DEFINE B == Chain(links, links[d])
    <3>1. d \notin B /\ B \subseteq C /\ B \in SUBSET Entry /\ Closed(B, links) /\ links[d] \in B \cup {Nil}
      <4>1. B \subseteq C
        BY <3>0, ChainSub
      <4> QED BY <3>0, <4>1, <1>0, ChainType DEF Acyclic, Closed, Ptr
    <3>2. CASE p \in B
      <4> HIDE DEF B, C
      <4>1. Closed(B \cup {e}, new) /\ B \cup {e} \in SUBSET Entry
        BY <1>0, <1>1, <3>1, <3>2 DEF Closed
      <4>2. Chain(new, links[d]) \subseteq B \cup {e}
        BY <1>1, <3>0, <3>1, <4>1, ChainLeast
      <4> QED BY <2>3, <3>0, <3>1, <4>2
    <3>3. CASE p \notin B
      <4>1. \A c \in B : new[c] = links[c]
        BY <1>0, <1>1, <3>1, <3>3
      <4>2. Chain(new, links[d]) = B
        BY <1>1, <3>0, <4>1, ChainFrame
      <4> QED BY <3>0, <3>1, <4>2
    <3> QED BY <3>2, <3>3
  <2> QED BY <2>1, <2>2, <2>3
<1>7. Chain(new, first) = C \cup {e}
  BY <1>2, <1>3
<1> QED BY <1>1, <1>6, <1>7 DEF Acyclic

\* A new entry is linked before first.
LEMMA PushFront ==
  ASSUME NEW links \in [Entry -> Ptr], NEW first \in Ptr, Acyclic(links, first),
         NEW e \in Entry, e \notin Chain(links, first),
         NEW new \in [Entry -> Ptr], new[e] = first,
         \A d \in Entry : d # e => new[d] = links[d]
  PROVE  /\ Chain(new, e) = Chain(links, first) \cup {e}
         /\ Acyclic(new, e)
<1>0. new \in [Entry -> Ptr] /\ new[e] = first /\ \A d \in Entry : d # e => new[d] = links[d]
  OBVIOUS
<1>1. \A d \in Chain(links, first) : new[d] = links[d]
  BY <1>0, ChainType
<1>2. Chain(new, first) = Chain(links, first) /\ Acyclic(new, first)
  BY <1>0, <1>1, ChainFrame, AcyclicFrame
<1>3. Chain(new, e) = {e} \cup Chain(new, first)
  BY <1>0, ChainUnfold
<1> QED BY <1>0, <1>2, <1>3 DEF Acyclic

-----------------------------------------------------------------------------
(***************************************************************************)
(* The inductive invariant.  Chains end; old chains, the chain in hand and *)
(* new chains are in the bucket of their hash; what is moved is no longer  *)
(* among what is to be moved.                                              *)
(***************************************************************************)

Ends ==
    /\ \A b \in OldBuckets : Acyclic(next_hash, list[b])
    /\ Acyclic(next_hash, h)
    /\ \A b \in DOMAIN new_list : Acyclic(next_hash, new_list[b])

Home ==
    /\ \A b \in OldBuckets : \A e \in Chain(next_hash, list[b]) : Hash(KeyOf(e)) % length = b
    /\ \A e \in Chain(next_hash, h) : Hash(KeyOf(e)) % length = i
    /\ \A b \in DOMAIN new_list : \A e \in Chain(next_hash, new_list[b]) :
         Hash(KeyOf(e)) % new_length = b

Apart ==
    /\ Unmoved \cap Moved = {}
    /\ \A d, e \in Linked : KeyOf(d) = KeyOf(e) => d = e

Counts ==
    /\ elems = Cardinality(Linked)
    /\ count = Cardinality(Moved)

Phase ==
    /\ pc # "move" => h = Nil /\ count = 0 /\ i = 0
    /\ pc = "idle" => elems <= length
    /\ pc # "idle" => new_length > 0
    /\ pc = "move" => new_length >= elems

IInv == TypeOK /\ Ends /\ Home /\ Apart /\ Counts /\ Phase

\* When _resize is not at work, the table is the chains of _list.
Buckets == 0..(length - 1)

LEMMA NotMoving ==
  TypeOK /\ pc # "move" /\ h = Nil =>
    /\ OldBuckets = Buckets /\ Moved = {} /\ DOMAIN new_list = {}
    /\ Linked = UNION {Chain(next_hash, list[b]) : b \in Buckets}
    /\ Chain(next_hash, h) = {}
<1> SUFFICES ASSUME TypeOK, pc # "move", h = Nil
             PROVE  /\ OldBuckets = Buckets /\ Moved = {} /\ DOMAIN new_list = {}
                    /\ Linked = UNION {Chain(next_hash, list[b]) : b \in Buckets}
                    /\ Chain(next_hash, h) = {}
  OBVIOUS
<1>1. OldBuckets = Buckets
  BY DEF OldBuckets, Buckets
<1>2. DOMAIN new_list = {}
  BY DEF TypeOK
<1>3. Moved = {}
  BY <1>2 DEF Moved
<1>4. next_hash \in [Entry -> Ptr]
  BY DEF TypeOK, Ptr
<1>5. Chain(next_hash, h) = {}
  BY <1>4, ChainNil
<1> QED BY <1>1, <1>2, <1>3, <1>5 DEF Linked, Unmoved

LEMMA NotMovingPrime ==
  (TypeOK /\ pc # "move" /\ h = Nil)' =>
    (/\ OldBuckets = Buckets /\ Moved = {} /\ DOMAIN new_list = {}
     /\ Linked = UNION {Chain(next_hash, list[b]) : b \in Buckets}
     /\ Chain(next_hash, h) = {})'
BY NotMoving, PTL

-----------------------------------------------------------------------------
(***************************************************************************)
(* _find_pointer.                                                          *)
(***************************************************************************)

LEMMA Slots ==
  /\ \A b : Deref(Bucket(b)) = list[b]
  /\ \A e : Deref(NextOf(e)) = next_hash[e]
  /\ \A b \in Buckets : Bucket(b) \in Slot
  /\ \A e \in Entry : NextOf(e) \in Slot
BY DEF Deref, Bucket, NextOf, Slot, Buckets

\* Slots of the chain C of bucket b.
SlotIn(ptr, b, C) == ptr = Bucket(b) \/ \E p \in C : ptr = NextOf(p)

LEMMA BucketOfKey ==
  ASSUME TypeOK, NEW k \in Key
  PROVE  Hash(k) % length \in Buckets
BY HandleTableAssumption DEF TypeOK, Buckets

\* What is known of the slots that _find_pointer passes.
OnTheWay(ptr, k) ==
    LET b == Hash(k) % length
        C == Chain(next_hash, list[b])
    IN  /\ SlotIn(ptr, b, C)
        /\ \A e \in C : KeyOf(e) = k => e \in Chain(next_hash, Deref(ptr))

LEMMA WalkStep ==
  ASSUME TypeOK, NEW k \in Key, NEW ptr, OnTheWay(ptr, k),
         Acyclic(next_hash, list[Hash(k) % length])
  PROVE  /\ ptr \in Slot
         /\ Deref(ptr) \in Chain(next_hash, list[Hash(k) % length]) \cup {Nil}
         /\ ~Stops(Deref(ptr), k) =>
              /\ OnTheWay(NextOf(Deref(ptr)), k)
              /\ Deref(ptr) \in Entry
              /\ Chain(next_hash, Deref(ptr)) =
                   {Deref(ptr)} \cup Chain(next_hash, Deref(NextOf(Deref(ptr))))
              /\ Deref(ptr) \notin Chain(next_hash, Deref(NextOf(Deref(ptr))))
<1> DEFINE b == Hash(k) % length
           C == Chain(next_hash, list[b])
<1>1. b \in Buckets
  BY BucketOfKey
<1>2. next_hash \in [Entry -> Ptr] /\ list[b] \in Ptr
  BY <1>1 DEF TypeOK, Ptr, Buckets
<1>3. C \subseteq Entry /\ Nil \notin C /\ list[b] \in C \cup {Nil}
      /\ \A e \in C : next_hash[e] \in C \cup {Nil}
  BY <1>2, ChainType
<1>4. SlotIn(ptr, b, C) /\ \A e \in C : KeyOf(e) = k => e \in Chain(next_hash, Deref(ptr))
  BY DEF OnTheWay
<1>5. \A e \in C : e \notin Chain(next_hash, next_hash[e])
  BY DEF Acyclic
<1> HIDE DEF b, C
<1>6. ptr \in Slot /\ Deref(ptr) \in C \cup {Nil}
  BY <1>1, <1>3, <1>4, Slots DEF SlotIn
<1>7. ASSUME ~Stops(Deref(ptr), k)
      PROVE  /\ SlotIn(NextOf(Deref(ptr)), b, C)
             /\ \A e \in C : KeyOf(e) = k => e \in Chain(next_hash, Deref(NextOf(Deref(ptr))))
             /\ Deref(ptr) \in Entry
             /\ Chain(next_hash, Deref(ptr)) =
                  {Deref(ptr)} \cup Chain(next_hash, Deref(NextOf(Deref(ptr))))
             /\ Deref(ptr) \notin Chain(next_hash, Deref(NextOf(Deref(ptr))))
  <2>1. PICK d : d = Deref(ptr)
    OBVIOUS
  <2>2. d # Nil /\ KeyOf(d) # k
    BY <1>7, <2>1 DEF Stops
  <2>3. d \in C /\ d \in Entry
    BY <1>3, <1>6, <2>1, <2>2
  <2>4. Deref(NextOf(d)) = next_hash[d]
    BY Slots
  <2>5. Chain(next_hash, d) = {d} \cup Chain(next_hash, next_hash[d])
    BY <1>2, <2>3, ChainUnfold
  <2>6. \A e \in C : KeyOf(e) = k => e \in Chain(next_hash, next_hash[d])
    BY <1>4, <2>1, <2>2, <2>5
  <2>7. SlotIn(NextOf(d), b, C)
    BY <2>3 DEF SlotIn
  <2> QED BY <1>5, <2>1, <2>3, <2>4, <2>5, <2>6, <2>7
<1> QED BY <1>6, <1>7 DEF OnTheWay, b, C

\* _find_pointer stops, at a slot of the chain of its bucket, and what it has
\* passed does not have the key.
LEMMA FindPointerStops ==
  ASSUME TypeOK, NEW k \in Key, Acyclic(next_hash, list[Hash(k) % length])
  PROVE  OnTheWay(FindPointer(k), k) /\ Stops(Deref(FindPointer(k)), k)
<1> DEFINE N == Cardinality(Entry)
           f == [p \in Slot |-> IF Stops(Deref(p), k) THEN p ELSE NextOf(Deref(p))]
           x == Bucket(Hash(k) % length)
           Rest(p) == Chain(next_hash, Deref(p))
<1>0. N \in Nat /\ IsFiniteSet(Entry) /\ next_hash \in [Entry -> Ptr]
  BY EntriesFinite, HandleTableAssumption DEF TypeOK, Ptr
<1>1. \A p \in Slot : Deref(p) \in Ptr
  BY DEF Slot, Deref, Bucket, NextOf, TypeOK, Ptr
<1>2. \A p \in Slot : /\ IsFiniteSet(Rest(p)) /\ Cardinality(Rest(p)) \in Nat /\ Cardinality(Rest(p)) <= N
                      /\ Deref(p) # Nil => Deref(p) \in Rest(p)
  <2> SUFFICES ASSUME NEW p \in Slot
               PROVE  /\ IsFiniteSet(Rest(p)) /\ Cardinality(Rest(p)) \in Nat
                      /\ Cardinality(Rest(p)) <= N
                      /\ Deref(p) # Nil => Deref(p) \in Rest(p)
    OBVIOUS
  <2>1. Rest(p) \in SUBSET Entry /\ (Deref(p) # Nil => Deref(p) \in Rest(p))
    BY <1>0, <1>1, ChainType
  <2> HIDE DEF Rest
  <2>2. IsFiniteSet(Rest(p)) /\ Cardinality(Rest(p)) <= N
    BY <1>0, <2>1, FS_Subset
  <2> QED BY <2>1, <2>2, FS_CardinalityType
<1>3. \A p \in Slot : ~Stops(Deref(p), k) => NextOf(Deref(p)) \in Slot
  <2>1. \A p \in Slot : ~Stops(Deref(p), k) => Deref(p) \in Entry
    BY <1>1 DEF Stops, Ptr
  <2> QED BY <2>1, Slots
<1>4. f \in [Slot -> Slot]
  BY <1>3
<1>5. x \in Slot /\ OnTheWay(x, k)
  <2>1. x \in Slot
    BY BucketOfKey, Slots
  <2>2. Deref(x) = list[Hash(k) % length]
    BY Slots
  <2> QED BY <2>1, <2>2 DEF OnTheWay, SlotIn
<1>6. \A p \in Slot : f[p] = IF Stops(Deref(p), k) THEN p ELSE NextOf(Deref(p))
  OBVIOUS
<1>7. FindPointer(k) = Iterate(f, x)
  BY DEF FindPointer, Walk
<1> HIDE DEF f, x, N, Rest
<1>8. PICK t : IsTurns(t, N, Slot, f, x) /\ FindPointer(k) = t[N]
  BY <1>4, <1>5, <1>7, IterateIsTurns DEF N
<1>9. t \in [0..N -> Slot] /\ t[0] = x /\ \A n \in Nat : n + 1 <= N => t[n + 1] = f[t[n]]
  <2>1. ASSUME NEW n \in Nat, n + 1 <= N PROVE t[n + 1] = f[t[n]]
    <3>1. n + 1 \in 1..N /\ (n + 1) - 1 = n
      BY <1>0, <2>1
    <3> QED BY <1>8, <3>1 DEF IsTurns
  <2> QED BY <1>8, <2>1 DEF IsTurns
<1> DEFINE T == {n \in Nat : n <= N => /\ OnTheWay(t[n], k)
                                       /\ Stops(Deref(t[n]), k) \/ Cardinality(Rest(t[n])) + n <= N}
<1>10. 0 \in T
  <2>1. Cardinality(Rest(x)) \in Nat /\ Cardinality(Rest(x)) <= N
    BY <1>2, <1>5
  <2>2. Cardinality(Rest(x)) + 0 <= N
    BY <1>0, <2>1
  <2> QED BY <1>5, <1>9, <2>2
<1>11. ASSUME NEW n \in Nat, n \in T PROVE n + 1 \in T
  <2> SUFFICES ASSUME n + 1 <= N
               PROVE  /\ OnTheWay(t[n + 1], k)
                      /\ Stops(Deref(t[n + 1]), k) \/ Cardinality(Rest(t[n + 1])) + (n + 1) <= N
    OBVIOUS
  <2>1. n <= N /\ n \in 0..N /\ n + 1 \in 0..N
    BY <1>0
  <2>2. PICK p \in Slot : p = t[n]
    BY <1>9, <2>1
  <2>3. OnTheWay(p, k) /\ (Stops(Deref(p), k) \/ Cardinality(Rest(p)) + n <= N)
    BY <1>11, <2>1, <2>2
  <2>4. t[n + 1] = IF Stops(Deref(p), k) THEN p ELSE NextOf(Deref(p))
    BY <1>6, <1>9, <2>2
  <2>5. CASE Stops(Deref(p), k)
    BY <2>3, <2>4, <2>5
  <2>6. CASE ~Stops(Deref(p), k)
    <3>1. PICK q \in Slot : q = NextOf(Deref(p))
      BY <1>3, <2>6
    <3>2. OnTheWay(q, k) /\ Rest(p) = {Deref(p)} \cup Rest(q) /\ Deref(p) \notin Rest(q)
      BY <2>3, <2>6, <3>1, WalkStep DEF Rest
    <3>3. IsFiniteSet(Rest(q)) /\ Cardinality(Rest(q)) \in Nat
      BY <1>2
    <3>4. Cardinality(Rest(q) \cup {Deref(p)}) = Cardinality(Rest(q)) + 1
      BY <3>2, <3>3, FS_AddElement
    <3>5. Rest(q) \cup {Deref(p)} = Rest(p)
      BY <3>2
    <3>6. Cardinality(Rest(p)) = Cardinality(Rest(q)) + 1
      BY <3>4, <3>5
    <3>7. Cardinality(Rest(q)) + (n + 1) <= N
      BY <1>0, <2>3, <2>6, <3>3, <3>6
    <3>8. t[n + 1] = q
      BY <2>4, <2>6, <3>1
    <3> QED BY <3>2, <3>7, <3>8
  <2> QED BY <2>5, <2>6
<1>12. Nat \subseteq T
  <2> HIDE DEF T
  <2> QED BY <1>10, <1>11, SetInduction
<1>13. PICK p \in Slot : p = t[N]
  BY <1>0, <1>9
<1>14. OnTheWay(p, k) /\ (Stops(Deref(p), k) \/ Cardinality(Rest(p)) + N <= N)
  BY <1>0, <1>12, <1>13
<1>15. Stops(Deref(p), k)
  <2> SUFFICES ASSUME ~Stops(Deref(p), k) PROVE FALSE
    OBVIOUS
  <2>1. Cardinality(Rest(p)) \in Nat /\ Cardinality(Rest(p)) + N <= N /\ IsFiniteSet(Rest(p))
    BY <1>2, <1>14
  <2>2. Cardinality(Rest(p)) = 0
    BY <1>0, <2>1
  <2>3. Rest(p) = {}
    BY <2>1, <2>2, FS_EmptySet
  <2> QED BY <1>2, <2>3 DEF Stops
<1> QED BY <1>8, <1>13, <1>14, <1>15

\* ... so it finds the entry with the key if the table has one, as keys are
\* apart.
LEMMA FindPointerFinds ==
  ASSUME IInv, pc = "idle", NEW k \in Key
  PROVE  LET ptr == FindPointer(k)
             b == Hash(k) % length
             C == Chain(next_hash, list[b])
         IN  /\ b \in Buckets
             /\ SlotIn(ptr, b, C)
             /\ Deref(ptr) \in C \cup {Nil}
             /\ Deref(ptr) # Nil => Deref(ptr) \in Linked /\ KeyOf(Deref(ptr)) = k
             /\ \A e \in Linked : KeyOf(e) = k => e = Deref(ptr)
<1> DEFINE b == Hash(k) % length
           C == Chain(next_hash, list[b])
<1>1. TypeOK /\ h = Nil /\ pc # "move"
  BY DEF IInv, Phase
<1>2. /\ OldBuckets = Buckets
      /\ Linked = UNION {Chain(next_hash, list[c]) : c \in Buckets}
  BY <1>1, NotMoving
<1>3. b \in Buckets
  BY <1>1, BucketOfKey
<1>4. Acyclic(next_hash, list[b])
  BY <1>2, <1>3 DEF IInv, Ends
<1>5. PICK ptr : ptr = FindPointer(k)
  OBVIOUS
<1>6. OnTheWay(ptr, k) /\ Stops(Deref(ptr), k)
  BY <1>1, <1>4, <1>5, FindPointerStops
<1>7. SlotIn(ptr, b, C) /\ (\A e \in C : KeyOf(e) = k => e \in Chain(next_hash, Deref(ptr)))
  BY <1>6 DEF OnTheWay
<1>8. Deref(ptr) \in C \cup {Nil}
  BY <1>1, <1>4, <1>6, WalkStep
<1>9. C \subseteq Linked
  BY <1>2, <1>3
<1>10. Deref(ptr) # Nil => Deref(ptr) \in Linked /\ KeyOf(Deref(ptr)) = k
  BY <1>6, <1>8, <1>9 DEF Stops
<1>11. ASSUME NEW e \in Linked, KeyOf(e) = k
       PROVE  e = Deref(ptr)
  <2>1. PICK c \in Buckets : e \in Chain(next_hash, list[c])
    BY <1>2
  <2>2. Hash(KeyOf(e)) % length = c
    BY <1>2, <2>1 DEF IInv, Home
  <2>3. e \in C
    BY <1>11, <2>1, <2>2
  <2>4. e \in Chain(next_hash, Deref(ptr))
    BY <1>7, <1>11, <2>3
  <2>5. Deref(ptr) # Nil
    <3>1. next_hash \in [Entry -> Ptr]
      BY <1>1 DEF TypeOK, Ptr
    <3> QED BY <2>4, <3>1, ChainNil
  <2> QED BY <1>10, <1>11, <2>5 DEF IInv, Apart
<1> QED BY <1>3, <1>5, <1>7, <1>8, <1>10, <1>11

-----------------------------------------------------------------------------
(***************************************************************************)
(* The writes of remove and insert through the slot that was found.        *)
(***************************************************************************)

\* The chain of bucket b is D, and the other chains are as they were.
OnlyChain(b, D) ==
    /\ list' \in [Buckets -> Ptr] /\ next_hash' \in [Entry -> Ptr]
    /\ \A c \in Buckets : /\ Acyclic(next_hash', list'[c])
                          /\ c # b => Chain(next_hash', list'[c]) = Chain(next_hash, list[c])
    /\ Chain(next_hash', list'[b]) = D

\* Chains end and have no entry in common.
BucketsApart ==
    \A b \in Buckets : /\ Acyclic(next_hash, list[b])
                       /\ \A c \in Buckets : c # b =>
                            Chain(next_hash, list[b]) \cap Chain(next_hash, list[c]) = {}

\* Links are written in the chain of one bucket, and in entries of no chain.
LEMMA OthersFramed ==
  ASSUME TypeOK, BucketsApart, NEW b \in Buckets, NEW new \in [Entry -> Ptr],
         \A e \in Linked : e \notin Chain(next_hash, list[b]) => new[e] = next_hash[e],
         Linked = UNION {Chain(next_hash, list[c]) : c \in Buckets}
  PROVE  \A c \in Buckets : c # b => /\ Acyclic(new, list[c])
                                     /\ Chain(new, list[c]) = Chain(next_hash, list[c])
<1> SUFFICES ASSUME NEW c \in Buckets, c # b
             PROVE  Acyclic(new, list[c]) /\ Chain(new, list[c]) = Chain(next_hash, list[c])
  OBVIOUS
<1>1. next_hash \in [Entry -> Ptr] /\ list[c] \in Ptr
  BY DEF TypeOK, Ptr, Buckets
<1>2. \A e \in Chain(next_hash, list[c]) : new[e] = next_hash[e]
  BY DEF BucketsApart
<1>3. Acyclic(next_hash, list[c])
  BY DEF BucketsApart
<1> QED BY <1>1, <1>2, <1>3, ChainFrame, AcyclicFrame

LEMMA StoreRemoves ==
  ASSUME TypeOK, BucketsApart, NEW b \in Buckets, NEW C, C = Chain(next_hash, list[b]),
         NEW ptr, SlotIn(ptr, b, C), NEW r, r = Deref(ptr), r # Nil,
         Linked = UNION {Chain(next_hash, list[c]) : c \in Buckets},
         Store(ptr, next_hash[r], next_hash)
  PROVE  OnlyChain(b, C \ {r})
<1>0. next_hash \in [Entry -> Ptr] /\ list \in [Buckets -> Ptr] /\ list[b] \in Ptr
  BY DEF TypeOK, Ptr, Buckets
<1>1. C \subseteq Entry /\ Nil \notin C /\ (list[b] # Nil => list[b] \in C)
  BY <1>0, ChainType
<1>2. Acyclic(next_hash, list[b])
  BY DEF BucketsApart
<1>3. CASE ptr = Bucket(b)
  <2>1. r = list[b] /\ r \in Entry /\ next_hash[r] \in Ptr
    BY <1>0, <1>1, <1>3, Slots DEF Ptr
  <2>2. list' = [list EXCEPT ![b] = next_hash[r]] /\ next_hash' = next_hash
    BY <1>3 DEF Store, Bucket
  <2>3. C = {r} \cup Chain(next_hash, next_hash[r]) /\ r \in C
    BY <1>0, <2>1, ChainUnfold
  <2>4. r \notin Chain(next_hash, next_hash[r]) /\ Acyclic(next_hash, next_hash[r])
    BY <1>0, <1>2, <2>3, <2>1, AcyclicSub DEF Acyclic
  <2>5. list'[b] = next_hash[r] /\ list' \in [Buckets -> Ptr] /\ \A c \in Buckets : c # b => list'[c] = list[c]
    BY <1>0, <2>1, <2>2
  <2>6. Chain(next_hash', list'[b]) = C \ {r} /\ Acyclic(next_hash', list'[b])
    BY <2>2, <2>3, <2>4, <2>5
  <2>7. \A c \in Buckets : c # b => Acyclic(next_hash', list'[c]) /\ Chain(next_hash', list'[c]) = Chain(next_hash, list[c])
    BY <2>2, <2>5 DEF BucketsApart
  <2>8. next_hash' \in [Entry -> Ptr]
    BY <1>0, <2>2
  <2> QED BY <2>5, <2>6, <2>7, <2>8 DEF OnlyChain
<1>4. ASSUME NEW p \in C, ptr = NextOf(p) PROVE OnlyChain(b, C \ {r})
  <2>1. r = next_hash[p] /\ p \in Entry
    BY <1>1, <1>4, Slots
  <2>2. r \in Entry /\ next_hash[r] \in Ptr
    BY <1>0, <2>1 DEF Ptr
  <2>3. list' = list /\ next_hash' = [next_hash EXCEPT ![p] = next_hash[r]]
    BY <1>4 DEF Store, NextOf
  <2>4. next_hash' \in [Entry -> Ptr] /\ next_hash'[p] = next_hash[r]
        /\ \A e \in Entry : e # p => next_hash'[e] = next_hash[e]
    BY <1>0, <2>1, <2>2, <2>3
  <2>5. PICK new \in [Entry -> Ptr] : new = next_hash'
    BY <2>4
  <2>6. new[p] = next_hash[r] /\ \A e \in Entry : e # p => new[e] = next_hash[e]
    BY <2>4, <2>5
  <2>7. Chain(new, list[b]) = C \ {r} /\ Acyclic(new, list[b])
    BY <1>0, <1>2, <1>4, <2>1, <2>6, Unlink
  <2>8. \A e \in Linked : e \notin Chain(next_hash, list[b]) => new[e] = next_hash[e]
    <3>1. Linked \subseteq Entry
      <4>1. \A c \in Buckets : Chain(next_hash, list[c]) \subseteq Entry
        BY <1>0, ChainType
      <4> QED BY <4>1
    <3> QED BY <1>4, <2>6, <3>1
  <2>9. \A c \in Buckets : c # b => Acyclic(new, list[c]) /\ Chain(new, list[c]) = Chain(next_hash, list[c])
    BY <2>8, OthersFramed
  <2> QED BY <1>0, <2>3, <2>5, <2>7, <2>9 DEF OnlyChain
<1> QED BY <1>3, <1>4 DEF SlotIn

LEMMA StoreInserts ==
  ASSUME TypeOK, BucketsApart, NEW b \in Buckets, NEW C, C = Chain(next_hash, list[b]),
         NEW ptr, SlotIn(ptr, b, C), NEW old, old = Deref(ptr),
         NEW rest, rest = IF old = Nil THEN Nil ELSE next_hash[old],
         NEW e \in Entry, e \notin Linked,
         Linked = UNION {Chain(next_hash, list[c]) : c \in Buckets},
         Store(ptr, e, [next_hash EXCEPT ![e] = rest])
  PROVE  OnlyChain(b, (C \ {old}) \cup {e})
<1>0. next_hash \in [Entry -> Ptr] /\ list \in [Buckets -> Ptr] /\ list[b] \in Ptr
  BY DEF TypeOK, Ptr, Buckets
<1>1. /\ C \subseteq Entry /\ Nil \notin C /\ (list[b] # Nil => list[b] \in C)
      /\ \A d \in C : next_hash[d] \in C \cup {Nil}
  BY <1>0, ChainType
<1>2. Acyclic(next_hash, list[b])
  BY DEF BucketsApart
<1>3. C \subseteq Linked /\ e \notin C /\ Linked \subseteq Entry
  <2>1. \A c \in Buckets : Chain(next_hash, list[c]) \subseteq Entry
    BY <1>0, ChainType
  <2> QED BY <2>1
<1>4. old \in C \cup {Nil} /\ old \in Ptr
  <2>1. old \in C \cup {Nil}
    BY <1>1, Slots DEF SlotIn
  <2> QED BY <1>1, <2>1 DEF Ptr
<1>5. rest \in Ptr
  BY <1>0, <1>1, <1>4 DEF Ptr
<1>6. PICK mid \in [Entry -> Ptr] : mid = [next_hash EXCEPT ![e] = rest]
  BY <1>0, <1>5
<1>7. mid[e] = rest /\ \A d \in Entry : d # e => mid[d] = next_hash[d]
  BY <1>0, <1>6
<1>8. e \in Ptr
  BY DEF Ptr
<1>9. CASE ptr = Bucket(b)
  <2>1. list' = [list EXCEPT ![b] = e] /\ next_hash' = mid
    BY <1>6, <1>9 DEF Store, Bucket
  <2>2. old = list[b]
    BY <1>9, Slots
  <2>3. Chain(next_hash, rest) = C \ {old} /\ Acyclic(next_hash, rest)
    <3>1. CASE old = Nil
      <4>1. rest = list[b] /\ C = C \ {old}
        BY <1>1, <2>2, <3>1
      <4> QED BY <1>2, <4>1
    <3>2. CASE old # Nil
      <4>1. old \in C /\ old \in Entry /\ rest = next_hash[old]
        BY <1>1, <1>4, <3>2
      <4>2. C = {old} \cup Chain(next_hash, next_hash[old])
        BY <1>0, <2>2, <4>1, ChainUnfold
      <4>3. old \notin Chain(next_hash, next_hash[old])
        BY <1>2, <4>1 DEF Acyclic
      <4>4. Acyclic(next_hash, next_hash[old])
        BY <1>0, <1>2, <4>1, AcyclicSub
      <4> QED BY <4>1, <4>2, <4>3, <4>4
    <3> QED BY <3>1, <3>2
  <2>4. e \notin Chain(next_hash, rest)
    BY <1>3, <2>3
  <2>5. Chain(mid, e) = Chain(next_hash, rest) \cup {e} /\ Acyclic(mid, e)
    BY <1>0, <1>5, <1>7, <2>3, <2>4, PushFront
  <2>6. list'[b] = e /\ list' \in [Buckets -> Ptr] /\ \A c \in Buckets : c # b => list'[c] = list[c]
    BY <1>0, <1>8, <2>1
  <2>7. \A d \in Linked : d \notin Chain(next_hash, list[b]) => mid[d] = next_hash[d]
    BY <1>3, <1>7
  <2>8. \A c \in Buckets : c # b => Acyclic(mid, list[c]) /\ Chain(mid, list[c]) = Chain(next_hash, list[c])
    BY <2>7, OthersFramed
  <2> QED BY <2>1, <2>3, <2>5, <2>6, <2>8 DEF OnlyChain
<1>10. ASSUME NEW p \in C, ptr = NextOf(p) PROVE OnlyChain(b, (C \ {old}) \cup {e})
  <2>1. old = next_hash[p] /\ p \in Entry /\ p # e
    BY <1>1, <1>3, <1>10, Slots
  <2>2. list' = list /\ next_hash' = [mid EXCEPT ![p] = e]
    BY <1>6, <1>10 DEF Store, NextOf
  <2>3. PICK new \in [Entry -> Ptr] : new = [mid EXCEPT ![p] = e]
    BY <1>8
  <2>4. new[e] = rest /\ new[p] = e /\ \A d \in Entry : d # p /\ d # e => new[d] = next_hash[d]
    BY <1>7, <2>1, <2>3
  <2>5. Chain(new, list[b]) = (C \ {old}) \cup {e} /\ Acyclic(new, list[b])
    <3>1. CASE old = Nil
      <4>1. new[e] = next_hash[p] /\ C \ {old} = C
        BY <1>1, <2>1, <2>4, <3>1
      <4> QED BY <1>0, <1>2, <1>3, <1>10, <2>4, <4>1, PushBehind
    <3>2. CASE old # Nil
      <4>1. rest = next_hash[old] /\ old \in C
        BY <1>4, <3>2
      <4>2. PICK cut \in [Entry -> Ptr] : cut = [next_hash EXCEPT ![p] = rest]
        BY <1>0, <1>5
      <4>3. cut[p] = next_hash[old] /\ \A d \in Entry : d # p => cut[d] = next_hash[d]
        BY <1>0, <2>1, <4>1, <4>2
      <4>4. Chain(cut, list[b]) = C \ {old} /\ Acyclic(cut, list[b])
        BY <1>0, <1>2, <1>10, <2>1, <3>2, <4>3, Unlink
      <4>5. p # old
        <5>1. p \notin Chain(next_hash, old)
          BY <1>2, <1>10, <2>1 DEF Acyclic
        <5>2. old \in Chain(next_hash, old)
          BY <1>0, <1>4, <3>2, ChainType
        <5> QED BY <5>1, <5>2
      <4>6. p \in Chain(cut, list[b]) /\ e \notin Chain(cut, list[b])
        BY <1>3, <1>10, <4>4, <4>5
      <4>7. new[e] = cut[p] /\ new[p] = e /\ \A d \in Entry : d # p /\ d # e => new[d] = cut[d]
        BY <2>4, <4>1, <4>3
      <4>8. Chain(new, list[b]) = Chain(cut, list[b]) \cup {e} /\ Acyclic(new, list[b])
        BY <1>0, <4>4, <4>6, <4>7, PushBehind
      <4> QED BY <4>4, <4>8
    <3> QED BY <3>1, <3>2
  <2>6. \A d \in Linked : d \notin Chain(next_hash, list[b]) => new[d] = next_hash[d]
    BY <1>3, <1>10, <2>4
  <2>7. \A c \in Buckets : c # b => Acyclic(new, list[c]) /\ Chain(new, list[c]) = Chain(next_hash, list[c])
    BY <2>6, OthersFramed
  <2> QED BY <1>0, <2>2, <2>3, <2>5, <2>7 DEF OnlyChain
<1> QED BY <1>9, <1>10 DEF SlotIn

LEMMA IdleFacts ==
  ASSUME IInv, pc = "idle"
  PROVE  /\ TypeOK /\ BucketsApart /\ OldBuckets = Buckets /\ Moved = {} /\ DOMAIN new_list = {}
         /\ Linked = UNION {Chain(next_hash, list[b]) : b \in Buckets}
         /\ Linked \subseteq Entry /\ IsFiniteSet(Linked)
         /\ \A b \in Buckets : \A e \in Chain(next_hash, list[b]) : Hash(KeyOf(e)) % length = b
         /\ h = Nil /\ count = 0 /\ i = 0
<1>1. TypeOK /\ h = Nil /\ pc # "move" /\ count = 0 /\ i = 0
  BY DEF IInv, Phase
<1>2. /\ OldBuckets = Buckets /\ Moved = {} /\ DOMAIN new_list = {}
      /\ Linked = UNION {Chain(next_hash, list[b]) : b \in Buckets}
  BY <1>1, NotMoving
<1>3. \A b \in Buckets : \A e \in Chain(next_hash, list[b]) : Hash(KeyOf(e)) % length = b
  BY <1>2 DEF IInv, Home
<1>4. BucketsApart
  BY <1>2, <1>3 DEF IInv, Ends, BucketsApart
<1>5. Linked \subseteq Entry
  <2>1. next_hash \in [Entry -> Ptr] /\ \A b \in Buckets : list[b] \in Ptr
    BY <1>1 DEF TypeOK, Ptr, Buckets
  <2>2. \A b \in Buckets : Chain(next_hash, list[b]) \subseteq Entry
    BY <2>1, ChainType
  <2> QED BY <1>2, <2>2
<1>6. IsFiniteSet(Linked)
  BY <1>5, HandleTableAssumption, FS_Subset
<1> QED BY <1>1, <1>2, <1>3, <1>4, <1>5, <1>6

\* A call that changes the chain of one bucket to D keeps the invariant.
LEMMA ChangedChain ==
  ASSUME IInv, pc = "idle", NEW b \in Buckets, NEW D, OnlyChain(b, D),
         \A e \in D : Hash(KeyOf(e)) % length = b,
         NEW L, L = (Linked \ Chain(next_hash, list[b])) \cup D,
         \A d, e \in L : KeyOf(d) = KeyOf(e) => d = e,
         elems' \in Nat, elems' = Cardinality(L), ret' \in Ptr, new_length' \in Nat,
         (pc' = "idle" /\ elems' <= length) \/ (pc' = "grow" /\ new_length' > 0),
         UNCHANGED <<length, new_list, i, h, count>>
  PROVE  IInv' /\ Linked' = L
<1> USE IdleFacts
<1>1. TypeOK'
  <2>1. list' \in [0..(length' - 1) -> Ptr] /\ next_hash' \in [Entry -> Ptr]
    BY DEF OnlyChain, Buckets
  <2>2. new_list' \in [IF pc' = "move" THEN 0..(new_length' - 1) ELSE {} -> Entry \cup {Nil}]
    <3>1. new_list \in [{} -> Entry \cup {Nil}] /\ pc' # "move"
      BY DEF TypeOK
    <3> QED BY <3>1
  <2>3. pc' \in {"idle", "grow", "move"}
    OBVIOUS
  <2> QED BY <2>1, <2>2, <2>3 DEF TypeOK, Ptr
<1>2. (TypeOK /\ pc # "move" /\ h = Nil)'
  BY <1>1
<1>3. (/\ OldBuckets = Buckets /\ Moved = {} /\ DOMAIN new_list = {}
       /\ Linked = UNION {Chain(next_hash, list[c]) : c \in Buckets}
       /\ Chain(next_hash, h) = {})'
  BY <1>2, NotMovingPrime
<1>4. Buckets' = Buckets
  BY DEF Buckets
<1>5. Linked' = L
  <2>1. Linked' = UNION {Chain(next_hash', list'[c]) : c \in Buckets}
    BY <1>3, <1>4
  <2>2. ASSUME NEW e PROVE e \in Linked' <=> e \in L
    <3>1. e \in Linked' <=> \E c \in Buckets : e \in Chain(next_hash', list'[c])
      BY <2>1
    <3>2. e \in Linked' <=> e \in D \/ \E c \in Buckets : c # b /\ e \in Chain(next_hash, list[c])
      BY <3>1 DEF OnlyChain
    <3>3. e \in Linked <=> \E c \in Buckets : e \in Chain(next_hash, list[c])
      OBVIOUS
    <3>4. (\E c \in Buckets : c # b /\ e \in Chain(next_hash, list[c]))
            <=> e \in Linked /\ e \notin Chain(next_hash, list[b])
      BY <3>3 DEF BucketsApart
    <3> QED BY <3>2, <3>4
  <2> QED BY <2>2
<1>6. Ends'
  <2>1. \A c \in Buckets' : Acyclic(next_hash', list'[c])
    BY <1>4 DEF OnlyChain
  <2>2. Acyclic(next_hash', h')
    BY <1>3 DEF Acyclic
  <2> QED BY <1>3, <2>1, <2>2 DEF Ends
<1>7. Home'
  <2>1. \A c \in Buckets : \A e \in Chain(next_hash', list'[c]) : Hash(KeyOf(e)) % length = c
    BY DEF OnlyChain
  <2>2. \A c \in Buckets' : \A e \in Chain(next_hash', list'[c]) : Hash(KeyOf(e)) % length' = c
    BY <1>4, <2>1
  <2> QED BY <1>3, <2>2 DEF Home
<1>8. Apart'
  BY <1>3, <1>5 DEF Apart
<1>9. Counts'
  <2>1. Cardinality(Moved') = 0
    BY <1>3, FS_EmptySet
  <2>2. count' = 0
    OBVIOUS
  <2> QED BY <1>5, <2>1, <2>2 DEF Counts
<1>10. Phase'
  BY <1>1 DEF Phase
<1> QED BY <1>1, <1>5, <1>6, <1>7, <1>8, <1>9, <1>10 DEF IInv

\* The entry that takes the place of the one with its key, if there is one.
LEMMA InsertStep ==
  ASSUME IInv, NEW e \in Entry, Insert(e)
  PROVE  /\ IInv'
         /\ ret' \in Ptr
         /\ Linked' = (Linked \ {ret'}) \cup {e}
         /\ \A d \in Linked : KeyOf(d) = KeyOf(e) => d = ret'
         /\ ret' # Nil => ret' \in Linked /\ KeyOf(ret') = KeyOf(e)
<1> DEFINE k == KeyOf(e)
           b == Hash(k) % length
           C == Chain(next_hash, list[b])
<1>1. pc = "idle" /\ e \notin Linked /\ k \in Key
  BY HandleTableAssumption DEF Insert
<1>2. PICK ptr : ptr = FindPointer(k)
  OBVIOUS
<1>3. PICK old : old = Deref(ptr)
  OBVIOUS
<1>4. PICK rest : rest = IF old = Nil THEN Nil ELSE next_hash[old]
  OBVIOUS
<1>5. /\ b \in Buckets /\ SlotIn(ptr, b, C) /\ old \in C \cup {Nil}
      /\ old # Nil => old \in Linked /\ KeyOf(old) = k
      /\ \A d \in Linked : KeyOf(d) = k => d = old
  BY <1>1, <1>2, <1>3, FindPointerFinds
<1>6. ret' = old /\ Store(ptr, e, [next_hash EXCEPT ![e] = rest])
      /\ Counted(IF old = Nil THEN elems + 1 ELSE elems)
      /\ UNCHANGED <<length, new_list, i, h, count>>
  BY <1>2, <1>3, <1>4 DEF Insert
<1>7. /\ TypeOK /\ BucketsApart /\ Linked \subseteq Entry /\ IsFiniteSet(Linked)
      /\ Linked = UNION {Chain(next_hash, list[c]) : c \in Buckets}
      /\ \A c \in Buckets : \A d \in Chain(next_hash, list[c]) : Hash(KeyOf(d)) % length = c
  BY <1>1, IdleFacts
<1>8. OnlyChain(b, (C \ {old}) \cup {e})
  BY <1>1, <1>3, <1>4, <1>5, <1>6, <1>7, StoreInserts
<1>9. \A d \in (C \ {old}) \cup {e} : Hash(KeyOf(d)) % length = b
  BY <1>5, <1>7
<1> DEFINE L == (Linked \ C) \cup ((C \ {old}) \cup {e})
<1>10. L = (Linked \ {old}) \cup {e} /\ C \subseteq Linked /\ old \in Ptr
  <2>1. C \subseteq Linked
    BY <1>5, <1>7
  <2>2. Nil \notin Linked
    BY <1>7, HandleTableAssumption
  <2>3. old \notin Linked \ C
    BY <1>5, <2>1, <2>2
  <2> QED BY <1>5, <1>7, <2>1, <2>3 DEF Ptr
<1>11. \A d, c \in L : KeyOf(d) = KeyOf(c) => d = c
  BY <1>5, <1>10 DEF IInv, Apart
<1> HIDE DEF L, C, b, k
<1>12. elems' \in Nat /\ elems' = Cardinality(L) /\ (old = Nil => elems' = elems + 1) /\ (old # Nil => elems' = elems)
  <2>0. elems = Cardinality(Linked) /\ elems \in Nat
    BY <1>7 DEF IInv, Counts, TypeOK
  <2>1. CASE old = Nil
    <3>1. L = Linked \cup {e}
      BY <1>7, <1>10, <2>1, HandleTableAssumption
    <3>2. Cardinality(L) = elems + 1
      BY <1>1, <1>7, <2>0, <3>1, FS_AddElement
    <3>3. elems' = elems + 1
      BY <1>6, <2>1 DEF Counted
    <3> QED BY <2>0, <2>1, <3>2, <3>3
  <2>2. CASE old # Nil
    <3>1. old \in Linked
      BY <1>5, <2>2
    <3>2. IsFiniteSet(Linked \ {old}) /\ Cardinality(Linked \ {old}) = elems - 1
      BY <1>7, <2>0, <3>1, FS_RemoveElement
    <3>3. Cardinality((Linked \ {old}) \cup {e}) = (elems - 1) + 1
      BY <1>1, <3>2, FS_AddElement
    <3>4. Cardinality(L) = (elems - 1) + 1
      BY <1>10, <3>3
    <3>5. elems' = elems
      BY <1>6, <2>2 DEF Counted
    <3> QED BY <2>0, <2>2, <3>4, <3>5
  <2> QED BY <2>1, <2>2
<1>13. /\ new_length' \in Nat
       /\ (pc' = "idle" /\ elems' <= length) \/ (pc' = "grow" /\ new_length' > 0)
  <2>1. length \in Nat /\ new_length \in Nat /\ elems' \in Nat /\ MinLength \in Nat /\ MinLength > 0
    BY <1>7, <1>12 DEF TypeOK, MinLength
  <2>2. IF elems' > length THEN pc' = "grow" /\ new_length' = MinLength ELSE UNCHANGED <<pc, new_length>>
    BY <1>6 DEF Counted
  <2>3. CASE elems' > length
    BY <2>1, <2>2, <2>3
  <2>4. CASE ~(elems' > length)
    BY <1>1, <2>1, <2>2, <2>4
  <2> QED BY <2>3, <2>4
<1>14. PICK M : M = L
  OBVIOUS
<1>15. M = (Linked \ Chain(next_hash, list[b])) \cup ((C \ {old}) \cup {e})
  BY <1>14 DEF L, C
<1>16. IInv' /\ Linked' = M
  BY <1>1, <1>5, <1>6, <1>8, <1>9, <1>10, <1>11, <1>12, <1>13, <1>14, <1>15, ChangedChain
<1> QED BY <1>5, <1>6, <1>10, <1>14, <1>16 DEF k

LEMMA RemoveStep ==
  ASSUME IInv, NEW k \in Key, Remove(k)
  PROVE  /\ IInv'
         /\ ret' \in Ptr
         /\ Linked' = Linked \ {ret'}
         /\ \A d \in Linked : KeyOf(d) = k => d = ret'
         /\ ret' # Nil => ret' \in Linked /\ KeyOf(ret') = k
<1> DEFINE b == Hash(k) % length
           C == Chain(next_hash, list[b])
<1>1. pc = "idle" /\ pc' = pc /\ UNCHANGED <<length, new_length, new_list, i, h, count>>
  BY DEF Remove, locals
<1>2. PICK ptr : ptr = FindPointer(k)
  OBVIOUS
<1>3. PICK r : r = Deref(ptr)
  OBVIOUS
<1>5. /\ b \in Buckets /\ SlotIn(ptr, b, C) /\ r \in C \cup {Nil}
      /\ r # Nil => r \in Linked /\ KeyOf(r) = k
      /\ \A d \in Linked : KeyOf(d) = k => d = r
  BY <1>1, <1>2, <1>3, FindPointerFinds
<1>6. /\ ret' = r
      /\ IF r = Nil
         THEN UNCHANGED <<elems, list, next_hash>>
         ELSE Store(ptr, next_hash[r], next_hash) /\ elems' = elems - 1
  BY <1>2, <1>3 DEF Remove
<1>7. /\ TypeOK /\ BucketsApart /\ Linked \subseteq Entry /\ IsFiniteSet(Linked)
      /\ Linked = UNION {Chain(next_hash, list[c]) : c \in Buckets}
      /\ \A c \in Buckets : \A d \in Chain(next_hash, list[c]) : Hash(KeyOf(d)) % length = c
  BY <1>1, IdleFacts
<1>8. OnlyChain(b, C \ {r})
  <2>1. CASE r = Nil
    <3>1. list' = list /\ next_hash' = next_hash
      BY <1>6, <2>1
    <3>2. list \in [Buckets -> Ptr] /\ next_hash \in [Entry -> Ptr] /\ list[b] \in Ptr
      BY <1>5, <1>7 DEF TypeOK, Ptr, Buckets
    <3>3. C \ {r} = C
      BY <2>1, <3>2, ChainType
    <3> QED BY <1>7, <3>1, <3>2, <3>3 DEF OnlyChain, BucketsApart
  <2>2. CASE r # Nil
    BY <1>3, <1>5, <1>6, <1>7, <2>2, StoreRemoves
  <2> QED BY <2>1, <2>2
<1>9. \A d \in C \ {r} : Hash(KeyOf(d)) % length = b
  BY <1>5, <1>7
<1> DEFINE L == (Linked \ C) \cup (C \ {r})
<1>10. L = Linked \ {r} /\ C \subseteq Linked /\ r \in Ptr
  <2>1. C \subseteq Linked
    BY <1>5, <1>7
  <2>2. Nil \notin Linked
    BY <1>7, HandleTableAssumption
  <2>3. r \notin Linked \ C
    BY <1>5, <2>1, <2>2
  <2> QED BY <1>5, <1>7, <2>1, <2>3 DEF Ptr
<1>11. \A d, c \in L : KeyOf(d) = KeyOf(c) => d = c
  BY <1>10 DEF IInv, Apart
<1> HIDE DEF L, C, b
<1>12. elems' \in Nat /\ elems' = Cardinality(L) /\ elems' <= elems
  <2>0. elems = Cardinality(Linked) /\ elems \in Nat
    BY <1>7 DEF IInv, Counts, TypeOK
  <2>1. CASE r = Nil
    <3>1. L = Linked
      BY <1>7, <1>10, <2>1, HandleTableAssumption
    <3> QED BY <1>6, <2>0, <2>1, <3>1
  <2>2. CASE r # Nil
    <3>1. r \in Linked
      BY <1>5, <2>2
    <3>2. IsFiniteSet(Linked \ {r}) /\ Cardinality(Linked \ {r}) = elems - 1
      BY <1>7, <2>0, <3>1, FS_RemoveElement
    <3>3. Cardinality(L) = elems - 1 /\ elems - 1 \in Nat
      BY <1>10, <3>2, FS_CardinalityType
    <3> QED BY <1>6, <2>0, <2>2, <3>3
  <2> QED BY <2>1, <2>2
<1>13. new_length' \in Nat /\ pc' = "idle" /\ elems' <= length
  <2>1. elems <= length /\ elems \in Nat /\ length \in Nat /\ new_length \in Nat
    BY <1>1, <1>7 DEF IInv, Phase, TypeOK
  <2> QED BY <1>1, <1>12, <2>1
<1>14. PICK M : M = L
  OBVIOUS
<1>15. M = (Linked \ Chain(next_hash, list[b])) \cup (C \ {r})
  BY <1>14 DEF L, C
<1>16. IInv' /\ Linked' = M
  BY <1>1, <1>5, <1>6, <1>8, <1>9, <1>10, <1>11, <1>12, <1>13, <1>14, <1>15, ChangedChain
<1> QED BY <1>5, <1>6, <1>10, <1>14, <1>16

-----------------------------------------------------------------------------
(***************************************************************************)
(* _resize.                                                                *)
(***************************************************************************)

LEMMA Typed ==
  ASSUME IInv
  PROVE  /\ next_hash \in [Entry -> Ptr] /\ h \in Ptr /\ list \in [Buckets -> Ptr]
         /\ \A b \in OldBuckets : b \in Buckets /\ list[b] \in Ptr
         /\ \A b \in DOMAIN new_list : new_list[b] \in Ptr
         /\ Linked \subseteq Entry /\ Nil \notin Linked
         /\ IsFiniteSet(Linked) /\ IsFiniteSet(Moved)
<1>1. /\ next_hash \in [Entry -> Ptr] /\ h \in Ptr /\ list \in [Buckets -> Ptr]
      /\ \A b \in DOMAIN new_list : new_list[b] \in Ptr
  BY DEF IInv, TypeOK, Ptr, Buckets
<1>2. \A b \in OldBuckets : b \in Buckets /\ list[b] \in Ptr
  BY <1>1 DEF OldBuckets, Buckets
<1>3. /\ \A b \in OldBuckets : Chain(next_hash, list[b]) \subseteq Entry
      /\ Chain(next_hash, h) \subseteq Entry
      /\ \A b \in DOMAIN new_list : Chain(next_hash, new_list[b]) \subseteq Entry
  BY <1>1, <1>2, ChainType
<1>4. Unmoved \subseteq Entry /\ Moved \subseteq Entry
  BY <1>3 DEF Unmoved, Moved
<1>5. Linked \subseteq Entry
  BY <1>4 DEF Linked
<1> QED BY <1>1, <1>2, <1>4, <1>5, HandleTableAssumption, FS_Subset

LEMMA GrowStep ==
  ASSUME IInv, Grow
  PROVE  IInv' /\ Linked' = Linked
<1>1. pc = "grow" /\ new_length' = new_length * 2
      /\ UNCHANGED <<length, elems, list, next_hash, ret, pc, new_list, i, h, count>>
  BY DEF Grow
<1>2. TypeOK /\ h = Nil /\ pc # "move" /\ new_length > 0
  BY <1>1 DEF IInv, Phase
<1>3. DOMAIN new_list = {}
  BY <1>2, NotMoving
<1>4. new_length' \in Nat /\ new_length' > 0
  BY <1>1, <1>2 DEF TypeOK
<1>5. TypeOK'
  <2>1. new_list \in [{} -> Entry \cup {Nil}]
    BY <1>2 DEF TypeOK
  <2>2. new_list' \in [IF pc' = "move" THEN 0..(new_length' - 1) ELSE {} -> Entry \cup {Nil}]
    BY <1>1, <1>2, <2>1
  <2> QED BY <1>1, <1>2, <1>4, <2>2 DEF TypeOK
<1>6. OldBuckets' = OldBuckets /\ Unmoved' = Unmoved /\ Moved' = Moved /\ Linked' = Linked
  BY <1>1 DEF OldBuckets, Unmoved, Moved, Linked
<1>7. Ends'
  BY <1>1, <1>6 DEF IInv, Ends
<1>8. Home'
  BY <1>1, <1>3, <1>6 DEF IInv, Home
<1>9. Apart' /\ Counts'
  BY <1>1, <1>6 DEF IInv, Apart, Counts
<1>10. Phase'
  BY <1>1, <1>2, <1>4 DEF IInv, Phase
<1> QED BY <1>5, <1>6, <1>7, <1>8, <1>9, <1>10 DEF IInv

LEMMA AllocateStep ==
  ASSUME IInv, Allocate
  PROVE  IInv' /\ Linked' = Linked
<1>1. /\ pc = "grow" /\ pc' = "move" /\ new_length >= elems
      /\ new_list' = [b \in 0..(new_length - 1) |-> Nil]
      /\ count' = 0 /\ i' = 0 /\ h' = list[0]
      /\ UNCHANGED <<length, elems, list, next_hash, ret, new_length>>
  BY DEF Allocate
<1>2. TypeOK /\ h = Nil /\ pc # "move" /\ new_length > 0
  BY <1>1 DEF IInv, Phase
<1>3. /\ OldBuckets = Buckets /\ Moved = {} /\ DOMAIN new_list = {}
      /\ Linked = UNION {Chain(next_hash, list[b]) : b \in Buckets}
  BY <1>2, NotMoving
<1>4. next_hash \in [Entry -> Ptr] /\ list \in [Buckets -> Ptr] /\ 0 \in Buckets /\ new_length \in Nat
      /\ length \in Nat
  BY <1>2 DEF TypeOK, Buckets, Ptr
<1>5. TypeOK'
  <2>1. new_list' \in [0..(new_length' - 1) -> Entry \cup {Nil}]
    BY <1>1
  <2>2. i' \in 0..(length' - 1) /\ h' \in Entry \cup {Nil}
    BY <1>1, <1>4 DEF Buckets, Ptr
  <2> QED BY <1>1, <1>2, <2>1, <2>2 DEF TypeOK
<1>6. OldBuckets' = Buckets \ {0}
  BY <1>1, <1>4 DEF OldBuckets, Buckets
<1>7. \A b \in DOMAIN new_list' : new_list'[b] = Nil /\ Chain(next_hash', new_list'[b]) = {}
  BY <1>1, <1>4, ChainNil
<1>8. Moved' = {}
  BY <1>7 DEF Moved
<1>9. Unmoved' = Linked
  <2>1. Unmoved' = Chain(next_hash, list[0]) \cup UNION {Chain(next_hash, list[b]) : b \in Buckets \ {0}}
    BY <1>1, <1>6 DEF Unmoved
  <2> QED BY <1>3, <1>4, <2>1
<1>10. Linked' = Linked
  BY <1>8, <1>9 DEF Linked
<1>11. Ends'
  <2>1. \A b \in Buckets : Acyclic(next_hash', list'[b])
    BY <1>1, <1>3 DEF IInv, Ends
  <2>2. Acyclic(next_hash', h')
    BY <1>1, <1>4, <2>1
  <2>3. \A b \in DOMAIN new_list' : Acyclic(next_hash', new_list'[b])
    BY <1>7 DEF Acyclic
  <2> QED BY <1>6, <2>1, <2>2, <2>3 DEF Ends
<1>12. Home'
  <2>1. \A b \in Buckets : \A e \in Chain(next_hash', list'[b]) : Hash(KeyOf(e)) % length' = b
    BY <1>1, <1>3 DEF IInv, Home
  <2>2. \A e \in Chain(next_hash', h') : Hash(KeyOf(e)) % length' = i'
    BY <1>1, <1>4, <2>1
  <2> QED BY <1>6, <1>7, <2>1, <2>2 DEF Home
<1>13. Apart'
  BY <1>8, <1>10 DEF IInv, Apart
<1>14. Counts'
  BY <1>1, <1>8, <1>10, FS_EmptySet DEF IInv, Counts
<1>15. Phase'
  BY <1>1, <1>2 DEF Phase
<1> QED BY <1>5, <1>10, <1>11, <1>12, <1>13, <1>14, <1>15 DEF IInv

LEMMA MoveEntryStep ==
  ASSUME IInv, MoveEntry
  PROVE  IInv' /\ Linked' = Linked
<1> DEFINE b == Hash(KeyOf(h)) % new_length
<1>1. /\ pc = "move" /\ h # Nil
      /\ next_hash' = [next_hash EXCEPT ![h] = new_list[b]]
      /\ new_list' = [new_list EXCEPT ![b] = h]
      /\ h' = next_hash[h] /\ count' = count + 1
      /\ UNCHANGED <<length, elems, list, ret, pc, new_length, i>>
  BY DEF MoveEntry
<1>2. /\ next_hash \in [Entry -> Ptr] /\ h \in Ptr /\ list \in [Buckets -> Ptr]
      /\ \A c \in OldBuckets : c \in Buckets /\ list[c] \in Ptr
      /\ \A c \in DOMAIN new_list : new_list[c] \in Ptr
      /\ IsFiniteSet(Moved)
  BY Typed
<1>3. h \in Entry /\ h' \in Ptr /\ Hash(KeyOf(h)) \in Nat
  BY <1>1, <1>2, HandleTableAssumption DEF Ptr
<1>4. /\ DOMAIN new_list = 0..(new_length - 1) /\ new_list \in [0..(new_length - 1) -> Ptr]
      /\ new_length \in Nat /\ new_length > 0
  BY <1>1 DEF IInv, TypeOK, Phase, Ptr
<1>5. b \in DOMAIN new_list
  BY <1>3, <1>4
<1> HIDE DEF b
<1>6. PICK links \in [Entry -> Ptr] : links = next_hash'
  BY <1>1, <1>2, <1>5
<1>7. links[h] = new_list[b] /\ \A e \in Entry : e # h => links[e] = next_hash[e]
  BY <1>1, <1>2, <1>3, <1>6
<1>8. /\ new_list' \in [0..(new_length - 1) -> Ptr] /\ new_list'[b] = h
      /\ DOMAIN new_list' = DOMAIN new_list
      /\ \A c \in DOMAIN new_list : c # b => new_list'[c] = new_list[c]
  BY <1>1, <1>2, <1>4, <1>5
\* The chains that h is not in are as they were.
<1>9. \A x \in Ptr : h \notin Chain(next_hash, x) /\ Acyclic(next_hash, x)
        => Chain(links, x) = Chain(next_hash, x) /\ Acyclic(links, x)
  <2> SUFFICES ASSUME NEW x \in Ptr, h \notin Chain(next_hash, x), Acyclic(next_hash, x)
               PROVE  Chain(links, x) = Chain(next_hash, x) /\ Acyclic(links, x)
    OBVIOUS
  <2>1. \A e \in Chain(next_hash, x) : links[e] = next_hash[e]
    BY <1>2, <1>7, ChainType
  <2> QED BY <1>2, <2>1, ChainFrame, AcyclicFrame
<1>10. /\ Chain(next_hash, h) = {h} \cup Chain(next_hash, h')
       /\ h \notin Chain(next_hash, h') /\ Acyclic(next_hash, h')
  <2>0. h' = next_hash[h] /\ Acyclic(next_hash, h)
    BY <1>1 DEF IInv, Ends
  <2>1. Chain(next_hash, h) = {h} \cup Chain(next_hash, h')
    BY <1>2, <1>3, <2>0, ChainUnfold
  <2>2. h \in Chain(next_hash, h)
    BY <2>1
  <2>3. h \notin Chain(next_hash, h')
    BY <2>0, <2>2 DEF Acyclic
  <2>4. Acyclic(next_hash, h')
    BY <1>2, <2>0, <2>2, AcyclicSub
  <2> QED BY <2>1, <2>3, <2>4
<1>11. Chain(links, h') = Chain(next_hash, h') /\ Acyclic(links, h')
  BY <1>3, <1>9, <1>10
<1>12. ASSUME NEW c \in OldBuckets
       PROVE  /\ h \notin Chain(next_hash, list[c])
              /\ Chain(links, list[c]) = Chain(next_hash, list[c]) /\ Acyclic(links, list[c])
  <2>1. h \in Chain(next_hash, h)
    BY <1>10
  <2>2. Hash(KeyOf(h)) % length = i
    BY <2>1 DEF IInv, Home
  <2>3. c # i /\ i \in Nat
    BY <1>1 DEF OldBuckets, IInv, TypeOK
  <2>4. \A e \in Chain(next_hash, list[c]) : Hash(KeyOf(e)) % length = c
    BY DEF IInv, Home
  <2>5. h \notin Chain(next_hash, list[c])
    BY <2>2, <2>3, <2>4
  <2>6. Acyclic(next_hash, list[c]) /\ list[c] \in Ptr
    BY <1>2 DEF IInv, Ends
  <2> QED BY <1>9, <2>5, <2>6
<1>13. h \notin Moved
  <2>1. h \in Unmoved
    BY <1>10 DEF Unmoved
  <2> QED BY <2>1 DEF IInv, Apart
<1>14. \A c \in DOMAIN new_list : h \notin Chain(next_hash, new_list[c]) /\ Acyclic(next_hash, new_list[c])
  BY <1>13 DEF Moved, IInv, Ends
<1>15. \A c \in DOMAIN new_list : c # b =>
         Chain(links, new_list'[c]) = Chain(next_hash, new_list[c]) /\ Acyclic(links, new_list'[c])
  BY <1>2, <1>8, <1>9, <1>14
<1>16. Chain(links, new_list'[b]) = Chain(next_hash, new_list[b]) \cup {h} /\ Acyclic(links, new_list'[b])
  <2>1. PICK first \in Ptr : first = new_list[b]
    BY <1>2, <1>5
  <2>2. Acyclic(next_hash, first) /\ h \notin Chain(next_hash, first) /\ links[h] = first
    BY <1>5, <1>7, <1>14, <2>1
  <2>3. Chain(links, h) = Chain(next_hash, first) \cup {h} /\ Acyclic(links, h)
    BY <1>2, <1>3, <1>7, <2>2, PushFront
  <2> QED BY <1>8, <2>1, <2>3
<1>17. OldBuckets' = OldBuckets
  BY <1>1 DEF OldBuckets
<1>18. Moved' = Moved \cup {h}
  <2>1. Moved' = UNION {Chain(links, new_list'[c]) : c \in DOMAIN new_list}
    BY <1>6, <1>8 DEF Moved
  <2>2. ASSUME NEW e PROVE e \in Moved' <=> e \in Moved \cup {h}
    <3>1. e \in Moved' <=> \E c \in DOMAIN new_list : e \in Chain(links, new_list'[c])
      BY <2>1
    <3>2. e \in Moved <=> \E c \in DOMAIN new_list : e \in Chain(next_hash, new_list[c])
      BY DEF Moved
    <3> QED BY <1>5, <1>15, <1>16, <3>1, <3>2
  <2> QED BY <2>2
<1>19. Unmoved' = Unmoved \ {h}
  <2>1. Unmoved' = Chain(links, h') \cup UNION {Chain(links, list[c]) : c \in OldBuckets}
    BY <1>1, <1>6, <1>17 DEF Unmoved
  <2>2. UNION {Chain(links, list[c]) : c \in OldBuckets} = UNION {Chain(next_hash, list[c]) : c \in OldBuckets}
    BY <1>12
  <2>3. h \notin UNION {Chain(next_hash, list[c]) : c \in OldBuckets}
    BY <1>12
  <2>4. PICK A : A = UNION {Chain(next_hash, list[c]) : c \in OldBuckets}
    OBVIOUS
  <2>5. Unmoved = A \cup Chain(next_hash, h) /\ Unmoved' = A \cup Chain(next_hash, h') /\ h \notin A
    BY <1>11, <2>1, <2>2, <2>3, <2>4 DEF Unmoved
  <2> QED BY <1>10, <2>5
<1>20. h \in Unmoved /\ Linked' = Linked
  <2>1. h \in Unmoved
    BY <1>10 DEF Unmoved
  <2> QED BY <1>18, <1>19, <2>1 DEF Linked
<1>21. TypeOK'
  <2>1. new_list' \in [IF pc' = "move" THEN 0..(new_length' - 1) ELSE {} -> Entry \cup {Nil}]
    BY <1>1, <1>8 DEF Ptr
  <2>2. next_hash' \in [Entry -> Entry \cup {Nil}] /\ h' \in Entry \cup {Nil} /\ count' \in Nat
    BY <1>1, <1>3, <1>6 DEF Ptr, IInv, TypeOK
  <2> QED BY <1>1, <2>1, <2>2 DEF IInv, TypeOK
<1>22. Ends'
  <2>1. \A c \in OldBuckets' : Acyclic(next_hash', list'[c])
    BY <1>1, <1>6, <1>12, <1>17
  <2>2. \A c \in DOMAIN new_list' : Acyclic(next_hash', new_list'[c])
    BY <1>6, <1>8, <1>15, <1>16
  <2>3. Acyclic(next_hash', h')
    BY <1>6, <1>11
  <2> QED BY <2>1, <2>2, <2>3 DEF Ends
<1>23. Home'
  <2>1. \A c \in OldBuckets' : \A e \in Chain(next_hash', list'[c]) : Hash(KeyOf(e)) % length' = c
    <3>1. \A c \in OldBuckets : \A e \in Chain(next_hash, list[c]) : Hash(KeyOf(e)) % length = c
      BY DEF IInv, Home
    <3>2. \A c \in OldBuckets : \A e \in Chain(links, list[c]) : Hash(KeyOf(e)) % length = c
      BY <1>12, <3>1
    <3> QED BY <1>1, <1>6, <1>17, <3>2
  <2>2. \A e \in Chain(next_hash', h') : Hash(KeyOf(e)) % length' = i'
    <3>1. \A e \in Chain(next_hash, h) : Hash(KeyOf(e)) % length = i
      BY DEF IInv, Home
    <3>2. \A e \in Chain(links, h') : Hash(KeyOf(e)) % length = i
      BY <1>10, <1>11, <3>1
    <3> QED BY <1>1, <1>6, <3>2
  <2>3. \A c \in DOMAIN new_list' : \A e \in Chain(next_hash', new_list'[c]) :
          Hash(KeyOf(e)) % new_length' = c
    <3>1. \A c \in DOMAIN new_list : \A e \in Chain(next_hash, new_list[c]) :
            Hash(KeyOf(e)) % new_length = c
      BY DEF IInv, Home
    <3>2. Hash(KeyOf(h)) % new_length = b
      BY DEF b
    <3>3. \A c \in DOMAIN new_list : \A e \in Chain(links, new_list'[c]) :
            Hash(KeyOf(e)) % new_length = c
      BY <1>15, <1>16, <3>1, <3>2
    <3> QED BY <1>1, <1>6, <1>8, <3>3
  <2> QED BY <2>1, <2>2, <2>3 DEF Home
<1>24. Apart'
  <2>1. Unmoved' \cap Moved' = {}
    BY <1>18, <1>19 DEF IInv, Apart
  <2> QED BY <1>20, <2>1 DEF IInv, Apart
<1>25. Counts'
  <2>1. Cardinality(Moved \cup {h}) = Cardinality(Moved) + 1
    BY <1>2, <1>13, FS_AddElement
  <2>2. elems = Cardinality(Linked) /\ count = Cardinality(Moved)
    BY DEF IInv, Counts
  <2> QED BY <1>1, <1>18, <1>20, <2>1, <2>2 DEF Counts
<1>26. Phase'
  BY <1>1 DEF IInv, Phase
<1> QED BY <1>20, <1>21, <1>22, <1>23, <1>24, <1>25, <1>26 DEF IInv

LEMMA NextBucketStep ==
  ASSUME IInv, NextBucket
  PROVE  IInv' /\ Linked' = Linked
<1>1. /\ pc = "move" /\ h = Nil /\ i + 1 < length /\ i' = i + 1 /\ h' = list[i + 1]
      /\ UNCHANGED <<length, elems, list, next_hash, ret, pc, new_length, new_list, count>>
  BY DEF NextBucket
<1>2. next_hash \in [Entry -> Ptr] /\ list \in [Buckets -> Ptr]
  BY Typed
<1>3. i \in Nat /\ length \in Nat /\ i + 1 \in OldBuckets /\ i + 1 \in Buckets
      /\ OldBuckets' = OldBuckets \ {i + 1}
  BY <1>1 DEF IInv, TypeOK, OldBuckets, Buckets
<1>4. Chain(next_hash, h) = {}
  BY <1>1, <1>2, ChainNil
<1>5. Unmoved' = Unmoved
  <2>1. Unmoved' = Chain(next_hash, list[i + 1]) \cup UNION {Chain(next_hash, list[c]) : c \in OldBuckets \ {i + 1}}
    BY <1>1, <1>3 DEF Unmoved
  <2>2. Unmoved = UNION {Chain(next_hash, list[c]) : c \in OldBuckets}
    BY <1>4 DEF Unmoved
  <2> QED BY <1>3, <2>1, <2>2
<1>6. Moved' = Moved /\ Linked' = Linked
  BY <1>1, <1>5 DEF Moved, Linked
<1>7. TypeOK'
  <2>1. i' \in 0..(length' - 1) /\ h' \in Entry \cup {Nil}
    BY <1>1, <1>2, <1>3 DEF Buckets, Ptr
  <2> QED BY <1>1, <2>1 DEF IInv, TypeOK
<1>8. Ends'
  BY <1>1, <1>3 DEF IInv, Ends
<1>9. Home'
  BY <1>1, <1>3 DEF IInv, Home
<1>10. Apart' /\ Counts'
  BY <1>1, <1>5, <1>6 DEF IInv, Apart, Counts
<1>11. Phase'
  BY <1>1 DEF IInv, Phase
<1> QED BY <1>6, <1>7, <1>8, <1>9, <1>10, <1>11 DEF IInv

\* Where _resize compares count with _elems, nothing is left to be moved.
LEMMA AllMoved ==
  ASSUME IInv, pc = "move", h = Nil, i + 1 = length
  PROVE  Unmoved = {} /\ Linked = Moved /\ elems = count
<1>1. OldBuckets = {}
  BY DEF OldBuckets, IInv, TypeOK
<1>2. Chain(next_hash, h) = {}
  BY Typed, ChainNil
<1>3. Unmoved = {}
  BY <1>1, <1>2 DEF Unmoved
<1>4. Linked = Moved
  BY <1>3 DEF Linked
<1> QED BY <1>3, <1>4 DEF IInv, Counts

LEMMA SwapStep ==
  ASSUME IInv, Swap
  PROVE  IInv' /\ Linked' = Linked
<1>1. /\ pc = "move" /\ h = Nil /\ i + 1 = length /\ elems = count
      /\ list' = new_list /\ length' = new_length /\ pc' = "idle"
      /\ new_length' = 0 /\ new_list' = NoList /\ i' = 0 /\ count' = 0
      /\ UNCHANGED <<elems, next_hash, ret, h>>
  BY DEF Swap
<1>2. Linked = Moved
  BY <1>1, AllMoved
<1>3. DOMAIN new_list = 0..(new_length - 1) /\ new_length \in Nat /\ new_length > 0 /\ new_length >= elems
      /\ new_list \in [0..(new_length - 1) -> Entry \cup {Nil}]
  BY <1>1 DEF IInv, TypeOK, Phase
<1>4. TypeOK'
  <2>1. list' \in [0..(length' - 1) -> Entry \cup {Nil}] /\ length' \in Nat \ {0} /\ i' \in 0..(length' - 1)
    BY <1>1, <1>3
  <2>2. new_list' \in [{} -> Entry \cup {Nil}]
    BY <1>1 DEF NoList
  <2>3. new_list' \in [IF pc' = "move" THEN 0..(new_length' - 1) ELSE {} -> Entry \cup {Nil}]
    BY <1>1, <2>2
  <2> QED BY <1>1, <2>1, <2>3 DEF IInv, TypeOK
<1>5. (TypeOK /\ pc # "move" /\ h = Nil)'
  BY <1>1, <1>4
<1>6. (/\ OldBuckets = Buckets /\ Moved = {} /\ DOMAIN new_list = {}
       /\ Linked = UNION {Chain(next_hash, list[c]) : c \in Buckets}
       /\ Chain(next_hash, h) = {})'
  BY <1>5, NotMovingPrime
<1>7. Buckets' = DOMAIN new_list
  BY <1>1, <1>3 DEF Buckets
<1>8. Linked' = Linked
  <2>1. Linked' = UNION {Chain(next_hash, new_list[c]) : c \in DOMAIN new_list}
    BY <1>1, <1>6, <1>7
  <2> QED BY <1>2, <2>1 DEF Moved
<1>9. Ends'
  <2>1. \A c \in Buckets' : Acyclic(next_hash', list'[c])
    BY <1>1, <1>7 DEF IInv, Ends
  <2>2. Acyclic(next_hash', h')
    BY <1>6 DEF Acyclic
  <2> QED BY <1>6, <2>1, <2>2 DEF Ends
<1>10. Home'
  <2>1. \A c \in Buckets' : \A e \in Chain(next_hash', list'[c]) : Hash(KeyOf(e)) % length' = c
    BY <1>1, <1>7 DEF IInv, Home
  <2> QED BY <1>6, <2>1 DEF Home
<1>11. Apart'
  BY <1>6, <1>8 DEF IInv, Apart
<1>12. Counts'
  <2>1. Cardinality(Moved') = 0
    BY <1>6, FS_EmptySet
  <2> QED BY <1>1, <1>8, <2>1 DEF IInv, Counts
<1>13. Phase'
  BY <1>1, <1>3 DEF Phase
<1> QED BY <1>4, <1>8, <1>9, <1>10, <1>11, <1>12, <1>13 DEF IInv

-----------------------------------------------------------------------------
(***************************************************************************)
(* Every step keeps the invariant.                                         *)
(***************************************************************************)

LEMMA InitIInv == Init => IInv /\ Linked = {}
<1> SUFFICES ASSUME Init PROVE IInv /\ Linked = {}
  OBVIOUS
<1>1. TypeOK
  BY DEF Init, TypeOK, MinLength, NoList
<1>2. pc # "move" /\ h = Nil
  BY DEF Init
<1>3. /\ OldBuckets = Buckets /\ Moved = {} /\ DOMAIN new_list = {}
      /\ Linked = UNION {Chain(next_hash, list[b]) : b \in Buckets}
      /\ Chain(next_hash, h) = {}
  BY <1>1, <1>2, NotMoving
<1>4. \A b \in Buckets : Chain(next_hash, list[b]) = {}
  <2>1. next_hash \in [Entry -> Ptr] /\ \A b \in Buckets : list[b] = Nil
    BY DEF Init, Buckets, Ptr
  <2> QED BY <2>1, ChainNil
<1>5. Linked = {}
  BY <1>3, <1>4
<1>6. Ends /\ Home
  BY <1>3, <1>4 DEF Ends, Home, Acyclic
<1>7. Apart
  BY <1>3, <1>5 DEF Apart
<1>8. Counts
  BY <1>3, <1>5, FS_EmptySet DEF Init, Counts
<1>9. Phase
  BY DEF Init, Phase, MinLength
<1> QED BY <1>1, <1>5, <1>6, <1>7, <1>8, <1>9 DEF IInv

\* What is looked up is the entry with the key, if the table has one.
LEMMA LookupStep ==
  ASSUME IInv, NEW k \in Key, Lookup(k)
  PROVE  /\ IInv'
         /\ ret' \in Ptr /\ Linked' = Linked
         /\ \A d \in Linked : KeyOf(d) = k => d = ret'
         /\ ret' # Nil => ret' \in Linked /\ KeyOf(ret') = k
<1>1. pc = "idle" /\ ret' = Deref(FindPointer(k))
      /\ UNCHANGED <<length, elems, list, next_hash, pc, new_length, new_list, i, h, count>>
  BY DEF Lookup, locals
<1>2. /\ ret' # Nil => ret' \in Linked /\ KeyOf(ret') = k
      /\ \A e \in Linked : KeyOf(e) = k => e = ret'
  BY <1>1, FindPointerFinds
<1>3. ret' \in Ptr
  BY <1>2, Typed DEF Ptr
<1>4. OldBuckets' = OldBuckets /\ Unmoved' = Unmoved /\ Moved' = Moved /\ Linked' = Linked
  BY <1>1 DEF OldBuckets, Unmoved, Moved, Linked
<1>5. TypeOK'
  BY <1>1, <1>3 DEF IInv, TypeOK, Ptr
<1>6. Ends' /\ Home' /\ Apart' /\ Counts' /\ Phase'
  BY <1>1, <1>4 DEF IInv, Ends, Home, Apart, Counts, Phase
<1> QED BY <1>2, <1>3, <1>4, <1>5, <1>6 DEF IInv

LEMMA StutterStep ==
  ASSUME IInv, UNCHANGED vars
  PROVE  IInv' /\ Linked' = Linked /\ ret' = ret
<1>1. UNCHANGED <<length, elems, list, next_hash, ret, pc, new_length, new_list, i, h, count>>
  BY DEF vars, locals
<1>2. OldBuckets' = OldBuckets /\ Unmoved' = Unmoved /\ Moved' = Moved /\ Linked' = Linked
  BY <1>1 DEF OldBuckets, Unmoved, Moved, Linked
<1>3. TypeOK' /\ Ends' /\ Home' /\ Apart' /\ Counts' /\ Phase'
  BY <1>1, <1>2 DEF IInv, TypeOK, Ends, Home, Apart, Counts, Phase
<1> QED BY <1>1, <1>2, <1>3 DEF IInv

LEMMA NextIInv == IInv /\ [Next]_vars => IInv'
<1> SUFFICES ASSUME IInv, [Next]_vars PROVE IInv'
  OBVIOUS
<1>1. ASSUME NEW k \in Key, Lookup(k) PROVE IInv'
  BY <1>1, LookupStep
<1>2. ASSUME NEW k \in Key, Remove(k) PROVE IInv'
  BY <1>2, RemoveStep
<1>3. ASSUME NEW e \in Entry, Insert(e) PROVE IInv'
  BY <1>3, InsertStep
<1>4. CASE Grow
  BY <1>4, GrowStep
<1>5. CASE Allocate
  BY <1>5, AllocateStep
<1>6. CASE MoveEntry
  BY <1>6, MoveEntryStep
<1>7. CASE NextBucket
  BY <1>7, NextBucketStep
<1>8. CASE Swap
  BY <1>8, SwapStep
<1>9. CASE UNCHANGED vars
  BY <1>9, StutterStep
<1> QED BY <1>1, <1>2, <1>3, <1>4, <1>5, <1>6, <1>7, <1>8, <1>9 DEF Next

LEMMA Invariance == Spec => []IInv
<1>1. Init => IInv
  BY InitIInv
<1> QED BY <1>1, NextIInv, PTL DEF Spec

\* Buckets, links and locals of the hash table keep their types.
THEOREM TypeCorrect == Spec => []TypeOK
<1>1. IInv => TypeOK
  BY DEF IInv
<1> QED BY <1>1, Invariance, PTL

\* _elems is the number of linked entries at all times and, between calls, at
\* most the number of buckets; _resize counts what it moves.
THEOREM ElemsCounted == Spec => []ElemsCountsLinked
<1>1. IInv => ElemsCountsLinked
  BY DEF IInv, Counts, Phase, ElemsCountsLinked
<1> QED BY <1>1, Invariance, PTL

\* An entry is in the bucket of its hash, old or new, and the only one with
\* its key.
THEOREM KeysPartitioned == Spec => []ChainsPartitionKeys
<1>1. IInv => ChainsPartitionKeys
  BY DEF IInv, Home, Apart, ChainsPartitionKeys
<1> QED BY <1>1, Invariance, PTL

\* When _resize compares its count with _elems they are equal: the abort at
\* its end is never reached.
ResizeMeetsAll == pc = "move" /\ h = Nil /\ i + 1 = length => elems = count

\* The check at the end of _resize never fails.
THEOREM ResizeCheckHolds == Spec => []ResizeMeetsAll
<1>1. IInv => ResizeMeetsAll
  BY AllMoved DEF ResizeMeetsAll
<1> QED BY <1>1, Invariance, PTL

\* The loop of _find_pointer ends in every chain, within as many turns as there
\* are entries, at the entry of the key or at the trailing slot.
WalksEnd == pc = "idle" => \A k \in Key : Stops(Deref(FindPointer(k)), k)

\* No chain is a cycle, whatever the history of inserts, removals and resizes.
THEOREM FindPointerEnds == Spec => []WalksEnd
<1>1. IInv => WalksEnd
  <2> SUFFICES ASSUME IInv, pc = "idle", NEW k \in Key
               PROVE  Stops(Deref(FindPointer(k)), k)
    BY DEF WalksEnd
  <2>1. TypeOK /\ OldBuckets = Buckets
    BY IdleFacts
  <2>2. Hash(k) % length \in Buckets
    BY <2>1, BucketOfKey
  <2>3. Acyclic(next_hash, list[Hash(k) % length])
    BY <2>1, <2>2 DEF IInv, Ends
  <2> QED BY <2>1, <2>3, FindPointerStops
<1> QED BY <1>1, Invariance, PTL

-----------------------------------------------------------------------------
(***************************************************************************)
(* The table implements KeyMap: calls are the operations of the map, and   *)
(* the loops of _resize leave it unchanged.                                *)
(***************************************************************************)

\* The map of a set of entries with different keys.
LEMMA EntryOfIs ==
  ASSUME NEW S \in SUBSET Entry, NEW m, m = EntryOf(S), NEW k \in Key, NEW r \in Ptr,
         \A e \in S : KeyOf(e) = k => e = r,
         r # Nil => r \in S /\ KeyOf(r) = k
  PROVE  m[k] = r
<1>1. m[k] = IF \E e \in S : KeyOf(e) = k THEN CHOOSE e \in S : KeyOf(e) = k ELSE Nil
  BY DEF EntryOf
<1>2. CASE \E e \in S : KeyOf(e) = k
  <2>1. (CHOOSE e \in S : KeyOf(e) = k) \in S /\ KeyOf(CHOOSE e \in S : KeyOf(e) = k) = k
    BY <1>2
  <2> QED BY <1>1, <1>2, <2>1
<1>3. CASE ~\E e \in S : KeyOf(e) = k
  BY <1>1, <1>3
<1> QED BY <1>2, <1>3

LEMMA EntryOfDomain ==
  ASSUME NEW S
  PROVE  EntryOf(S) = [k \in Key |-> EntryOf(S)[k]]
BY DEF EntryOf

\* The map after the entry with key k, if any, gave way to e or to none.
LEMMA MapChanges ==
  ASSUME NEW S \in SUBSET Entry, \A d, e \in S : KeyOf(d) = KeyOf(e) => d = e,
         NEW k \in Key, NEW r \in Ptr,
         \A e \in S : KeyOf(e) = k => e = r,
         r # Nil => r \in S /\ KeyOf(r) = k,
         NEW n \in Ptr, n # Nil => KeyOf(n) = k,
         NEW T, T = (S \ {r}) \cup ({n} \ {Nil})
  PROVE  /\ EntryOf(S)[k] = r
         /\ EntryOf(T) = [EntryOf(S) EXCEPT ![k] = n]
<1>0. T \in SUBSET Entry /\ Nil \notin Entry
  BY HandleTableAssumption DEF Ptr
<1>1. EntryOf(S)[k] = r
  BY EntryOfIs
<1>2. EntryOf(T)[k] = n
  <2>1. \A e \in T : KeyOf(e) = k => e = n
    OBVIOUS
  <2>2. n # Nil => n \in T /\ KeyOf(n) = k
    OBVIOUS
  <2> QED BY <1>0, <2>1, <2>2, EntryOfIs
<1>3. ASSUME NEW j \in Key, j # k PROVE EntryOf(T)[j] = EntryOf(S)[j]
  <2>1. \A e \in Entry : KeyOf(e) = j => (e \in T <=> e \in S)
    BY <1>3, HandleTableAssumption DEF Ptr
  <2>2. CASE \E e \in S : KeyOf(e) = j
    <3>1. PICK e \in S : KeyOf(e) = j
      BY <2>2
    <3>2. e \in Ptr /\ e # Nil /\ e \in Entry
      BY <1>0 DEF Ptr
    <3>3. EntryOf(S)[j] = e
      BY <3>1, <3>2, EntryOfIs
    <3>4. e \in T /\ \A d \in T : KeyOf(d) = j => d = e
      BY <1>0, <2>1, <3>1, <3>2
    <3>5. EntryOf(T)[j] = e
      BY <1>0, <3>1, <3>2, <3>4, EntryOfIs
    <3> QED BY <3>3, <3>5
  <2>3. CASE ~\E e \in S : KeyOf(e) = j
    <3>1. ~\E e \in T : KeyOf(e) = j
      BY <1>0, <2>1, <2>3
    <3>2. Nil \in Ptr
      BY DEF Ptr
    <3>3. EntryOf(S)[j] = Nil
      BY <2>3, <3>2, EntryOfIs
    <3>4. EntryOf(T)[j] = Nil
      BY <1>0, <3>1, <3>2, EntryOfIs
    <3> QED BY <3>3, <3>4
  <2> QED BY <2>2, <2>3
<1>4. PICK m, o : m = EntryOf(T) /\ o = EntryOf(S)
  OBVIOUS
<1>5. m = [j \in Key |-> m[j]] /\ o = [j \in Key |-> o[j]]
  BY <1>4, EntryOfDomain
<1>6. m[k] = n /\ \A j \in Key : j # k => m[j] = o[j]
  BY <1>2, <1>3, <1>4
<1>7. m = [o EXCEPT ![k] = n]
  BY <1>5, <1>6
<1> QED BY <1>1, <1>4, <1>7

LEMMA NextMaps == IInv /\ [Next]_vars => [Map!Next]_<<EntryOf(Linked), ret>>
<1> SUFFICES ASSUME IInv, [Next]_vars
             PROVE  Map!Next \/ UNCHANGED <<EntryOf(Linked), ret>>
  OBVIOUS
<1>0. Linked \in SUBSET Entry /\ (\A d, e \in Linked : KeyOf(d) = KeyOf(e) => d = e) /\ Nil \in Ptr
  BY Typed DEF IInv, Apart, Ptr
<1>1. ASSUME NEW k \in Key, Lookup(k) PROVE Map!Next
  <2>1. /\ ret' \in Ptr /\ Linked' = Linked
        /\ \A d \in Linked : KeyOf(d) = k => d = ret'
        /\ ret' # Nil => ret' \in Linked /\ KeyOf(ret') = k
    BY <1>1, LookupStep
  <2>2. EntryOf(Linked)[k] = ret'
    BY <1>0, <2>1, EntryOfIs
  <2>3. EntryOf(Linked)' = EntryOf(Linked)
    BY <2>1 DEF EntryOf
  <2>4. Map!Lookup(k)
    BY <2>2, <2>3 DEF Map!Lookup
  <2> QED BY <2>4 DEF Map!Next
<1>2. ASSUME NEW k \in Key, Remove(k) PROVE Map!Next
  <2>1. /\ ret' \in Ptr /\ Linked' = Linked \ {ret'}
        /\ \A d \in Linked : KeyOf(d) = k => d = ret'
        /\ ret' # Nil => ret' \in Linked /\ KeyOf(ret') = k
    BY <1>2, RemoveStep
  <2>2. PICK r \in Ptr, T \in {Linked'} : r = ret' /\ T = Linked'
    BY <2>1
  <2>3. T = (Linked \ {r}) \cup ({Nil} \ {Nil})
    BY <2>1, <2>2
  <2>4. EntryOf(Linked)[k] = r /\ EntryOf(T) = [EntryOf(Linked) EXCEPT ![k] = Nil]
    BY <1>0, <2>1, <2>2, <2>3, MapChanges
  <2>5. EntryOf(Linked)' = EntryOf(T)
    BY <2>2 DEF EntryOf
  <2>6. Map!Remove(k)
    BY <2>2, <2>4, <2>5 DEF Map!Remove
  <2> QED BY <2>6 DEF Map!Next
<1>3. ASSUME NEW e \in Entry, Insert(e) PROVE Map!Next
  <2>1. /\ ret' \in Ptr /\ Linked' = (Linked \ {ret'}) \cup {e}
        /\ \A d \in Linked : KeyOf(d) = KeyOf(e) => d = ret'
        /\ ret' # Nil => ret' \in Linked /\ KeyOf(ret') = KeyOf(e)
    BY <1>3, InsertStep
  <2>2. PICK r \in Ptr, T \in {Linked'} : r = ret' /\ T = Linked'
    BY <2>1
  <2>3. e \in Ptr /\ e # Nil /\ KeyOf(e) \in Key
    BY HandleTableAssumption DEF Ptr
  <2>4. T = (Linked \ {r}) \cup ({e} \ {Nil})
    BY <2>1, <2>2, <2>3
  <2>5. EntryOf(Linked)[KeyOf(e)] = r /\ EntryOf(T) = [EntryOf(Linked) EXCEPT ![KeyOf(e)] = e]
    BY <1>0, <2>1, <2>2, <2>3, <2>4, MapChanges
  <2>6. EntryOf(Linked)' = EntryOf(T)
    BY <2>2 DEF EntryOf
  <2>7. Map!Insert(e)
    BY <2>2, <2>5, <2>6 DEF Map!Insert
  <2> QED BY <2>7 DEF Map!Next
<1>4. CASE Grow \/ Allocate \/ MoveEntry \/ NextBucket \/ Swap
  <2>1. Linked' = Linked
    BY <1>4, GrowStep, AllocateStep, MoveEntryStep, NextBucketStep, SwapStep
  <2>2. ret' = ret
    BY <1>4 DEF Grow, Allocate, MoveEntry, NextBucket, Swap
  <2>3. EntryOf(Linked)' = EntryOf(Linked)
    BY <2>1 DEF EntryOf
  <2> QED BY <2>2, <2>3
<1>5. CASE UNCHANGED vars
  <2>1. Linked' = Linked /\ ret' = ret
    BY <1>5, StutterStep
  <2>2. EntryOf(Linked)' = EntryOf(Linked)
    BY <2>1 DEF EntryOf
  <2> QED BY <2>1, <2>2
<1> QED BY <1>1, <1>2, <1>3, <1>4, <1>5 DEF Next

\* The buckets and chains implement the map that LRUCache takes them for:
\* lookup, insert and remove return what the map held, and a resize changes no
\* key's entry.
THEOREM TableImplementsMap == Spec => ImplementsKeyMap
<1>1. Init => Map!Init
  <2> SUFFICES ASSUME Init PROVE Map!Init
    OBVIOUS
  <2>1. Linked = {} /\ ret = Nil
    BY InitIInv DEF Init
  <2>2. EntryOf(Linked) = [k \in Key |-> Nil]
    BY <2>1 DEF EntryOf
  <2> QED BY <2>1, <2>2 DEF Map!Init
<1> QED BY <1>1, NextMaps, Invariance, PTL DEF Spec, ImplementsKeyMap, Map!Spec

=============================================================================
