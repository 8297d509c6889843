------------------------ MODULE RuntimeProfileProofs ------------------------
(***************************************************************************)
(* Proofs about RuntimeProfile for any number of threads, profiles and     *)
(* counters, every tree of counter names and every set of calls.           *)
(***************************************************************************)
EXTENDS RuntimeProfile, FiniteSetTheorems, TLAPS

-----------------------------------------------------------------------------
(***************************************************************************)
(* The invariant                                                           *)
(***************************************************************************)

\* The counters of a profile.
Dom(p) == DOMAIN counter_map[p]

\* n, of the counters D, hangs under its parent in ch.
Hangs(D, ch, n) ==
    n \in Find(ch, ParentOf[n]) /\ ParentOf[n] \in D \cup {ROOT}

\* The links of ch lead from counters of D to counters of D.
LinksLead(D, ch) ==
    \A m \in DOMAIN ch :
      /\ \A n \in ch[m] : n \in D /\ ParentOf[n] = m
      /\ m \in D \cup {ROOT}

\* The counters D and the links ch are one tree.
IsTree(D, ch) == LinksLead(D, ch) /\ \A n \in D \ {TotalTime} : Hangs(D, ch, n)

Label == {"idle", "first", "second", "merge", "add", "store", "copy", "set",
          "children1", "children2", "children"}

Types ==
    /\ DOMAIN counter_map = Profile /\ DOMAIN child_counter_map = Profile
    /\ \A p \in Profile : Dom(p) \subseteq Name
    /\ updates \in [Profile -> [Name -> Nat]]
    /\ child \in [Profile -> Profile \cup {Nil}]
    /\ lock \in [Profile -> [LockKind -> Thread \cup {Nil}]]
    /\ pc \in [Thread -> Label]
    /\ call \in [Thread -> [op : Op \cup {Nil}, this : Profile \cup {Nil}, src : Profile \cup {Nil}]]
    /\ todo \in [Thread -> SUBSET Name]
    /\ cur \in [Thread -> [name : Name \cup {Nil}, value : Nat]]

\* The counters whose updates no call discards.
Kept(p, n) == p \notin CopyTargets /\ n \notin Double

\* They show all their updates; a counter that is not there has none.
ValuesAt(p) ==
    \A n \in Name :
      IF n \in Dom(p)
        THEN counter_map[p][n] \in Nat /\ (Kept(p, n) => counter_map[p][n] >= updates[p][n])
        ELSE updates[p][n] = 0
Values == \A p \in Profile : ValuesAt(p)

\* Only profiles at the top have children, and each its own.
Family ==
    /\ \A p \in Profile : child[p] # Nil => p \in Top /\ child[p] \notin Top
    /\ \A p, q \in Profile : child[p] # Nil /\ child[p] = child[q] => p = q

Merging(t) == pc[t] \in {"merge", "add", "store"}
Copying(t) == pc[t] \in {"copy", "set"}

\* Every profile but the one that merge is adding counters to is a tree.
Trees ==
    \A p \in Profile :
      \/ IsTree(Dom(p), child_counter_map[p])
      \/ \E t \in Thread : Merging(t) /\ This(t) = p

\* A profile that nobody removes while t is in its call.
Stays(t, x) == x \in Top \/ \E p \in Profile : child[p] = x /\ lock[p]["children"] = t

\* What t has of its call and its locks.
Holds(t) ==
    /\ pc[t] # "idle" =>
         /\ call[t].op \in Op
         /\ This(t) \in Profile /\ Src(t) \in Profile /\ This(t) # Src(t)
         /\ Stays(t, This(t)) /\ Stays(t, Src(t))
         /\ This(t) \in Top <=> Src(t) \in Top
    /\ pc[t] \in {"merge", "add", "store", "children1", "children2", "children"} => call[t].op = "merge"
    /\ Copying(t) => call[t].op = "copy_all_counters_from"
    /\ pc[t] = "second" => lock[First(call[t])]["counter"] = t
    /\ Merging(t) \/ Copying(t) =>
         lock[This(t)]["counter"] = t /\ lock[Src(t)]["counter"] = t
    /\ pc[t] \in {"children2", "children"} => lock[This(t)]["children"] = t
    /\ pc[t] = "children" => lock[Src(t)]["children"] = t

\* The counter t has loaded and may have to create, and those it has still to visit.
Loaded(t) == IF pc[t] \in {"add", "set"} THEN {cur[t].name} ELSE {}
Remaining(t) == todo[t] \cup Loaded(t)

\* merge between the counters of its two profiles D, of this, and E, of the source.
MergeState(t, D, ch, E) ==
    /\ Remaining(t) \subseteq E
    /\ E \subseteq Remaining(t) \cup D
    /\ LinksLead(D, ch)
    /\ \A n \in D \ {TotalTime} : n \in E \/ Hangs(D, ch, n)

\* copy_all_counters_from visits parents first.
CopyState(t, D, E) ==
    /\ Remaining(t) \subseteq E
    /\ \A n \in todo[t] : ParentOf[n] \in Remaining(t) \cup D \cup {ROOT}
    /\ \A n \in Loaded(t) : ParentOf[n] \in D \cup {ROOT}

Works(t) ==
    /\ Merging(t) => MergeState(t, Dom(This(t)), child_counter_map[This(t)], Dom(Src(t)))
    /\ Copying(t) => CopyState(t, Dom(This(t)), Dom(Src(t)))
    /\ pc[t] = "store" => cur[t].name \in Double /\ cur[t].name \in Dom(This(t))

IInv ==
    /\ Types /\ Values /\ Family /\ Trees
    /\ \A t \in Thread : Holds(t) /\ Works(t)

\* A copy in progress is one of the calls, and not one of a child.
Aims ==
    \A t \in Thread :
      pc[t] # "idle" /\ call[t].op = "copy_all_counters_from" => This(t) \in CopyTargets

-----------------------------------------------------------------------------
(***************************************************************************)
(* Trees of counters                                                       *)
(***************************************************************************)

\* A new profile: its TotalTime hangs under nothing.
LEMMA TreeInit == IsTree({TotalTime}, [n \in {} |-> {}])
BY DEF IsTree, LinksLead

\* add_child_counter of a counter whose parent is there.
LEMMA TreeAdd ==
  ASSUME NEW D, NEW ch, NEW n \in Name, IsTree(D, ch), ParentOf[n] \in D \cup {ROOT}
  PROVE  IsTree(D \cup {n}, Linked(ch, n))
<1> DEFINE E == D \cup {n}
           lh == Linked(ch, n)
           q == ParentOf[n]
<1>1. /\ DOMAIN lh = DOMAIN ch \cup {q}
      /\ lh[q] = Find(ch, q) \cup {n}
      /\ \A m \in DOMAIN ch : m # q => lh[m] = ch[m]
  BY DEF Linked, Put
<1> HIDE DEF lh
<1>2. LinksLead(E, lh)
  <2> SUFFICES ASSUME NEW m \in DOMAIN lh
               PROVE  (\A x \in lh[m] : x \in E /\ ParentOf[x] = m) /\ m \in E \cup {ROOT}
    BY DEF LinksLead
  <2>1. CASE m # q
    BY <1>1, <2>1 DEF IsTree, LinksLead
  <2>2. CASE m = q
    <3>1. \A x \in Find(ch, q) : x \in D /\ ParentOf[x] = q
      BY DEF IsTree, LinksLead, Find
    <3> QED BY <1>1, <2>2, <3>1
  <2> QED BY <2>1, <2>2
<1>3. ASSUME NEW x \in E \ {TotalTime} PROVE Hangs(E, lh, x)
  <2>1. CASE x = n
    BY <1>1, <2>1 DEF Hangs, Find
  <2>2. CASE x # n
    <3>1. x \in Find(ch, ParentOf[x]) /\ ParentOf[x] \in D \cup {ROOT}
      BY <2>2, <1>3 DEF IsTree, Hangs
    <3>2. x \in Find(lh, ParentOf[x])
      <4>1. CASE ParentOf[x] = q
        BY <1>1, <3>1, <4>1 DEF Find
      <4>2. CASE ParentOf[x] # q
        BY <1>1, <3>1, <4>2 DEF Find
      <4> QED BY <4>1, <4>2
    <3> QED BY <3>1, <3>2 DEF Hangs
  <2> QED BY <2>1, <2>2
<1> QED BY <1>2, <1>3 DEF IsTree, lh

\* The sets that hold what the links from them lead to, and the least of them.
Closed(ch, S) == \A m \in S : Find(ch, m) \subseteq S
IsBelow(ch, n, S) ==
    /\ S \in SUBSET (Name \cup {ROOT})
    /\ n \in S
    /\ Closed(ch, S)
    /\ \A R \in SUBSET S : n \in R /\ Closed(ch, R) => R = S

LEMMA BelowIs ==
  ASSUME NEW ch, NEW n \in Name \cup {ROOT}, \A m : Find(ch, m) \subseteq Name
  PROVE  IsBelow(ch, n, Below(ch, n))
<1> DEFINE U == Name \cup {ROOT}
           S == {x \in U : \A T \in SUBSET U : n \in T /\ Closed(ch, T) => x \in T}
<1>1. n \in S /\ S \in SUBSET U
  OBVIOUS
<1>2. Closed(ch, S)
  <2> SUFFICES ASSUME NEW m \in S, NEW x \in Find(ch, m),
                      NEW T \in SUBSET U, n \in T, Closed(ch, T)
               PROVE  x \in U /\ x \in T
    BY <1>1 DEF Closed
  <2>1. m \in T
    OBVIOUS
  <2> QED BY <2>1 DEF Closed
<1>3. ASSUME NEW R \in SUBSET S, n \in R, Closed(ch, R) PROVE R = S
  <2>1. R \in SUBSET U
    OBVIOUS
  <2> QED BY <1>3, <2>1
<1>4. IsBelow(ch, n, S)
  BY <1>1, <1>2, <1>3 DEF IsBelow
<1>5. Below(ch, n) = CHOOSE T : T \in SUBSET U /\ IsBelow(ch, n, T)
  BY DEF Below, IsBelow, Closed
<1> HIDE DEF S
<1> QED BY <1>4, <1>5 DEF IsBelow

\* Everything but n in the least set is led to from another member.
LEMMA BelowIsLedTo ==
  ASSUME NEW ch, NEW n, NEW S, IsBelow(ch, n, S), NEW x \in S, x # n
  PROVE  \E m \in S : x \in Find(ch, m)
<1> SUFFICES ASSUME \A m \in S : x \notin Find(ch, m) PROVE FALSE
  OBVIOUS
<1> DEFINE R == S \ {x}
<1>1. R \in SUBSET S /\ n \in R
  BY DEF IsBelow
<1>2. Closed(ch, R)
  BY DEF IsBelow, Closed
<1>3. R = S
  BY <1>1, <1>2 DEF IsBelow
<1> QED BY <1>3

LEMMA TreeFind ==
  ASSUME NEW D \in SUBSET Name, NEW ch, LinksLead(D, ch)
  PROVE  /\ \A m : Find(ch, m) \subseteq D /\ Find(ch, m) \subseteq Name
         /\ \A m : \A x \in Find(ch, m) : ParentOf[x] = m
BY DEF LinksLead, Find

\* remove_counter: what is left when a counter and all below it are gone.
LEMMA TreeRemove ==
  ASSUME NEW D \in SUBSET Name, NEW ch, IsTree(D, ch), NEW n \in D, NEW S, IsBelow(ch, n, S),
         NEW q, q = ParentOf[n]
  PROVE  IsTree(D \ S, Erase(Put(ch, q, Find(ch, q) \ {n}), S))
<1> DEFINE E == D \ S
           uh == Put(ch, q, Find(ch, q) \ {n})
           lh == Erase(uh, S)
<1>0. LinksLead(D, ch)
  BY DEF IsTree
<1>1. /\ DOMAIN uh = DOMAIN ch \cup {q}
      /\ uh[q] = Find(ch, q) \ {n}
      /\ \A m \in DOMAIN ch : m # q => uh[m] = ch[m]
  BY DEF Put
<1>2. \A m : Find(uh, m) = Find(ch, m) \ {n}
  <2> SUFFICES ASSUME NEW m PROVE Find(uh, m) = Find(ch, m) \ {n}
    OBVIOUS
  <2>1. CASE m = q
    BY <1>1, <2>1 DEF Find
  <2>2. CASE m # q
    <3>1. n \notin Find(ch, m)
      BY <1>0, <2>2, TreeFind
    <3> HIDE DEF uh
    <3> QED BY <1>1, <2>2, <3>1 DEF Find
  <2> QED BY <2>1, <2>2
<1>3. DOMAIN lh = DOMAIN uh \ S /\ \A m \in DOMAIN uh \ S : lh[m] = uh[m]
  BY DEF Erase
<1> HIDE DEF uh, lh
<1>4. \A m : m \notin S => Find(lh, m) = Find(ch, m) \ {n}
  BY <1>2, <1>3 DEF Find
<1>5. \A m : m \notin S => \A x \in Find(ch, m) \ {n} : x \notin S
  <2> SUFFICES ASSUME NEW m, m \notin S, NEW x \in Find(ch, m) \ {n}, x \in S PROVE FALSE
    OBVIOUS
  <2>1. PICK y \in S : x \in Find(ch, y)
    BY BelowIsLedTo
  <2>2. ParentOf[x] = m /\ ParentOf[x] = y
    BY <1>0, <2>1, TreeFind
  <2> QED BY <2>1, <2>2
<1>6. n \in S
  BY DEF IsBelow
<1>7. q \in D \cup {ROOT} \/ n = TotalTime
  BY DEF IsTree, Hangs
<1>8. LinksLead(E, lh)
  <2> SUFFICES ASSUME NEW m \in DOMAIN lh
               PROVE  (\A x \in lh[m] : x \in E /\ ParentOf[x] = m) /\ m \in E \cup {ROOT}
    BY DEF LinksLead
  <2>1. m \notin S /\ lh[m] = Find(ch, m) \ {n}
    BY <1>3, <1>4 DEF Find
  <2>2. \A x \in lh[m] : x \in E /\ ParentOf[x] = m
    BY <1>0, <1>5, <2>1, TreeFind
  <2>3. m \in D \cup {ROOT}
    <3>1. CASE m \in DOMAIN ch
      BY <1>0, <3>1 DEF LinksLead
    <3>2. CASE m = q
      BY <1>7, <3>2, ProfileAssumption
    <3> QED BY <1>1, <1>3, <3>1, <3>2
  <2> QED BY <2>1, <2>2, <2>3
<1>9. ASSUME NEW x \in E \ {TotalTime} PROVE Hangs(E, lh, x)
  <2>1. x \in Find(ch, ParentOf[x]) /\ ParentOf[x] \in D \cup {ROOT} /\ x # n
    BY <1>6, <1>9 DEF IsTree, Hangs
  <2>2. ParentOf[x] \notin S
    BY <1>9, <2>1 DEF IsBelow, Closed
  <2>3. x \in Find(lh, ParentOf[x])
    BY <1>4, <2>1, <2>2
  <2> QED BY <2>1, <2>2, <2>3 DEF Hangs
<1> QED BY <1>8, <1>9 DEF IsTree, lh, uh

\* Names with their parents as far as they are counters of D, and the least such
\* set.
Upward(D, S) == \A x \in S \cap D : ParentOf[x] \in S \cup {ROOT}

LEMMA AncestorsAre ==
  ASSUME NEW m, NEW n \in Name
  PROVE  n \in Ancestors(m, n) /\ Upward(DOMAIN m, Ancestors(m, n))
<1> DEFINE D == DOMAIN m
           IsAnc(S) == /\ n \in S
                       /\ Upward(D, S)
                       /\ \A R \in SUBSET S : n \in R /\ Upward(D, R) => R = S
           S0 == {x \in Name : \A T \in SUBSET Name : n \in T /\ Upward(D, T) => x \in T}
<1>1. n \in S0 /\ S0 \in SUBSET Name
  OBVIOUS
<1>2. Upward(D, S0)
  <2> SUFFICES ASSUME NEW x \in S0 \cap D, ParentOf[x] # ROOT PROVE ParentOf[x] \in S0
    BY DEF Upward
  <2>1. ParentOf[x] \in Name
    BY ProfileAssumption
  <2>2. ASSUME NEW T \in SUBSET Name, n \in T, Upward(D, T) PROVE ParentOf[x] \in T
    <3>1. x \in T \cap D
      BY <2>2
    <3> QED BY <2>2, <3>1 DEF Upward
  <2> QED BY <2>1, <2>2
<1>3. ASSUME NEW R \in SUBSET S0, n \in R, Upward(D, R) PROVE R = S0
  <2>1. R \in SUBSET Name
    OBVIOUS
  <2> QED BY <1>3, <2>1
<1>4. IsAnc(S0)
  BY <1>1, <1>2, <1>3
<1>5. Ancestors(m, n) = CHOOSE S : S \in SUBSET Name /\ IsAnc(S)
  BY DEF Ancestors, Upward
<1> HIDE DEF S0
<1>6. IsAnc(Ancestors(m, n))
  <2> HIDE DEF IsAnc
  <2> QED BY <1>1, <1>4, <1>5
<1> QED BY <1>6

\* remove_counters: what is left when the counters outside a set that goes up to
\* the root are gone.
LEMMA TreeKeep ==
  ASSUME NEW D \in SUBSET Name, NEW ch, IsTree(D, ch), NEW S, ROOT \in S, Upward(D, S),
         NEW left, left = [m \in DOMAIN ch |-> ch[m] \cap S],
         NEW bare, bare = {m \in DOMAIN left \ {ROOT} : left[m] = {}}
  PROVE  IsTree(D \ (Name \ S), Erase(left, bare))
<1> DEFINE E == D \ (Name \ S)
           lh == Erase(left, bare)
<1>0. LinksLead(D, ch) /\ E = D \cap S
  BY DEF IsTree
<1>1. /\ DOMAIN lh = {m \in DOMAIN ch : m = ROOT \/ ch[m] \cap S # {}}
      /\ \A m \in DOMAIN lh : lh[m] = ch[m] \cap S
  BY DEF Erase
<1> HIDE DEF lh
<1>2. \A m : Find(lh, m) = Find(ch, m) \cap S
  BY <1>1 DEF Find
<1>3. LinksLead(E, lh)
  <2> SUFFICES ASSUME NEW m \in DOMAIN lh
               PROVE  (\A x \in lh[m] : x \in E /\ ParentOf[x] = m) /\ m \in E \cup {ROOT}
    BY DEF LinksLead
  <2>1. \A x \in lh[m] : x \in E /\ ParentOf[x] = m
    BY <1>0, <1>1 DEF LinksLead
  <2>2. CASE m = ROOT
    BY <2>1, <2>2
  <2>3. CASE m # ROOT
    <3>1. PICK x : x \in ch[m] \cap S
      BY <1>1, <2>3
    <3>2. x \in D /\ ParentOf[x] = m /\ m \in D
      BY <1>0, <1>1, <2>3, <3>1 DEF LinksLead
    <3>3. m \in S
      BY <3>1, <3>2 DEF Upward
    <3> QED BY <1>0, <2>1, <3>2, <3>3
  <2> QED BY <2>2, <2>3
<1>4. ASSUME NEW x \in E \ {TotalTime} PROVE Hangs(E, lh, x)
  <2>1. x \in Find(ch, ParentOf[x]) /\ ParentOf[x] \in D \cup {ROOT} /\ x \in S /\ x \in D
    BY <1>0, <1>4 DEF IsTree, Hangs
  <2>2. ParentOf[x] \in S
    BY <2>1 DEF Upward
  <2> QED BY <1>0, <1>2, <2>1, <2>2 DEF Hangs
<1> QED BY <1>3, <1>4 DEF IsTree, lh

\* merge, when it has added the counters of the source and then its links.
LEMMA TreeMerge ==
  ASSUME NEW D, NEW ours, NEW E, NEW theirs, E \subseteq D, LinksLead(D, ours), IsTree(E, theirs),
         \A n \in D \ {TotalTime} : n \in E \/ Hangs(D, ours, n),
         NEW lh, lh = [m \in DOMAIN ours \cup DOMAIN theirs |-> Find(ours, m) \cup Find(theirs, m)]
  PROVE  IsTree(D, lh)
<1>1. \A m : Find(lh, m) = Find(ours, m) \cup Find(theirs, m)
  BY DEF Find
<1>2. DOMAIN lh = DOMAIN ours \cup DOMAIN theirs
      /\ \A m \in DOMAIN lh : lh[m] = Find(ours, m) \cup Find(theirs, m)
  OBVIOUS
<1>3. LinksLead(D, lh)
  <2> SUFFICES ASSUME NEW m \in DOMAIN lh
               PROVE  (\A x \in lh[m] : x \in D /\ ParentOf[x] = m) /\ m \in D \cup {ROOT}
    BY DEF LinksLead
  <2>1. \A x \in Find(ours, m) : x \in D /\ ParentOf[x] = m
    BY DEF LinksLead, Find
  <2>2. \A x \in Find(theirs, m) : x \in D /\ ParentOf[x] = m
    BY DEF IsTree, LinksLead, Find
  <2>3. m \in D \cup {ROOT}
    BY <1>2 DEF IsTree, LinksLead
  <2> QED BY <1>2, <2>1, <2>2, <2>3
<1>4. ASSUME NEW x \in D \ {TotalTime} PROVE Hangs(D, lh, x)
  <2>1. CASE x \in E
    BY <1>1, <1>4, <2>1 DEF IsTree, Hangs
  <2>2. CASE x \notin E
    BY <1>1, <1>4, <2>2 DEF Hangs
  <2> QED BY <2>1, <2>2
<1> QED BY <1>3, <1>4 DEF IsTree

-----------------------------------------------------------------------------
(***************************************************************************)
(* What a step leaves alone                                                *)
(***************************************************************************)

\* There is always a profile left for a new child.
LEMMA NewProfileIsNew ==
  ASSUME IInv, NEW p \in Top, child[p] = Nil
  PROVE  NewProfile \in Profile \ Top /\ \A q \in Profile : child[q] # NewProfile
<1> DEFINE T == Top \ {p}
           R == {child[q] : q \in T}
<1>1. IsFiniteSet(Profile) /\ Top \in SUBSET Profile /\ IsFiniteSet(Top) /\ IsFiniteSet(Profile \ Top)
  BY RoomForChildren, FS_Subset DEF Top
<1>2. IsFiniteSet(T) /\ Cardinality(T) = Cardinality(Top) - 1 /\ Cardinality(Top) \in Nat
  BY <1>1, FS_RemoveElement, FS_CardinalityType
<1>3. IsFiniteSet(R) /\ Cardinality(R) <= Cardinality(T)
  <2> DEFINE f == [q \in T |-> child[q]]
  <2>1. f \in Surjection(T, R)
    BY DEF Surjection
  <2> QED BY <1>2, <2>1, FS_Surjection
<1>4. Cardinality(R) \in Nat /\ Cardinality(Profile \ Top) \in Nat
  BY <1>1, <1>3, FS_CardinalityType
<1>5. ~((Profile \ Top) \subseteq R)
  <2> SUFFICES ASSUME (Profile \ Top) \subseteq R PROVE FALSE
    OBVIOUS
  <2>1. Cardinality(Profile \ Top) <= Cardinality(R)
    BY <1>3, FS_Subset
  <2> QED BY <1>2, <1>3, <1>4, <2>1, RoomForChildren
<1>6. PICK c \in Profile \ Top : c \notin R
  BY <1>5
<1>7. \A q \in Profile : child[q] # c
  <2> SUFFICES ASSUME NEW q \in Profile, child[q] = c PROVE FALSE
    OBVIOUS
  <2>1. c # Nil
    BY ProfileAssumption
  <2>2. q \in Top
    BY <2>1 DEF IInv, Family
  <2>3. q # p
    BY <2>1
  <2> QED BY <1>6, <2>2, <2>3
<1>8. \E d \in Profile : (\A q \in Profile : child[q] # d) /\ d \notin Top
  BY <1>6, <1>7
<1> QED BY <1>8 DEF NewProfile

SameThread(t) ==
    pc'[t] = pc[t] /\ call'[t] = call[t] /\ todo'[t] = todo[t] /\ cur'[t] = cur[t]
LocksKept(t) == \A p \in Profile : \A k \in LockKind : lock[p][k] = t => lock'[p][k] = t
ChildrenKept(t) == \A p \in Profile : lock[p]["children"] = t => child'[p] = child[p]
SameCounters(p) == Dom(p)' = Dom(p) /\ child_counter_map'[p] = child_counter_map[p]
CountersKept(t) ==
    Merging(t) \/ Copying(t) => SameCounters(This(t)) /\ SameCounters(Src(t))

\* A thread keeps what it knows while others take steps.
LEMMA OtherKeeps ==
  ASSUME IInv, NEW t \in Thread, SameThread(t), LocksKept(t), ChildrenKept(t), CountersKept(t)
  PROVE  Holds(t)' /\ Works(t)'
<1>0. Holds(t) /\ Works(t) /\ "counter" \in LockKind /\ "children" \in LockKind
  BY DEF IInv, LockKind
<1>1. This(t)' = This(t) /\ Src(t)' = Src(t) /\ First(call[t])' = First(call[t])
  BY DEF SameThread, This, Src, First
<1>2. (Merging(t)' <=> Merging(t)) /\ (Copying(t)' <=> Copying(t))
      /\ Loaded(t)' = Loaded(t) /\ Remaining(t)' = Remaining(t)
  BY DEF SameThread, Merging, Copying, Loaded, Remaining
<1>4. ASSUME pc[t] # "idle" PROVE First(call[t]) \in Profile /\ This(t) \in Profile /\ Src(t) \in Profile
  BY <1>0, <1>4 DEF Holds, First, This, Src
<1>5. Holds(t)'
  <2>1. (pc[t] # "idle")' =>
          /\ call'[t].op \in Op
          /\ This(t)' \in Profile /\ Src(t)' \in Profile /\ This(t)' # Src(t)'
          /\ Stays(t, This(t))' /\ Stays(t, Src(t))'
          /\ This(t)' \in Top <=> Src(t)' \in Top
    <3> SUFFICES ASSUME pc[t] # "idle"
                 PROVE  /\ call[t].op \in Op
                        /\ This(t) \in Profile /\ Src(t) \in Profile /\ This(t) # Src(t)
                        /\ Stays(t, This(t))' /\ Stays(t, Src(t))'
                        /\ This(t) \in Top <=> Src(t) \in Top
      BY <1>1 DEF SameThread
    <3>1. /\ call[t].op \in Op
          /\ This(t) \in Profile /\ Src(t) \in Profile /\ This(t) # Src(t)
          /\ Stays(t, This(t)) /\ Stays(t, Src(t))
          /\ This(t) \in Top <=> Src(t) \in Top
      BY <1>0 DEF Holds
    <3>2. Stays(t, This(t))' /\ Stays(t, Src(t))'
      BY <1>0, <1>1, <3>1 DEF Stays, LocksKept, ChildrenKept
    <3> QED BY <3>1, <3>2
  <2>2. (pc[t] = "second" => lock[First(call[t])]["counter"] = t)'
    BY <1>0, <1>1, <1>4 DEF Holds, SameThread, LocksKept
  <2>3. (Merging(t) \/ Copying(t))' => lock'[This(t)']["counter"] = t /\ lock'[Src(t)']["counter"] = t
    <3>1. Merging(t) \/ Copying(t) => pc[t] # "idle"
      BY DEF Merging, Copying
    <3> QED BY <1>0, <1>1, <1>2, <1>4, <3>1 DEF Holds, LocksKept
  <2>4. /\ (pc[t] \in {"children2", "children"} => lock[This(t)]["children"] = t)'
        /\ (pc[t] = "children" => lock[Src(t)]["children"] = t)'
    BY <1>0, <1>1, <1>4 DEF Holds, SameThread, LocksKept
  <2>5. /\ (pc[t] \in {"merge", "add", "store", "children1", "children2", "children"} => call[t].op = "merge")'
        /\ (Copying(t) => call[t].op = "copy_all_counters_from")'
    BY <1>0, <1>2 DEF Holds, SameThread
  <2> QED BY <2>1, <2>2, <2>3, <2>4, <2>5 DEF Holds
<1>6. Works(t)'
  <2>1. ASSUME Merging(t)
        PROVE  MergeState(t, Dom(This(t)), child_counter_map[This(t)], Dom(Src(t)))'
    <3>1. Dom(This(t))' = Dom(This(t)) /\ Dom(Src(t))' = Dom(Src(t))
          /\ child_counter_map'[This(t)] = child_counter_map[This(t)]
      BY <1>1, <2>1 DEF CountersKept, SameCounters, Dom
    <3> QED BY <1>0, <1>1, <1>2, <2>1, <3>1 DEF Works, MergeState
  <2>2. ASSUME Copying(t)
        PROVE  CopyState(t, Dom(This(t)), Dom(Src(t)))'
    <3>1. Dom(This(t))' = Dom(This(t)) /\ Dom(Src(t))' = Dom(Src(t))
      BY <1>1, <2>2 DEF CountersKept, SameCounters, Dom
    <3> QED BY <1>0, <1>2, <2>2, <3>1 DEF Works, CopyState, SameThread
  <2>3. (pc[t] = "store" => cur[t].name \in Double /\ cur[t].name \in Dom(This(t)))'
    <3> SUFFICES ASSUME pc[t] = "store"
                 PROVE  cur[t].name \in Double /\ cur[t].name \in Dom(This(t))'
      BY <1>1 DEF SameThread, Dom
    <3>1. Dom(This(t))' = Dom(This(t))
      BY <1>1 DEF CountersKept, SameCounters, Dom, Merging
    <3> QED BY <1>0, <3>1 DEF Works
  <2> QED BY <1>2, <2>1, <2>2, <2>3 DEF Works
<1> QED BY <1>5, <1>6

\* A tree stays one, or becomes the work of a merge, and a merge that ends leaves one.
LEMMA TreesKept ==
  ASSUME Trees,
         \A p \in Profile : SameCounters(p) \/ IsTree(Dom(p), child_counter_map[p])'
                            \/ \E t \in Thread : Merging(t)' /\ This(t)' = p,
         \A t \in Thread : Merging(t) =>
            \/ Merging(t)' /\ This(t)' = This(t)
            \/ (IsTree(Dom(This(t)), child_counter_map[This(t)]))'
               /\ This(t)' = This(t)
  PROVE  Trees'
<1> SUFFICES ASSUME NEW p \in Profile
             PROVE  \/ IsTree(Dom(p), child_counter_map[p])'
                    \/ \E t \in Thread : Merging(t)' /\ This(t)' = p
  BY DEF Trees
<1>1. CASE SameCounters(p)
  <2>1. CASE IsTree(Dom(p), child_counter_map[p])
    BY <1>1, <2>1 DEF SameCounters
  <2>2. CASE \E t \in Thread : Merging(t) /\ This(t) = p
    <3>1. PICK t \in Thread : Merging(t) /\ This(t) = p
      BY <2>2
    <3> QED BY <3>1
  <2> QED BY <2>1, <2>2 DEF Trees
<1> QED BY <1>1

\* A profile that no merge works on is a tree.
LEMMA TreeOf ==
  ASSUME IInv, NEW p \in Profile,
         \A t \in Thread : Merging(t) => lock[p]["counter"] # t \/ This(t) # p
  PROVE  IsTree(Dom(p), child_counter_map[p])
<1>1. ASSUME NEW t \in Thread, Merging(t), This(t) = p PROVE FALSE
  BY <1>1 DEF IInv, Holds
<1> QED BY <1>1 DEF IInv, Trees

LEMMA FreeIsTree ==
  ASSUME IInv, NEW p \in Profile, lock[p]["counter"] = Nil
  PROVE  IsTree(Dom(p), child_counter_map[p])
<1>1. \A t \in Thread : lock[p]["counter"] # t
  BY ProfileAssumption
<1> QED BY <1>1, TreeOf

\* A profile whose counter lock is not t's is not one t works on.
LEMMA NotItsOwn ==
  ASSUME IInv, NEW p \in Profile, NEW t \in Thread, lock[p]["counter"] # t,
         \A q \in Profile : q # p => SameCounters(q)
  PROVE  CountersKept(t)
<1> SUFFICES ASSUME Merging(t) \/ Copying(t)
             PROVE  SameCounters(This(t)) /\ SameCounters(Src(t))
  BY DEF CountersKept
<1>1. /\ This(t) \in Profile /\ Src(t) \in Profile
      /\ lock[This(t)]["counter"] = t /\ lock[Src(t)]["counter"] = t
  BY DEF IInv, Holds, Merging, Copying
<1> QED BY <1>1

\* Operations of an owner on the counters of one profile.
LEMMA OwnerStep ==
  ASSUME IInv, NEW p \in Profile, Types',
         UNCHANGED <<child, lock, pc, call, todo, cur>>,
         \A q \in Profile : q # p =>
           /\ counter_map'[q] = counter_map[q] /\ updates'[q] = updates[q]
           /\ child_counter_map'[q] = child_counter_map[q],
         ValuesAt(p)',
         SameCounters(p) \/ (lock[p]["counter"] = Nil /\ IsTree(Dom(p), child_counter_map[p])')
  PROVE  IInv'
<1>1. \A q \in Profile : q # p => SameCounters(q)
  BY DEF SameCounters, Dom
<1>2. Values'
  BY DEF IInv, Values, ValuesAt, Kept, Dom
<1>3. Family'
  BY DEF IInv, Family
<1>4. \A t \in Thread : (Merging(t)' <=> Merging(t)) /\ This(t)' = This(t)
  BY DEF Merging, This
<1>5. Trees'
  BY <1>1, <1>4, TreesKept DEF IInv
<1>6. ASSUME NEW t \in Thread PROVE Holds(t)' /\ Works(t)'
  <2>1. SameThread(t) /\ LocksKept(t) /\ ChildrenKept(t)
    BY DEF SameThread, LocksKept, ChildrenKept
  <2>2. CountersKept(t)
    <3>1. CASE SameCounters(p)
      <4>1. Merging(t) \/ Copying(t) => This(t) \in Profile /\ Src(t) \in Profile
        BY DEF IInv, Holds, Merging, Copying
      <4> QED BY <1>1, <3>1, <4>1 DEF CountersKept
    <3>2. CASE lock[p]["counter"] = Nil
      <4>1. lock[p]["counter"] # t
        BY <3>2, ProfileAssumption
      <4> QED BY <1>1, <4>1, NotItsOwn
    <3> QED BY <3>1, <3>2
  <2> QED BY <2>1, <2>2, OtherKeeps
<1> QED BY <1>2, <1>3, <1>5, <1>6 DEF IInv

LEMMA AddCounterIInv ==
  ASSUME IInv, NEW p \in Profile, NEW n \in Name, AddCounter(p, n) PROVE IInv'
<1>0. /\ lock[p]["counter"] = Nil /\ n \notin Dom(p) /\ ParentOf[n] \in Dom(p) \cup {ROOT}
      /\ counter_map' = [counter_map EXCEPT ![p] = Put(@, n, 0)]
      /\ child_counter_map' = [child_counter_map EXCEPT ![p] = Linked(@, n)]
      /\ UNCHANGED <<child, lock, updates, pc, call, todo, cur>>
  BY DEF AddCounter, threadVars, Dom
<1>1. /\ counter_map'[p] = Put(counter_map[p], n, 0)
      /\ child_counter_map'[p] = Linked(child_counter_map[p], n)
      /\ DOMAIN counter_map' = Profile /\ DOMAIN child_counter_map' = Profile
      /\ \A q \in Profile : q # p =>
           /\ counter_map'[q] = counter_map[q] /\ updates'[q] = updates[q]
           /\ child_counter_map'[q] = child_counter_map[q]
  BY <1>0 DEF IInv, Types
<1>2. /\ Dom(p)' = Dom(p) \cup {n} /\ counter_map'[p][n] = 0
      /\ \A x \in Dom(p) : x # n => counter_map'[p][x] = counter_map[p][x]
  BY <1>1 DEF Dom, Put
<1>3. Types'
  <2>1. \A q \in Profile : Dom(q)' \subseteq Name
    BY <1>1, <1>2 DEF IInv, Types, Dom
  <2> QED BY <1>0, <1>1, <2>1 DEF IInv, Types
<1>4. ValuesAt(p)'
  BY <1>0, <1>2 DEF IInv, Values, ValuesAt, Kept
<1>5. IsTree(Dom(p), child_counter_map[p])'
  BY <1>0, <1>1, <1>2, FreeIsTree, TreeAdd
<1> QED BY <1>0, <1>1, <1>3, <1>4, <1>5, OwnerStep

LEMMA UpdateIInv ==
  ASSUME IInv, NEW p \in Profile, NEW n \in Name, Update(p, n) PROVE IInv'
<1>0. /\ n \in Dom(p)
      /\ counter_map' = [counter_map EXCEPT ![p][n] = @ + 1]
      /\ updates' = [updates EXCEPT ![p][n] = @ + 1]
      /\ UNCHANGED <<child_counter_map, child, lock, pc, call, todo, cur>>
  BY DEF Update, threadVars, Dom
<1>1. /\ counter_map'[p] = [counter_map[p] EXCEPT ![n] = counter_map[p][n] + 1]
      /\ updates'[p] = [updates[p] EXCEPT ![n] = updates[p][n] + 1]
      /\ DOMAIN counter_map' = Profile /\ DOMAIN updates' = Profile
      /\ \A q \in Profile : q # p => counter_map'[q] = counter_map[q] /\ updates'[q] = updates[q]
  <2>1. DOMAIN counter_map = Profile /\ DOMAIN updates = Profile
    BY DEF IInv, Types
  <2> QED BY <1>0, <2>1
<1>2. /\ Dom(p)' = Dom(p)
      /\ \A x \in Dom(p) : counter_map'[p][x] = IF x = n THEN counter_map[p][n] + 1 ELSE counter_map[p][x]
      /\ \A x \in Name : updates'[p][x] = IF x = n THEN updates[p][n] + 1 ELSE updates[p][x]
  <2>1. updates[p] \in [Name -> Nat]
    BY DEF IInv, Types
  <2> QED BY <1>0, <1>1, <2>1 DEF Dom
<1>3. Types'
  <2>1. \A q \in Profile : Dom(q)' \subseteq Name
    BY <1>1, <1>2 DEF IInv, Types, Dom
  <2>2. updates' \in [Profile -> [Name -> Nat]]
    <3>1. updates[p] \in [Name -> Nat] /\ updates[p][n] + 1 \in Nat
      BY DEF IInv, Types
    <3>2. updates'[p] \in [Name -> Nat]
      BY <1>1, <3>1
    <3>3. \A q \in Profile : updates'[q] \in [Name -> Nat]
      BY <1>1, <3>2 DEF IInv, Types
    <3>4. updates' = [q \in Profile |-> updates'[q]]
      BY <1>0 DEF IInv, Types
    <3> QED BY <3>3, <3>4
  <2> QED BY <1>0, <1>1, <2>1, <2>2 DEF IInv, Types
<1>4. ValuesAt(p)'
  <2>1. ValuesAt(p) /\ updates[p] \in [Name -> Nat]
    BY DEF IInv, Values, Types
  <2> QED BY <1>0, <1>2, <2>1 DEF ValuesAt, Kept
<1>5. SameCounters(p)
  BY <1>0, <1>2 DEF SameCounters
<1> QED BY <1>0, <1>1, <1>3, <1>4, <1>5, OwnerStep

\* Counters that are removed lose their values.
LEMMA ForgetInv ==
  ASSUME IInv, NEW p \in Profile, NEW gone, Forget(p, gone),
         UNCHANGED <<child, lock, pc, call, todo, cur>>,
         DOMAIN child_counter_map' = Profile
  PROVE  /\ Types' /\ ValuesAt(p)' /\ Dom(p)' = Dom(p) \ gone
         /\ \A q \in Profile : q # p => counter_map'[q] = counter_map[q] /\ updates'[q] = updates[q]
<1>0. DOMAIN counter_map = Profile /\ DOMAIN updates = Profile
  BY DEF IInv, Types
<1>1. /\ counter_map'[p] = Erase(counter_map[p], gone)
      /\ updates'[p] = [n \in Name |-> IF n \in gone THEN 0 ELSE updates[p][n]]
      /\ DOMAIN counter_map' = Profile
      /\ \A q \in Profile : q # p => counter_map'[q] = counter_map[q] /\ updates'[q] = updates[q]
  BY <1>0 DEF Forget
<1>2. /\ Dom(p)' = Dom(p) \ gone
      /\ \A x \in Dom(p) \ gone : counter_map'[p][x] = counter_map[p][x]
  BY <1>1 DEF Dom, Erase
<1>3. updates' \in [Profile -> [Name -> Nat]]
  <2>1. updates'[p] \in [Name -> Nat]
    BY <1>1 DEF IInv, Types
  <2>2. \A q \in Profile : updates'[q] \in [Name -> Nat]
    BY <1>1, <2>1 DEF IInv, Types
  <2>3. updates' = [q \in Profile |-> updates'[q]]
    BY <1>0 DEF Forget
  <2> QED BY <2>2, <2>3
<1>4. \A q \in Profile : Dom(q)' \subseteq Name
  BY <1>1, <1>2 DEF IInv, Types, Dom
<1>5. Types'
  BY <1>1, <1>3, <1>4 DEF IInv, Types
<1>6. ValuesAt(p)'
  <2> SUFFICES ASSUME NEW n \in Name
               PROVE  IF n \in Dom(p)'
                        THEN /\ counter_map'[p][n] \in Nat
                             /\ Kept(p, n) => counter_map'[p][n] >= updates'[p][n]
                        ELSE updates'[p][n] = 0
    BY DEF ValuesAt, Kept
  <2>1. ValuesAt(p)
    BY DEF IInv, Values
  <2>2. updates'[p][n] = IF n \in gone THEN 0 ELSE updates[p][n]
    BY <1>1
  <2> QED BY <1>2, <2>1, <2>2 DEF ValuesAt
<1> QED BY <1>1, <1>2, <1>5, <1>6

LEMMA RemoveCounterIInv ==
  ASSUME IInv, NEW p \in Profile, NEW n \in Name, RemoveCounter(p, n) PROVE IInv'
<1> DEFINE ch == child_counter_map[p]
           gone == Below(ch, n)
           lh == Erase(Put(ch, ParentOf[n], Find(ch, ParentOf[n]) \ {n}), gone)
<1>0. /\ lock[p]["counter"] = Nil /\ n \in Dom(p)
      /\ Forget(p, gone)
      /\ child_counter_map' = [child_counter_map EXCEPT ![p] = lh]
      /\ UNCHANGED <<child, lock, pc, call, todo, cur>>
  BY DEF RemoveCounter, threadVars, Dom
<1>1. IsTree(Dom(p), ch) /\ Dom(p) \in SUBSET Name
  BY <1>0, FreeIsTree DEF IInv, Types
<1>2. IsBelow(ch, n, gone)
  <2>1. \A m : Find(ch, m) \subseteq Name
    BY <1>1, TreeFind DEF IsTree
  <2> QED BY <2>1, BelowIs
<1> HIDE DEF gone
<1>3. IsTree(Dom(p) \ gone, lh)
  BY <1>0, <1>1, <1>2, TreeRemove
<1> HIDE DEF lh
<1>4. /\ DOMAIN child_counter_map' = Profile /\ child_counter_map'[p] = lh
      /\ \A q \in Profile : q # p => child_counter_map'[q] = child_counter_map[q]
  BY <1>0 DEF IInv, Types
<1>5. /\ Types' /\ ValuesAt(p)' /\ Dom(p)' = Dom(p) \ gone
      /\ \A q \in Profile : q # p => counter_map'[q] = counter_map[q] /\ updates'[q] = updates[q]
  BY <1>0, <1>4, ForgetInv
<1>6. IsTree(Dom(p), child_counter_map[p])'
  BY <1>3, <1>4, <1>5
<1> QED BY <1>0, <1>4, <1>5, <1>6, OwnerStep

LEMMA RemoveCountersIInv ==
  ASSUME IInv, NEW p \in Profile, NEW saved_names \in SUBSET Name, RemoveCounters(p, saved_names)
  PROVE  IInv'
<1> DEFINE ch == child_counter_map[p]
           saved == {ROOT} \cup UNION {Ancestors(counter_map[p], n) : n \in saved_names}
           left == [m \in DOMAIN ch |-> ch[m] \cap saved]
           bare == {m \in DOMAIN left \ {ROOT} : left[m] = {}}
           lh == Erase(left, bare)
<1>0. /\ lock[p]["counter"] = Nil
      /\ Forget(p, Name \ saved)
      /\ child_counter_map' = [child_counter_map EXCEPT ![p] = lh]
      /\ UNCHANGED <<child, lock, pc, call, todo, cur>>
  BY DEF RemoveCounters, threadVars
<1>1. IsTree(Dom(p), ch) /\ Dom(p) \in SUBSET Name
  BY <1>0, FreeIsTree DEF IInv, Types
<1>2. ROOT \in saved /\ Upward(Dom(p), saved)
  <2> SUFFICES ASSUME NEW x \in saved \cap Dom(p) PROVE ParentOf[x] \in saved \cup {ROOT}
    BY DEF Upward
  <2>1. x # ROOT
    BY <1>1, ProfileAssumption
  <2>2. PICK n \in saved_names : x \in Ancestors(counter_map[p], n)
    BY <2>1
  <2>3. ParentOf[x] \in Ancestors(counter_map[p], n) \cup {ROOT}
    BY <2>2, AncestorsAre DEF Upward, Dom
  <2> QED BY <2>3
<1> HIDE DEF saved
<1>3. IsTree(Dom(p) \ (Name \ saved), lh)
  <2>1. left = [m \in DOMAIN ch |-> ch[m] \cap saved]
    OBVIOUS
  <2>2. bare = {m \in DOMAIN left \ {ROOT} : left[m] = {}}
    OBVIOUS
  <2> HIDE DEF left, bare, ch
  <2> QED BY <1>1, <1>2, <2>1, <2>2, TreeKeep
<1> HIDE DEF lh
<1>4. /\ DOMAIN child_counter_map' = Profile /\ child_counter_map'[p] = lh
      /\ \A q \in Profile : q # p => child_counter_map'[q] = child_counter_map[q]
  BY <1>0 DEF IInv, Types
<1>5. /\ Types' /\ ValuesAt(p)' /\ Dom(p)' = Dom(p) \ (Name \ saved)
      /\ \A q \in Profile : q # p => counter_map'[q] = counter_map[q] /\ updates'[q] = updates[q]
  BY <1>0, <1>4, ForgetInv
<1>6. IsTree(Dom(p), child_counter_map[p])'
  BY <1>3, <1>4, <1>5
<1> QED BY <1>0, <1>4, <1>5, <1>6, OwnerStep

LEMMA CreateChildIInv ==
  ASSUME IInv, NEW p \in Profile, CreateChild(p) PROVE IInv'
<1>0. /\ lock[p]["children"] = Nil /\ p \in Top /\ child[p] = Nil
      /\ child' = [child EXCEPT ![p] = NewProfile]
      /\ UNCHANGED <<counter_map, child_counter_map, updates, lock, pc, call, todo, cur>>
  BY DEF CreateChild, counterVars, threadVars
<1>1. NewProfile \in Profile \ Top /\ \A q \in Profile : child[q] # NewProfile
  BY <1>0, NewProfileIsNew
<1>2. child' \in [Profile -> Profile \cup {Nil}] /\ child'[p] = NewProfile
      /\ \A q \in Profile : q # p => child'[q] = child[q]
  BY <1>0, <1>1 DEF IInv, Types
<1>3. Types' /\ Values'
  BY <1>0, <1>2 DEF IInv, Types, Values, ValuesAt, Kept, Dom
<1>4. Family'
  BY <1>0, <1>1, <1>2 DEF IInv, Family
<1>5. \A q \in Profile : SameCounters(q)
  BY <1>0 DEF SameCounters, Dom
<1>6. Trees'
  <2>1. \A t \in Thread : (Merging(t)' <=> Merging(t)) /\ This(t)' = This(t)
    BY <1>0 DEF Merging, This
  <2> QED BY <1>5, <2>1, TreesKept DEF IInv
<1>7. ASSUME NEW t \in Thread PROVE Holds(t)' /\ Works(t)'
  <2>1. SameThread(t) /\ LocksKept(t)
    BY <1>0 DEF SameThread, LocksKept
  <2>2. ChildrenKept(t)
    BY <1>0, <1>2, ProfileAssumption DEF ChildrenKept
  <2>3. CountersKept(t)
    BY <1>5 DEF CountersKept, IInv, Holds, Merging, Copying
  <2> QED BY <2>1, <2>2, <2>3, OtherKeeps
<1> QED BY <1>3, <1>4, <1>6, <1>7 DEF IInv

\* The child that is removed is not one that a merge is working on: the merge
\* would hold the children lock.
LEMMA RemoveChildsIInv ==
  ASSUME IInv, NEW p \in Profile, RemoveChilds(p) PROVE IInv'
<1> DEFINE none == [n \in {} |-> {}]
<1>10. PICK c \in Profile : c = child[p]
  BY ProfileAssumption DEF RemoveChilds, IInv, Types
<1>0. /\ lock[p]["children"] = Nil /\ c # Nil
      /\ child' = [child EXCEPT ![p] = Nil]
      /\ counter_map' = [counter_map EXCEPT ![c] = [n \in {TotalTime} |-> 0]]
      /\ child_counter_map' = [child_counter_map EXCEPT ![c] = none]
      /\ updates' = [updates EXCEPT ![c] = [n \in Name |-> 0]]
      /\ UNCHANGED <<lock, pc, call, todo, cur>>
  BY <1>10 DEF RemoveChilds, threadVars
<1>1. c \notin Top /\ \A q \in Profile : child[q] = c => q = p
  BY <1>10, <1>0 DEF IInv, Family
<1>2. child' \in [Profile -> Profile \cup {Nil}] /\ child'[p] = Nil
      /\ \A q \in Profile : q # p => child'[q] = child[q]
  BY <1>0 DEF IInv, Types
<1>3. /\ counter_map'[c] = [n \in {TotalTime} |-> 0] /\ DOMAIN counter_map' = Profile
      /\ child_counter_map'[c] = none /\ DOMAIN child_counter_map' = Profile
      /\ updates'[c] = [n \in Name |-> 0]
      /\ \A q \in Profile : q # c => /\ counter_map'[q] = counter_map[q] /\ updates'[q] = updates[q]
                                     /\ child_counter_map'[q] = child_counter_map[q]
  <2>1. DOMAIN counter_map = Profile /\ DOMAIN child_counter_map = Profile /\ DOMAIN updates = Profile
    BY DEF IInv, Types
  <2> HIDE DEF none
  <2> QED BY <1>0, <2>1
<1> HIDE DEF none
<1>4. Dom(c)' = {TotalTime} /\ counter_map'[c][TotalTime] = 0 /\ TotalTime \in Name
  BY <1>3, ProfileAssumption DEF Dom
<1>5. Types'
  <2>1. \A q \in Profile : Dom(q)' \subseteq Name
    BY <1>3, <1>4 DEF IInv, Types, Dom
  <2>2. updates' \in [Profile -> [Name -> Nat]]
    <3>1. [n \in Name |-> 0] \in [Name -> Nat]
      OBVIOUS
    <3> QED BY <1>0, <1>1, <3>1 DEF IInv, Types
  <2> QED BY <1>0, <1>2, <1>3, <2>1, <2>2 DEF IInv, Types
<1>6. Values'
  <2>1. ValuesAt(c)'
    BY <1>3, <1>4 DEF ValuesAt, Kept
  <2>2. ASSUME NEW q \in Profile, q # c PROVE ValuesAt(q)'
    BY <1>3, <2>2 DEF IInv, Values, ValuesAt, Kept, Dom
  <2> QED BY <2>1, <2>2 DEF Values
<1>7. Family'
  BY <1>2 DEF IInv, Family
<1>8. \A q \in Profile : q # c => SameCounters(q)
  BY <1>3 DEF SameCounters, Dom
<1>9. Trees'
  <2>1. \A t \in Thread : (Merging(t)' <=> Merging(t)) /\ This(t)' = This(t)
    BY <1>0 DEF Merging, This
  <2>2. IsTree(Dom(c)', child_counter_map'[c])
    BY <1>3, <1>4, TreeInit DEF none
  <2>3. \A q \in Profile : SameCounters(q) \/ IsTree(Dom(q), child_counter_map[q])'
    <3> SUFFICES ASSUME NEW q \in Profile, q = c PROVE IsTree(Dom(q), child_counter_map[q])'
      BY <1>8
    <3> QED BY <2>2 DEF Dom
  <2> QED BY <2>1, <2>3, TreesKept DEF IInv
<1>11. ASSUME NEW t \in Thread PROVE Holds(t)' /\ Works(t)'
  <2>1. SameThread(t) /\ LocksKept(t)
    BY <1>0 DEF SameThread, LocksKept
  <2>2. lock[p]["children"] # t
    BY <1>0, ProfileAssumption
  <2>3. ChildrenKept(t)
    BY <1>2, <2>2 DEF ChildrenKept
  <2>4. CountersKept(t)
    <3> SUFFICES ASSUME Merging(t) \/ Copying(t)
                 PROVE  SameCounters(This(t)) /\ SameCounters(Src(t))
      BY DEF CountersKept
    <3>1. /\ This(t) \in Profile /\ Src(t) \in Profile
          /\ Stays(t, This(t)) /\ Stays(t, Src(t))
      BY DEF IInv, Holds, Merging, Copying
    <3>2. This(t) # c /\ Src(t) # c
      BY <1>1, <2>2, <3>1 DEF Stays
    <3> QED BY <1>8, <3>1, <3>2
  <2> QED BY <2>1, <2>3, <2>4, OtherKeeps
<1> QED BY <1>5, <1>6, <1>7, <1>9, <1>11 DEF IInv

-----------------------------------------------------------------------------
(***************************************************************************)
(* The steps of merge and copy_all_counters_from                           *)
(***************************************************************************)

\* What a thread at its step has to show.
LEMMA ThreadStep ==
  ASSUME IInv, NEW t \in Thread, Types', Values', Family', Trees', Holds(t)', Works(t)',
         \A s \in Thread : s # t =>
           SameThread(s) /\ LocksKept(s) /\ ChildrenKept(s) /\ CountersKept(s)
  PROVE  IInv'
<1>1. ASSUME NEW s \in Thread PROVE Holds(s)' /\ Works(s)'
  <2>1. CASE s # t
    BY <2>1, OtherKeeps
  <2> QED BY <2>1
<1> QED BY <1>1 DEF IInv

\* A step that leaves the counters and the children of all profiles alone.
LEMMA QuietStep ==
  ASSUME IInv, NEW t \in Thread, UNCHANGED <<counterVars, child>>,
         lock' \in [Profile -> [LockKind -> Thread \cup {Nil}]],
         pc' \in [Thread -> Label],
         call' \in [Thread -> [op : Op \cup {Nil}, this : Profile \cup {Nil}, src : Profile \cup {Nil}]],
         todo' \in [Thread -> SUBSET Name],
         cur' \in [Thread -> [name : Name \cup {Nil}, value : Nat]],
         Merging(t) => Merging(t)' /\ This(t)' = This(t),
         Holds(t)', Works(t)',
         \A s \in Thread : s # t => SameThread(s) /\ LocksKept(s)
  PROVE  IInv'
<1>0. UNCHANGED <<counter_map, child_counter_map, updates, child>>
  BY DEF counterVars
<1>1. \A p \in Profile : SameCounters(p)
  BY <1>0 DEF SameCounters, Dom
<1>2. Types'
  BY <1>0 DEF IInv, Types, Dom
<1>3. Values' /\ Family'
  BY <1>0 DEF IInv, Values, ValuesAt, Kept, Dom, Family
<1>4. Trees'
  <2>1. \A s \in Thread : Merging(s) => Merging(s)' /\ This(s)' = This(s)
    BY DEF SameThread, Merging, This
  <2> QED BY <1>1, <2>1, TreesKept DEF IInv
<1>5. ASSUME NEW s \in Thread, s # t PROVE ChildrenKept(s) /\ CountersKept(s)
  <2>1. ChildrenKept(s)
    BY <1>0 DEF ChildrenKept
  <2>2. Merging(s) \/ Copying(s) => This(s) \in Profile /\ Src(s) \in Profile
    BY DEF IInv, Holds, Merging, Copying
  <2> QED BY <1>1, <2>1, <2>2 DEF CountersKept
<1> QED BY <1>2, <1>3, <1>4, <1>5, ThreadStep

LEMMA GotoIs ==
  ASSUME IInv, NEW t \in Thread, NEW label \in Label, Goto(t, label)
  PROVE  /\ pc' \in [Thread -> Label] /\ pc'[t] = label
         /\ \A s \in Thread : s # t => pc'[s] = pc[s]
BY DEF IInv, Types, Goto

\* A lock that is free is taken.
LEMMA TakeIs ==
  ASSUME IInv, NEW t \in Thread, NEW p \in Profile, NEW k \in LockKind, Take(t, p, k)
  PROVE  /\ lock' \in [Profile -> [LockKind -> Thread \cup {Nil}]]
         /\ lock[p][k] = Nil /\ lock'[p][k] = t
         /\ \A s \in Thread : LocksKept(s)
<1>0. lock[p][k] = Nil /\ lock' = [lock EXCEPT ![p][k] = t]
  BY DEF Take
<1>1. lock \in [Profile -> [LockKind -> Thread \cup {Nil}]]
  BY DEF IInv, Types
<1>2. lock'[p] = [lock[p] EXCEPT ![k] = t] /\ \A q \in Profile : q # p => lock'[q] = lock[q]
  BY <1>0, <1>1
<1>3. lock'[p][k] = t /\ \A j \in LockKind : j # k => lock'[p][j] = lock[p][j]
  BY <1>1, <1>2
<1>4. lock' \in [Profile -> [LockKind -> Thread \cup {Nil}]]
  <2>1. lock'[p] \in [LockKind -> Thread \cup {Nil}]
    BY <1>1, <1>2
  <2>2. lock' = [lock EXCEPT ![p] = lock'[p]]
    BY <1>0, <1>1, <1>2
  <2> QED BY <1>1, <2>1, <2>2
<1>5. ASSUME NEW s \in Thread PROVE LocksKept(s)
  <2> SUFFICES ASSUME NEW q \in Profile, NEW j \in LockKind, lock[q][j] = s PROVE lock'[q][j] = s
    BY DEF LocksKept
  <2>1. ~(q = p /\ j = k)
    BY <1>0, ProfileAssumption
  <2> QED BY <1>2, <1>3, <2>1
<1> QED BY <1>0, <1>3, <1>4, <1>5

\* The locks of others stay when t releases its own.
LEMMA EndCallIs ==
  ASSUME IInv, NEW t \in Thread, EndCall(t)
  PROVE  /\ lock' \in [Profile -> [LockKind -> Thread \cup {Nil}]]
         /\ pc' \in [Thread -> Label] /\ pc'[t] = "idle"
         /\ call' \in [Thread -> [op : Op \cup {Nil}, this : Profile \cup {Nil}, src : Profile \cup {Nil}]]
         /\ \A s \in Thread : s # t => pc'[s] = pc[s] /\ call'[s] = call[s] /\ LocksKept(s)
<1>1. pc' \in [Thread -> Label] /\ pc'[t] = "idle" /\ \A s \in Thread : s # t => pc'[s] = pc[s]
  BY GotoIs DEF EndCall, Label
<1>2. /\ call' \in [Thread -> [op : Op \cup {Nil}, this : Profile \cup {Nil}, src : Profile \cup {Nil}]]
      /\ \A s \in Thread : s # t => call'[s] = call[s]
  <2>1. NoCall \in [op : Op \cup {Nil}, this : Profile \cup {Nil}, src : Profile \cup {Nil}]
    BY DEF NoCall
  <2> QED BY <2>1 DEF EndCall, IInv, Types
<1>3. lock' \in [Profile -> [LockKind -> Thread \cup {Nil}]]
  <2>1. \A p \in Profile : \A k \in LockKind : lock[p][k] \in Thread \cup {Nil}
    BY DEF IInv, Types
  <2> QED BY <2>1 DEF EndCall
<1>4. \A s \in Thread : s # t => LocksKept(s)
  BY DEF EndCall, LocksKept
<1> QED BY <1>1, <1>2, <1>3, <1>4

\* A thread that is in no call.
LEMMA IdleHolds ==
  ASSUME NEW t \in Thread, pc'[t] = "idle" PROVE Holds(t)' /\ Works(t)'
<1>1. ~Merging(t)' /\ ~Copying(t)'
  BY DEF Merging, Copying
<1>2. Holds(t)'
  BY <1>1 DEF Holds
<1>3. Works(t)'
  BY <1>1 DEF Works
<1> QED BY <1>2, <1>3

LEMMA MergeEndsIInv ==
  ASSUME IInv, NEW t \in Thread, MergeEnds(t) PROVE IInv'
<1>0. pc[t] = "children" /\ EndCall(t) /\ UNCHANGED <<counterVars, child, todo, cur>>
  BY DEF MergeEnds
<1>1. ~Merging(t)
  BY <1>0 DEF Merging
<1>2. pc'[t] = "idle" /\ Holds(t)' /\ Works(t)'
  BY <1>0, EndCallIs, IdleHolds
<1>3. \A s \in Thread : s # t => SameThread(s) /\ LocksKept(s)
  BY <1>0, EndCallIs DEF SameThread
<1>4. todo' \in [Thread -> SUBSET Name] /\ cur' \in [Thread -> [name : Name \cup {Nil}, value : Nat]]
  BY <1>0 DEF IInv, Types
<1> QED BY <1>0, <1>1, <1>2, <1>3, <1>4, EndCallIs, QuietStep

LEMMA CopyEndsIInv ==
  ASSUME IInv, NEW t \in Thread, CopyEnds(t) PROVE IInv'
<1>0. /\ pc[t] = "copy" /\ EndCall(t) /\ UNCHANGED <<counterVars, child, todo>>
      /\ cur' = [cur EXCEPT ![t] = NoCounter]
  BY DEF CopyEnds
<1>1. ~Merging(t)
  BY <1>0 DEF Merging
<1>2. pc'[t] = "idle" /\ Holds(t)' /\ Works(t)'
  BY <1>0, EndCallIs, IdleHolds
<1>3. /\ todo' \in [Thread -> SUBSET Name]
      /\ cur' \in [Thread -> [name : Name \cup {Nil}, value : Nat]]
      /\ \A s \in Thread : s # t => todo'[s] = todo[s] /\ cur'[s] = cur[s]
  <2>1. NoCounter \in [name : Name \cup {Nil}, value : Nat]
    BY DEF NoCounter
  <2> QED BY <1>0, <2>1 DEF IInv, Types
<1>4. \A s \in Thread : s # t => SameThread(s) /\ LocksKept(s)
  BY <1>0, <1>3, EndCallIs DEF SameThread
<1> QED BY <1>0, <1>1, <1>2, <1>3, <1>4, EndCallIs, QuietStep

LEMMA BeginCallIInv ==
  ASSUME IInv, NEW t \in Thread, NEW c \in Calls, BeginCall(t, c) PROVE IInv'
<1>0. /\ pc[t] = "idle" /\ Goto(t, "first") /\ call' = [call EXCEPT ![t] = c]
      /\ UNCHANGED <<counterVars, child, lock, todo, cur>>
  BY DEF BeginCall
<1>1. /\ pc' \in [Thread -> Label] /\ pc'[t] = "first"
      /\ \A s \in Thread : s # t => pc'[s] = pc[s]
  BY <1>0, GotoIs DEF Label
<1>2. c.op \in Op /\ c.this \in Profile /\ c.src \in Profile /\ c.this # c.src
      /\ c.this \in Top /\ c.src \in Top
  BY ProfileAssumption DEF Top
<1>3. /\ call' \in [Thread -> [op : Op \cup {Nil}, this : Profile \cup {Nil}, src : Profile \cup {Nil}]]
      /\ call'[t] = c /\ \A s \in Thread : s # t => call'[s] = call[s]
  <2>1. c \in [op : Op \cup {Nil}, this : Profile \cup {Nil}, src : Profile \cup {Nil}]
    BY ProfileAssumption
  <2> QED BY <1>0, <2>1 DEF IInv, Types
<1>4. ~Merging(t) /\ ~Merging(t)' /\ ~Copying(t)' /\ This(t)' = c.this /\ Src(t)' = c.src
  BY <1>0, <1>1, <1>3 DEF Merging, Copying, This, Src
<1>5. Stays(t, This(t))' /\ Stays(t, Src(t))'
  BY <1>2, <1>4 DEF Stays
<1>6. Holds(t)'
  BY <1>1, <1>2, <1>3, <1>4, <1>5 DEF Holds
<1>7. Works(t)'
  BY <1>1, <1>4 DEF Works
<1>8. /\ lock' \in [Profile -> [LockKind -> Thread \cup {Nil}]]
      /\ todo' \in [Thread -> SUBSET Name]
      /\ cur' \in [Thread -> [name : Name \cup {Nil}, value : Nat]]
  BY <1>0 DEF IInv, Types
<1>9. \A s \in Thread : s # t => SameThread(s) /\ LocksKept(s)
  BY <1>0, <1>1, <1>3 DEF SameThread, LocksKept
<1> QED BY <1>0, <1>1, <1>3, <1>4, <1>6, <1>7, <1>8, <1>9, QuietStep

\* What a call in progress keeps while its thread takes locks.
Called(t) ==
    /\ call[t].op \in Op
    /\ This(t) \in Profile /\ Src(t) \in Profile /\ This(t) # Src(t)
    /\ Stays(t, This(t)) /\ Stays(t, Src(t))
    /\ This(t) \in Top <=> Src(t) \in Top

LEMMA CalledKept ==
  ASSUME IInv, NEW t \in Thread, pc[t] # "idle", call'[t] = call[t], child' = child, LocksKept(t)
  PROVE  Called(t) /\ Called(t)' /\ This(t)' = This(t) /\ Src(t)' = Src(t)
<1>1. Called(t)
  BY DEF IInv, Holds, Called
<1>2. This(t)' = This(t) /\ Src(t)' = Src(t)
  BY DEF This, Src
<1>3. Stays(t, This(t))' /\ Stays(t, Src(t))'
  BY <1>1, <1>2 DEF Called, Stays, LocksKept, LockKind
<1> QED BY <1>1, <1>2, <1>3 DEF Called

LEMMA LockFirstIInv ==
  ASSUME IInv, NEW t \in Thread, LockFirst(t) PROVE IInv'
<1>0. /\ pc[t] = "first" /\ Take(t, First(call[t]), "counter") /\ Goto(t, "second")
      /\ UNCHANGED <<counterVars, child, call, todo, cur>>
  BY DEF LockFirst
<1>1. Called(t)
  BY <1>0 DEF IInv, Holds, Called
<1>2. First(call[t]) \in Profile /\ "counter" \in LockKind /\ "second" \in Label
  BY <1>1 DEF Called, First, This, Src, LockKind, Label
<1>3. /\ pc' \in [Thread -> Label] /\ pc'[t] = "second"
      /\ \A s \in Thread : s # t => pc'[s] = pc[s]
  BY <1>0, <1>2, GotoIs
<1>4. /\ lock' \in [Profile -> [LockKind -> Thread \cup {Nil}]]
      /\ lock'[First(call[t])]["counter"] = t
      /\ \A s \in Thread : LocksKept(s)
  BY <1>0, <1>2, TakeIs
<1>5. Called(t)' /\ This(t)' = This(t)
  BY <1>0, <1>4, CalledKept
<1>6. ~Merging(t) /\ ~Merging(t)' /\ ~Copying(t)' /\ First(call[t])' = First(call[t])
  BY <1>0, <1>3 DEF Merging, Copying, First
<1>7. Holds(t)'
  BY <1>3, <1>4, <1>5, <1>6 DEF Holds, Called
<1>8. Works(t)'
  BY <1>3, <1>6 DEF Works
<1>9. /\ call' \in [Thread -> [op : Op \cup {Nil}, this : Profile \cup {Nil}, src : Profile \cup {Nil}]]
      /\ todo' \in [Thread -> SUBSET Name]
      /\ cur' \in [Thread -> [name : Name \cup {Nil}, value : Nat]]
  BY <1>0 DEF IInv, Types
<1>10. \A s \in Thread : s # t => SameThread(s) /\ LocksKept(s)
  BY <1>0, <1>3, <1>4 DEF SameThread
<1> QED BY <1>0, <1>3, <1>4, <1>6, <1>7, <1>8, <1>9, <1>10, QuietStep

LEMMA LockChildrenIInv ==
  ASSUME IInv, NEW t \in Thread, LockChildren(t) PROVE IInv'
<1>0. /\ \/ pc[t] = "children1" /\ Take(t, This(t), "children") /\ Goto(t, "children2")
         \/ pc[t] = "children2" /\ Take(t, Src(t), "children") /\ Goto(t, "children")
      /\ UNCHANGED <<counterVars, child, call, todo, cur>>
  BY DEF LockChildren
<1>1. Called(t) /\ call[t].op = "merge"
  BY <1>0 DEF IInv, Holds, Called
<1>2. This(t) \in Profile /\ Src(t) \in Profile /\ "children" \in LockKind
      /\ "children2" \in Label /\ "children" \in Label
  BY <1>1 DEF Called, LockKind, Label
<1>3. lock' \in [Profile -> [LockKind -> Thread \cup {Nil}]] /\ \A s \in Thread : LocksKept(s)
  BY <1>0, <1>2, TakeIs
<1>4. pc' \in [Thread -> Label] /\ \A s \in Thread : s # t => pc'[s] = pc[s]
  BY <1>0, <1>2, GotoIs
<1>5. Called(t)' /\ This(t)' = This(t) /\ Src(t)' = Src(t)
  BY <1>0, <1>3, CalledKept
<1>6. /\ pc'[t] \in {"children2", "children"} /\ lock'[This(t)]["children"] = t
      /\ pc'[t] = "children" => lock'[Src(t)]["children"] = t
  <2>1. CASE pc[t] = "children1"
    BY <1>0, <1>2, <2>1, TakeIs, GotoIs
  <2>2. CASE pc[t] = "children2"
    <3>1. lock[This(t)]["children"] = t
      BY <2>2 DEF IInv, Holds
    <3>2. lock'[This(t)]["children"] = t
      BY <1>2, <1>3, <3>1 DEF LocksKept
    <3> QED BY <1>0, <1>2, <2>2, <3>2, TakeIs, GotoIs
  <2> QED BY <1>0, <2>1, <2>2
<1>7. ~Merging(t) /\ ~Merging(t)' /\ ~Copying(t)' /\ pc'[t] \notin {"second", "store"}
  BY <1>0, <1>6 DEF Merging, Copying
<1>8. Holds(t)'
  BY <1>0, <1>1, <1>5, <1>6, <1>7 DEF Holds, Called
<1>9. Works(t)'
  BY <1>7 DEF Works
<1>10. /\ call' \in [Thread -> [op : Op \cup {Nil}, this : Profile \cup {Nil}, src : Profile \cup {Nil}]]
       /\ todo' \in [Thread -> SUBSET Name]
       /\ cur' \in [Thread -> [name : Name \cup {Nil}, value : Nat]]
  BY <1>0 DEF IInv, Types
<1>11. \A s \in Thread : s # t => SameThread(s) /\ LocksKept(s)
  BY <1>0, <1>3, <1>4 DEF SameThread
<1> QED BY <1>0, <1>3, <1>4, <1>7, <1>8, <1>9, <1>10, <1>11, QuietStep

\* The copy is led to counters of the source, and to a parent with each of them.
LEMMA CopyVisits ==
  ASSUME NEW D \in SUBSET Name, NEW ch, IsTree(D, ch), NEW V, V = Below(ch, ROOT) \ {ROOT}
  PROVE  V \subseteq D /\ \A x \in V : ParentOf[x] \in V \cup {ROOT}
<1>0. LinksLead(D, ch)
  BY DEF IsTree
<1>1. \A m : Find(ch, m) \subseteq Name
  BY <1>0, TreeFind
<1>2. IsBelow(ch, ROOT, Below(ch, ROOT))
  BY <1>1, BelowIs
<1> SUFFICES ASSUME NEW x \in V PROVE x \in D /\ ParentOf[x] \in V \cup {ROOT}
  OBVIOUS
<1>3. PICK m \in Below(ch, ROOT) : x \in Find(ch, m)
  BY <1>2, BelowIsLedTo
<1> QED BY <1>0, <1>3, TreeFind

LEMMA LockSecondIInv ==
  ASSUME IInv, NEW t \in Thread, LockSecond(t) PROVE IInv'
<1>0. /\ pc[t] = "second" /\ Take(t, Second(call[t]), "counter")
      /\ UNCHANGED <<counterVars, child, call, cur>>
  BY DEF LockSecond
<1>1. Called(t) /\ lock[First(call[t])]["counter"] = t
  BY <1>0 DEF IInv, Holds, Called
<1>2. /\ This(t) \in Profile /\ Src(t) \in Profile /\ "counter" \in LockKind
      /\ First(call[t]) \in Profile /\ Second(call[t]) \in Profile
      /\ {This(t), Src(t)} = {First(call[t]), Second(call[t])}
  BY <1>1 DEF Called, First, Second, This, Src, LockKind
<1>3. /\ lock' \in [Profile -> [LockKind -> Thread \cup {Nil}]]
      /\ lock[Second(call[t])]["counter"] = Nil /\ lock'[Second(call[t])]["counter"] = t
      /\ \A s \in Thread : LocksKept(s)
  BY <1>0, <1>2, TakeIs
<1>4. lock'[This(t)]["counter"] = t /\ lock'[Src(t)]["counter"] = t
  <2>1. lock'[First(call[t])]["counter"] = t
    BY <1>1, <1>2, <1>3 DEF LocksKept
  <2> QED BY <1>2, <1>3, <2>1
<1>5. ~Merging(t)
  BY <1>0 DEF Merging
<1>6. ASSUME NEW p \in {This(t), Src(t)} PROVE IsTree(Dom(p), child_counter_map[p])
  <2>1. p \in Profile /\ (lock[p]["counter"] = t \/ lock[p]["counter"] = Nil)
    BY <1>1, <1>2, <1>3
  <2>2. \A s \in Thread : Merging(s) => lock[p]["counter"] # s
    BY <1>5, <2>1, ProfileAssumption
  <2> QED BY <2>1, <2>2, TreeOf
<1>7. Called(t)' /\ This(t)' = This(t) /\ Src(t)' = Src(t)
  BY <1>0, <1>3, CalledKept
<1>8. /\ Dom(This(t))' = Dom(This(t)) /\ Dom(Src(t))' = Dom(Src(t))
      /\ child_counter_map'[This(t)] = child_counter_map[This(t)]
      /\ Dom(Src(t)) \in SUBSET Name
  BY <1>0, <1>2, <1>7 DEF Dom, counterVars, IInv, Types
<1>9. CASE call[t].op = "merge"
  <2>0. Goto(t, "merge") /\ todo' = [todo EXCEPT ![t] = Dom(Src(t))]
    BY <1>9 DEF LockSecond, Dom
  <2>1. /\ pc' \in [Thread -> Label] /\ pc'[t] = "merge"
        /\ \A s \in Thread : s # t => pc'[s] = pc[s]
    BY <2>0, GotoIs DEF Label
  <2>2. /\ todo' \in [Thread -> SUBSET Name] /\ todo'[t] = Dom(Src(t))
        /\ \A s \in Thread : s # t => todo'[s] = todo[s]
    BY <1>8, <2>0 DEF IInv, Types
  <2>3. Holds(t)'
    <3>1. ~Copying(t)'
      BY <2>1 DEF Copying
    <3> QED BY <1>0, <1>4, <1>7, <1>9, <2>1, <3>1 DEF Holds, Called
  <2>4. Works(t)'
    <3>1. Remaining(t)' = Dom(Src(t))
      BY <2>1, <2>2 DEF Remaining, Loaded
    <3>2. MergeState(t, Dom(This(t)), child_counter_map[This(t)], Dom(Src(t)))'
      BY <1>6, <1>7, <1>8, <3>1 DEF MergeState, IsTree
    <3>3. ~Copying(t)'
      BY <2>1 DEF Copying
    <3> QED BY <2>1, <3>2, <3>3 DEF Works
  <2>5. /\ call' \in [Thread -> [op : Op \cup {Nil}, this : Profile \cup {Nil}, src : Profile \cup {Nil}]]
        /\ cur' \in [Thread -> [name : Name \cup {Nil}, value : Nat]]
    BY <1>0 DEF IInv, Types
  <2>6. \A s \in Thread : s # t => SameThread(s) /\ LocksKept(s)
    BY <1>0, <1>3, <2>1, <2>2 DEF SameThread
  <2> QED BY <1>0, <1>3, <1>5, <2>1, <2>2, <2>3, <2>4, <2>5, <2>6, QuietStep
<1>10. CASE call[t].op # "merge"
  <2> DEFINE V == Below(child_counter_map[Src(t)], ROOT) \ {ROOT}
  <2>0. Goto(t, "copy") /\ todo' = [todo EXCEPT ![t] = V]
    BY <1>10 DEF LockSecond
  <2>1. /\ pc' \in [Thread -> Label] /\ pc'[t] = "copy"
        /\ \A s \in Thread : s # t => pc'[s] = pc[s]
    BY <2>0, GotoIs DEF Label
  <2>7. V \subseteq Dom(Src(t)) /\ \A x \in V : ParentOf[x] \in V \cup {ROOT}
    <3>1. IsTree(Dom(Src(t)), child_counter_map[Src(t)])
      BY <1>6
    <3>2. V = Below(child_counter_map[Src(t)], ROOT) \ {ROOT}
      OBVIOUS
    <3> HIDE DEF V
    <3> QED BY <1>8, <3>1, <3>2, CopyVisits
  <2> HIDE DEF V
  <2>2. /\ todo' \in [Thread -> SUBSET Name] /\ todo'[t] = V
        /\ \A s \in Thread : s # t => todo'[s] = todo[s]
    BY <1>8, <2>0, <2>7 DEF IInv, Types
  <2>3. Holds(t)'
    <3>1. Copying(t)' /\ ~Merging(t)' /\ call[t].op = "copy_all_counters_from"
      BY <1>1, <1>10, <2>1 DEF Copying, Merging, Called, Op
    <3> QED BY <1>0, <1>4, <1>7, <2>1, <3>1 DEF Holds, Called
  <2>4. Works(t)'
    <3>1. Remaining(t)' = V /\ Loaded(t)' = {}
      BY <2>1, <2>2 DEF Remaining, Loaded
    <3>2. CopyState(t, Dom(This(t)), Dom(Src(t)))'
      BY <1>8, <2>2, <2>7, <3>1 DEF CopyState
    <3>3. ~Merging(t)'
      BY <2>1 DEF Merging
    <3> QED BY <2>1, <3>2, <3>3 DEF Works
  <2>5. /\ call' \in [Thread -> [op : Op \cup {Nil}, this : Profile \cup {Nil}, src : Profile \cup {Nil}]]
        /\ cur' \in [Thread -> [name : Name \cup {Nil}, value : Nat]]
    BY <1>0 DEF IInv, Types
  <2>6. \A s \in Thread : s # t => SameThread(s) /\ LocksKept(s)
    BY <1>0, <1>3, <2>1, <2>2 DEF SameThread
  <2> QED BY <1>0, <1>3, <1>5, <2>1, <2>2, <2>3, <2>4, <2>5, <2>6, QuietStep
<1> QED BY <1>9, <1>10

\* The loaded counter is one of the source.
LEMMA LoadIInv ==
  ASSUME IInv, NEW t \in Thread, Load(t) PROVE IInv'
<1> DEFINE next == IF pc[t] = "merge" THEN "add" ELSE "set"
<1>1. PICK n \in todo[t] :
        /\ pc[t] = "copy" => ParentOf[n] \notin todo[t]
        /\ cur' = [cur EXCEPT ![t] = [name |-> n, value |-> counter_map[Src(t)][n]]]
        /\ todo' = [todo EXCEPT ![t] = @ \ {n}]
  BY DEF Load
<1>0. /\ pc[t] \in {"merge", "copy"} /\ Goto(t, next)
      /\ UNCHANGED <<counterVars, child, lock, call>>
  BY DEF Load
<1>2. /\ pc' \in [Thread -> Label] /\ pc'[t] = next
      /\ \A s \in Thread : s # t => pc'[s] = pc[s]
  BY <1>0, GotoIs DEF Label
<1>3. Holds(t) /\ Works(t) /\ Src(t) \in Profile /\ This(t) \in Profile
  BY <1>0 DEF IInv, Holds
<1>4. /\ This(t)' = This(t) /\ Src(t)' = Src(t) /\ call'[t] = call[t]
      /\ Dom(This(t))' = Dom(This(t)) /\ Dom(Src(t))' = Dom(Src(t))
      /\ child_counter_map'[This(t)] = child_counter_map[This(t)]
  BY <1>0 DEF This, Src, Dom, counterVars
<1>5. (Merging(t)' <=> Merging(t)) /\ (Copying(t)' <=> Copying(t))
  BY <1>0, <1>2 DEF Merging, Copying
<1>6. n \in Dom(Src(t)) /\ n \in Name
  <2>1. n \in Remaining(t)
    BY DEF Remaining
  <2> QED BY <1>0, <1>3, <2>1 DEF Works, MergeState, CopyState, Merging, Copying, IInv, Types
<1>7. counter_map[Src(t)][n] \in Nat
  BY <1>3, <1>6 DEF IInv, Values, ValuesAt
<1>8. /\ cur' \in [Thread -> [name : Name \cup {Nil}, value : Nat]]
      /\ cur'[t].name = n
      /\ \A s \in Thread : s # t => cur'[s] = cur[s]
  <2>1. [name |-> n, value |-> counter_map[Src(t)][n]]
          \in [name : Name \cup {Nil}, value : Nat]
    BY <1>6, <1>7
  <2> QED BY <1>1, <1>7, <2>1 DEF IInv, Types
<1>9. /\ todo' \in [Thread -> SUBSET Name] /\ todo'[t] = todo[t] \ {n}
      /\ \A s \in Thread : s # t => todo'[s] = todo[s]
  BY <1>1 DEF IInv, Types
<1>10. Loaded(t) = {} /\ Loaded(t)' = {n} /\ Remaining(t)' = Remaining(t)
  <2>1. Loaded(t) = {}
    BY <1>0 DEF Loaded
  <2>2. Loaded(t)' = {n}
    BY <1>0, <1>2, <1>8 DEF Loaded
  <2> QED BY <1>9, <2>1, <2>2 DEF Remaining
<1>11. Holds(t)'
  <2>1. (Called(t) /\ (Merging(t) => call[t].op = "merge") /\ (Copying(t) => call[t].op = "copy_all_counters_from"))
        /\ lock[This(t)]["counter"] = t /\ lock[Src(t)]["counter"] = t
    BY <1>0, <1>3 DEF Holds, Called, Merging, Copying
  <2>2. Called(t)'
    BY <1>0, <1>4, <2>1, CalledKept DEF LocksKept
  <2>3. pc'[t] \in {"add", "set"} /\ (pc'[t] = "add" => Merging(t))
    BY <1>0, <1>2 DEF Merging
  <2> QED BY <1>0, <1>4, <1>5, <2>1, <2>2, <2>3 DEF Holds, Called
<1>12. Works(t)'
  <2>1. ASSUME Merging(t) PROVE MergeState(t, Dom(This(t)), child_counter_map[This(t)], Dom(Src(t)))'
    BY <1>3, <1>4, <1>10, <2>1 DEF Works, MergeState
  <2>2. ASSUME Copying(t) PROVE CopyState(t, Dom(This(t)), Dom(Src(t)))'
    <3>1. /\ CopyState(t, Dom(This(t)), Dom(Src(t))) /\ pc[t] = "copy"
      BY <1>0, <1>3, <2>2 DEF Works, Copying
    <3>2. ParentOf[n] \in Dom(This(t)) \cup {ROOT}
      BY <1>1, <1>10, <3>1 DEF CopyState, Remaining
    <3> QED BY <1>4, <1>9, <1>10, <3>1, <3>2 DEF CopyState
  <2>3. pc'[t] # "store"
    BY <1>0, <1>2
  <2> QED BY <1>5, <2>1, <2>2, <2>3 DEF Works
<1>13. /\ lock' \in [Profile -> [LockKind -> Thread \cup {Nil}]]
       /\ call' \in [Thread -> [op : Op \cup {Nil}, this : Profile \cup {Nil}, src : Profile \cup {Nil}]]
  BY <1>0 DEF IInv, Types
<1>14. \A s \in Thread : s # t => SameThread(s) /\ LocksKept(s)
  BY <1>0, <1>2, <1>8, <1>9 DEF SameThread, LocksKept
<1> QED BY <1>0, <1>2, <1>4, <1>5, <1>8, <1>9, <1>11, <1>12, <1>13, <1>14, QuietStep

\* A step of t that changes the counters of one profile, whose lock it holds.
LEMMA CounterStep ==
  ASSUME IInv, NEW t \in Thread, NEW p \in Profile, lock[p]["counter"] = t,
         child' = child, Types', ValuesAt(p)',
         \A q \in Profile : q # p =>
           /\ counter_map'[q] = counter_map[q] /\ updates'[q] = updates[q]
           /\ child_counter_map'[q] = child_counter_map[q],
         This(t) = p, This(t)' = p,
         Merging(t)' \/ IsTree(Dom(p), child_counter_map[p])',
         Holds(t)', Works(t)',
         \A s \in Thread : s # t => SameThread(s) /\ LocksKept(s)
  PROVE  IInv'
<1>1. \A q \in Profile : q # p => SameCounters(q)
  BY DEF SameCounters, Dom
<1>2. Values'
  BY DEF IInv, Values, ValuesAt, Kept, Dom
<1>3. Family'
  BY DEF IInv, Family
<1>4. Trees'
  <2>1. \A s \in Thread : s # t => (Merging(s)' <=> Merging(s)) /\ This(s)' = This(s)
    BY DEF SameThread, Merging, This
  <2>2. (Merging(t)' /\ This(t)' = This(t))
          \/ (IsTree(Dom(This(t)), child_counter_map[This(t)])' /\ This(t)' = This(t))
    BY DEF Dom
  <2>3. \A q \in Profile : \/ SameCounters(q) \/ IsTree(Dom(q), child_counter_map[q])'
                           \/ \E s \in Thread : Merging(s)' /\ This(s)' = q
    BY <1>1
  <2> QED BY <2>1, <2>2, <2>3, TreesKept DEF IInv
<1>5. ASSUME NEW s \in Thread, s # t PROVE ChildrenKept(s) /\ CountersKept(s)
  <2>1. ChildrenKept(s)
    BY DEF ChildrenKept
  <2> QED BY <1>1, <1>5, <2>1, NotItsOwn
<1> QED BY <1>2, <1>3, <1>4, <1>5, ThreadStep

\* A counter n of p gets a value that shows its updates, if no call discards them.
LEMMA PutIs ==
  ASSUME IInv, NEW p \in Profile, NEW n \in Name, NEW v \in Nat,
         Kept(p, n) => v >= updates[p][n],
         counter_map' = [counter_map EXCEPT ![p] = Put(counter_map[p], n, v)],
         updates' = updates
  PROVE  /\ DOMAIN counter_map' = Profile
         /\ Dom(p)' = Dom(p) \cup {n} /\ \A q \in Profile : Dom(q)' \subseteq Name
         /\ ValuesAt(p)'
         /\ \A q \in Profile : q # p => counter_map'[q] = counter_map[q]
<1>1. /\ counter_map'[p] = Put(counter_map[p], n, v) /\ DOMAIN counter_map' = Profile
      /\ \A q \in Profile : q # p => counter_map'[q] = counter_map[q]
  BY DEF IInv, Types
<1>2. /\ Dom(p)' = Dom(p) \cup {n} /\ counter_map'[p][n] = v
      /\ \A x \in Dom(p) : x # n => counter_map'[p][x] = counter_map[p][x]
  BY <1>1 DEF Dom, Put
<1>3. \A q \in Profile : Dom(q)' \subseteq Name
  BY <1>1, <1>2 DEF IInv, Types, Dom
<1>4. ValuesAt(p)'
  <2> SUFFICES ASSUME NEW x \in Name
               PROVE  IF x \in Dom(p)'
                        THEN /\ counter_map'[p][x] \in Nat
                             /\ Kept(p, x) => counter_map'[p][x] >= updates[p][x]
                        ELSE updates[p][x] = 0
    BY DEF ValuesAt, Kept
  <2>1. ValuesAt(p)
    BY DEF IInv, Values
  <2>2. CASE x = n
    BY <1>2, <2>2
  <2>3. CASE x # n
    BY <1>2, <2>1, <2>3 DEF ValuesAt
  <2> QED BY <2>2, <2>3
<1> QED BY <1>1, <1>2, <1>3, <1>4

LEMMA AddIInv ==
  ASSUME IInv, NEW t \in Thread, Add(t) PROVE IInv'
<1>10. PICK n : n = cur[t].name
  OBVIOUS
<1>11. PICK p : p = This(t)
  OBVIOUS
<1>0. /\ pc[t] = "add" /\ Goto(t, "merge")
      /\ counter_map' = [counter_map EXCEPT ![p] =
                           Put(@, n, IF n \in DOMAIN @ THEN @[n] + cur[t].value ELSE cur[t].value)]
      /\ UNCHANGED <<child_counter_map, updates, child, lock, call, todo, cur>>
  BY <1>10, <1>11 DEF Add
<1>1. /\ Holds(t) /\ Works(t) /\ Called(t) /\ p \in Profile /\ call[t].op = "merge"
      /\ lock[This(t)]["counter"] = t /\ lock[Src(t)]["counter"] = t
  BY <1>0, <1>11 DEF IInv, Holds, Merging, Called
<1>2. MergeState(t, Dom(p), child_counter_map[p], Dom(Src(t)))
  BY <1>0, <1>1, <1>11 DEF Works, Merging
<1>3. n \in Dom(Src(t)) /\ Remaining(t) = todo[t] \cup {n}
  BY <1>0, <1>2, <1>10 DEF MergeState, Remaining, Loaded
<1>4. n \in Name /\ cur[t].value \in Nat
  BY <1>1, <1>3 DEF Called, IInv, Types
<1> DEFINE v == IF n \in Dom(p) THEN counter_map[p][n] + cur[t].value ELSE cur[t].value
<1>5. v \in Nat /\ (Kept(p, n) => v >= updates[p][n])
  <2>1. updates[p][n] \in Nat
    BY <1>1, <1>4 DEF IInv, Types
  <2>2. IF n \in Dom(p)
          THEN counter_map[p][n] \in Nat /\ (Kept(p, n) => counter_map[p][n] >= updates[p][n])
          ELSE updates[p][n] = 0
    BY <1>1, <1>4 DEF IInv, Values, ValuesAt
  <2> QED BY <1>4, <2>1, <2>2
<1>6. counter_map' = [counter_map EXCEPT ![p] = Put(counter_map[p], n, v)]
  BY <1>0, <1>1 DEF Dom, IInv, Types
<1> HIDE DEF v
<1>7. /\ DOMAIN counter_map' = Profile
      /\ Dom(p)' = Dom(p) \cup {n} /\ \A q \in Profile : Dom(q)' \subseteq Name
      /\ ValuesAt(p)'
      /\ \A q \in Profile : q # p => counter_map'[q] = counter_map[q] /\ updates'[q] = updates[q]
  <2>1. updates' = updates
    BY <1>0
  <2>2. /\ DOMAIN counter_map' = Profile
        /\ Dom(p)' = Dom(p) \cup {n} /\ \A q \in Profile : Dom(q)' \subseteq Name
        /\ ValuesAt(p)'
        /\ \A q \in Profile : q # p => counter_map'[q] = counter_map[q]
    BY <1>1, <1>4, <1>5, <1>6, <2>1, PutIs
  <2> QED BY <2>1, <2>2
<1>8. /\ pc' \in [Thread -> Label] /\ pc'[t] = "merge"
      /\ \A s \in Thread : s # t => pc'[s] = pc[s]
  BY <1>0, GotoIs DEF Label
<1>9. Types'
  BY <1>0, <1>7, <1>8 DEF IInv, Types
<1>12. Called(t)' /\ This(t)' = p /\ Src(t)' = Src(t)
  BY <1>0, <1>11, CalledKept DEF LocksKept
<1>13. Holds(t)'
  <2>1. ~Copying(t)'
    BY <1>8 DEF Copying
  <2> QED BY <1>0, <1>1, <1>8, <1>11, <1>12, <2>1 DEF Holds, Called
<1>14. Dom(Src(t))' = Dom(Src(t)) /\ Dom(This(t))' = Dom(p) \cup {n}
       /\ child_counter_map'[This(t)'] = child_counter_map[p]
  BY <1>0, <1>1, <1>7, <1>11, <1>12 DEF Dom, Called
<1>15. Works(t)'
  <2> DEFINE D == Dom(p)
             ch == child_counter_map[p]
             E == Dom(Src(t))
  <2>1. Remaining(t)' = todo[t]
    BY <1>0, <1>8 DEF Remaining, Loaded
  <2>2. LinksLead(D \cup {n}, ch)
    BY <1>2 DEF MergeState, LinksLead
  <2>3. \A x \in (D \cup {n}) \ {TotalTime} : x \in E \/ Hangs(D \cup {n}, ch, x)
    BY <1>2, <1>3 DEF MergeState, Hangs
  <2>4. todo[t] \subseteq E /\ E \subseteq todo[t] \cup (D \cup {n})
    BY <1>2, <1>3 DEF MergeState
  <2>5. MergeState(t, Dom(This(t)), child_counter_map[This(t)], Dom(Src(t)))'
    BY <1>14, <2>1, <2>2, <2>3, <2>4 DEF MergeState
  <2>6. ~Copying(t)'
    BY <1>8 DEF Copying
  <2> QED BY <1>8, <2>5, <2>6 DEF Works
<1>16. Merging(t)'
  BY <1>8 DEF Merging
<1>17. \A s \in Thread : s # t => SameThread(s) /\ LocksKept(s)
  BY <1>0, <1>8 DEF SameThread, LocksKept
<1>18. \A q \in Profile : q # p =>
         /\ counter_map'[q] = counter_map[q] /\ updates'[q] = updates[q]
         /\ child_counter_map'[q] = child_counter_map[q]
  BY <1>0, <1>7
<1> QED BY <1>0, <1>1, <1>7, <1>9, <1>11, <1>12, <1>13, <1>15, <1>16, <1>17, <1>18, CounterStep

\* The sum is computed; the counter is there and need not be created.
LEMMA LoadSumIInv ==
  ASSUME IInv, NEW t \in Thread, LoadSum(t) PROVE IInv'
<1> DEFINE n == cur[t].name
           p == This(t)
<1>0. /\ pc[t] = "add" /\ n \in Dom(p) /\ n \in Double /\ Goto(t, "store")
      /\ cur' = [cur EXCEPT ![t].value = counter_map[p][n] + @]
      /\ UNCHANGED <<counterVars, child, lock, call, todo>>
  BY DEF LoadSum, StoresSum, ByStore, Dom
<1>1. /\ Holds(t) /\ Works(t) /\ Called(t) /\ p \in Profile /\ call[t].op = "merge"
      /\ lock[This(t)]["counter"] = t /\ lock[Src(t)]["counter"] = t
  BY <1>0 DEF IInv, Holds, Merging, Called
<1>2. MergeState(t, Dom(p), child_counter_map[p], Dom(Src(t)))
  BY <1>0, <1>1 DEF Works, Merging
<1>3. counter_map[p][n] \in Nat /\ cur[t].value \in Nat /\ n \in Name
  BY <1>0, <1>1 DEF IInv, Types, Values, ValuesAt
<1>4. /\ cur' \in [Thread -> [name : Name \cup {Nil}, value : Nat]] /\ cur'[t].name = n
      /\ \A s \in Thread : s # t => cur'[s] = cur[s]
  <2>1. cur \in [Thread -> [name : Name \cup {Nil}, value : Nat]]
    BY DEF IInv, Types
  <2>2. [cur[t] EXCEPT !.value = counter_map[p][n] + cur[t].value]
          \in [name : Name \cup {Nil}, value : Nat]
    BY <1>3, <2>1
  <2>3. cur'[t] = [cur[t] EXCEPT !.value = counter_map[p][n] + cur[t].value]
    BY <1>0, <2>1
  <2>4. cur' = [cur EXCEPT ![t] = cur'[t]]
    BY <1>0, <2>1
  <2>5. cur'[t].name = n
    BY <2>1, <2>3
  <2> QED BY <2>1, <2>2, <2>3, <2>4, <2>5
<1>5. /\ pc' \in [Thread -> Label] /\ pc'[t] = "store"
      /\ \A s \in Thread : s # t => pc'[s] = pc[s]
  BY <1>0, GotoIs DEF Label
<1>6. Called(t)' /\ This(t)' = p /\ Src(t)' = Src(t)
  BY <1>0, <1>1, CalledKept DEF LocksKept
<1>7. Merging(t)' /\ ~Copying(t)'
  BY <1>5 DEF Merging, Copying
<1>8. Holds(t)'
  BY <1>0, <1>1, <1>5, <1>6, <1>7 DEF Holds, Called
<1>9. /\ Dom(This(t))' = Dom(p) /\ Dom(Src(t))' = Dom(Src(t))
      /\ child_counter_map'[This(t)'] = child_counter_map[p]
  BY <1>0, <1>6 DEF Dom, counterVars
<1>10. Works(t)'
  <2>1. Remaining(t) = todo[t] \cup {n} /\ Remaining(t)' = todo[t]
    BY <1>0, <1>5 DEF Remaining, Loaded
  <2>2. MergeState(t, Dom(This(t)), child_counter_map[This(t)], Dom(Src(t)))'
    BY <1>0, <1>2, <1>9, <2>1 DEF MergeState
  <2>3. cur'[t].name \in Double /\ cur'[t].name \in Dom(This(t))'
    BY <1>0, <1>4, <1>9
  <2> QED BY <1>7, <2>2, <2>3 DEF Works
<1>11. /\ lock' \in [Profile -> [LockKind -> Thread \cup {Nil}]]
       /\ call' \in [Thread -> [op : Op \cup {Nil}, this : Profile \cup {Nil}, src : Profile \cup {Nil}]]
       /\ todo' \in [Thread -> SUBSET Name]
  BY <1>0 DEF IInv, Types
<1>12. \A s \in Thread : s # t => SameThread(s) /\ LocksKept(s)
  BY <1>0, <1>4, <1>5 DEF SameThread, LocksKept
<1> QED BY <1>0, <1>4, <1>5, <1>6, <1>7, <1>8, <1>10, <1>11, <1>12, QuietStep

\* What the owner added since the sum was computed goes, but only here.
LEMMA StoreSumIInv ==
  ASSUME IInv, NEW t \in Thread, StoreSum(t) PROVE IInv'
<1>10. PICK n : n = cur[t].name
  OBVIOUS
<1>11. PICK p : p = This(t)
  OBVIOUS
<1>0. /\ pc[t] = "store" /\ Goto(t, "merge")
      /\ counter_map' = [counter_map EXCEPT ![p][n] = cur[t].value]
      /\ UNCHANGED <<child_counter_map, updates, child, lock, call, todo, cur>>
  BY <1>10, <1>11 DEF StoreSum
<1>1. /\ Holds(t) /\ Works(t) /\ Called(t) /\ p \in Profile /\ call[t].op = "merge"
      /\ lock[This(t)]["counter"] = t /\ lock[Src(t)]["counter"] = t
  BY <1>0, <1>11 DEF IInv, Holds, Merging, Called
<1>2. MergeState(t, Dom(p), child_counter_map[p], Dom(Src(t))) /\ n \in Double /\ n \in Dom(p)
  BY <1>0, <1>1, <1>10, <1>11 DEF Works, Merging
<1>3. cur[t].value \in Nat /\ Dom(p) \subseteq Name /\ ValuesAt(p)
  BY <1>1 DEF IInv, Types, Values
<1>4. /\ counter_map'[p] = [counter_map[p] EXCEPT ![n] = cur[t].value]
      /\ DOMAIN counter_map' = Profile
      /\ \A q \in Profile : q # p => counter_map'[q] = counter_map[q]
  BY <1>0, <1>1 DEF IInv, Types
<1>5. /\ Dom(p)' = Dom(p) /\ counter_map'[p][n] = cur[t].value
      /\ \A x \in Dom(p) : x # n => counter_map'[p][x] = counter_map[p][x]
  BY <1>2, <1>4 DEF Dom
<1>6. ValuesAt(p)'
  <2> SUFFICES ASSUME NEW x \in Name
               PROVE  IF x \in Dom(p)'
                        THEN /\ counter_map'[p][x] \in Nat
                             /\ Kept(p, x) => counter_map'[p][x] >= updates[p][x]
                        ELSE updates[p][x] = 0
    BY <1>0 DEF ValuesAt, Kept
  <2>1. CASE x = n
    BY <1>2, <1>3, <1>5, <2>1 DEF Kept
  <2>2. CASE x # n
    BY <1>3, <1>5, <2>2 DEF ValuesAt
  <2> QED BY <2>1, <2>2
<1>7. \A q \in Profile : Dom(q)' = Dom(q)
  BY <1>4, <1>5 DEF Dom
<1>8. /\ pc' \in [Thread -> Label] /\ pc'[t] = "merge"
      /\ \A s \in Thread : s # t => pc'[s] = pc[s]
  BY <1>0, GotoIs DEF Label
<1>9. Types'
  BY <1>0, <1>4, <1>7, <1>8 DEF IInv, Types
<1>12. Called(t)' /\ This(t)' = p /\ Src(t)' = Src(t)
  BY <1>0, <1>1, <1>11, CalledKept DEF LocksKept
<1>13. Merging(t)' /\ ~Copying(t)'
  BY <1>8 DEF Merging, Copying
<1>14. Holds(t)'
  BY <1>0, <1>1, <1>8, <1>11, <1>12, <1>13 DEF Holds, Called
<1>15. Works(t)'
  <2>1. Remaining(t) = todo[t] /\ Remaining(t)' = todo[t]
    BY <1>0, <1>8 DEF Remaining, Loaded
  <2>2. Dom(This(t))' = Dom(p) /\ Dom(Src(t))' = Dom(Src(t))
    BY <1>1, <1>7, <1>12 DEF Dom, Called
  <2>3. MergeState(t, Dom(This(t)), child_counter_map[This(t)], Dom(Src(t)))'
    BY <1>0, <1>2, <1>12, <2>1, <2>2 DEF MergeState
  <2> QED BY <1>8, <1>13, <2>3 DEF Works
<1>16. \A s \in Thread : s # t => SameThread(s) /\ LocksKept(s)
  BY <1>0, <1>8 DEF SameThread, LocksKept
<1>17. \A q \in Profile : q # p =>
         /\ counter_map'[q] = counter_map[q] /\ updates'[q] = updates[q]
         /\ child_counter_map'[q] = child_counter_map[q]
  BY <1>0, <1>4
<1> QED BY <1>0, <1>1, <1>6, <1>9, <1>11, <1>12, <1>13, <1>14, <1>15, <1>16, <1>17, CounterStep

LEMMA SetIInv ==
  ASSUME IInv, Aims, NEW t \in Thread, Set(t) PROVE IInv'
<1>10. PICK n : n = cur[t].name
  OBVIOUS
<1>11. PICK p : p = This(t)
  OBVIOUS
<1>0. /\ pc[t] = "set" /\ Goto(t, "copy")
      /\ child_counter_map' = [child_counter_map EXCEPT ![p] =
                                 IF n \in Dom(p) THEN @ ELSE Linked(@, n)]
      /\ counter_map' = [counter_map EXCEPT ![p] = Put(@, n, cur[t].value)]
      /\ UNCHANGED <<updates, child, lock, call, todo, cur>>
  BY <1>10, <1>11 DEF Set, Dom
<1>1. /\ Holds(t) /\ Works(t) /\ Called(t) /\ p \in Profile
      /\ call[t].op = "copy_all_counters_from"
      /\ lock[This(t)]["counter"] = t /\ lock[Src(t)]["counter"] = t
  BY <1>0, <1>11 DEF IInv, Holds, Copying, Called
<1>2. CopyState(t, Dom(p), Dom(Src(t)))
  BY <1>0, <1>1, <1>11 DEF Works, Copying
<1>3. n \in Dom(Src(t)) /\ Remaining(t) = todo[t] \cup {n} /\ Loaded(t) = {n}
  BY <1>0, <1>2, <1>10 DEF CopyState, Remaining, Loaded
<1>4. n \in Name /\ cur[t].value \in Nat
  BY <1>1, <1>3 DEF Called, IInv, Types
<1>6. ~Kept(p, n)
  BY <1>0, <1>1, <1>11 DEF Aims, Kept
<1>7. /\ DOMAIN counter_map' = Profile
      /\ Dom(p)' = Dom(p) \cup {n} /\ \A q \in Profile : Dom(q)' \subseteq Name
      /\ ValuesAt(p)'
      /\ \A q \in Profile : q # p => counter_map'[q] = counter_map[q] /\ updates'[q] = updates[q]
  BY <1>0, <1>1, <1>4, <1>6, PutIs
<1>8. /\ pc' \in [Thread -> Label] /\ pc'[t] = "copy"
      /\ \A s \in Thread : s # t => pc'[s] = pc[s]
  BY <1>0, GotoIs DEF Label
<1>5. /\ DOMAIN child_counter_map' = Profile
      /\ child_counter_map'[p] =
           IF n \in Dom(p) THEN child_counter_map[p] ELSE Linked(child_counter_map[p], n)
      /\ \A q \in Profile : q # p => child_counter_map'[q] = child_counter_map[q]
  BY <1>0, <1>1 DEF IInv, Types
<1>9. Types'
  BY <1>0, <1>5, <1>7, <1>8 DEF IInv, Types
<1>12. Called(t)' /\ This(t)' = p /\ Src(t)' = Src(t)
  BY <1>0, <1>11, CalledKept DEF LocksKept
<1>13. Holds(t)'
  <2>1. ~Merging(t)'
    BY <1>8 DEF Merging
  <2> QED BY <1>0, <1>1, <1>8, <1>11, <1>12, <2>1 DEF Holds, Called
<1>14. Dom(Src(t))' = Dom(Src(t)) /\ Dom(This(t))' = Dom(p) \cup {n}
  BY <1>0, <1>1, <1>7, <1>11, <1>12 DEF Dom, Called
<1>15. Works(t)'
  <2>1. Remaining(t)' = todo[t] /\ Loaded(t)' = {} /\ todo'[t] = todo[t]
    BY <1>0, <1>8 DEF Remaining, Loaded
  <2>2. CopyState(t, Dom(This(t)), Dom(Src(t)))'
    BY <1>2, <1>3, <1>14, <2>1 DEF CopyState
  <2>3. ~Merging(t)'
    BY <1>8 DEF Merging
  <2> QED BY <1>8, <2>2, <2>3 DEF Works
<1>16. IsTree(Dom(p), child_counter_map[p])'
  <2>1. IsTree(Dom(p), child_counter_map[p])
    <3>1. ~Merging(t)
      BY <1>0 DEF Merging
    <3>2. \A s \in Thread : Merging(s) => lock[p]["counter"] # s
      BY <1>1, <1>11, <3>1
    <3> QED BY <1>1, <3>2, TreeOf
  <2>2. CASE n \in Dom(p)
    BY <1>5, <1>7, <2>1, <2>2
  <2>3. CASE n \notin Dom(p)
    <3>1. ParentOf[n] \in Dom(p) \cup {ROOT}
      BY <1>2, <1>3 DEF CopyState
    <3> QED BY <1>4, <1>5, <1>7, <2>1, <2>3, <3>1, TreeAdd
  <2> QED BY <2>2, <2>3
<1>17. \A s \in Thread : s # t => SameThread(s) /\ LocksKept(s)
  BY <1>0, <1>8 DEF SameThread, LocksKept
<1>18. \A q \in Profile : q # p =>
         /\ counter_map'[q] = counter_map[q] /\ updates'[q] = updates[q]
         /\ child_counter_map'[q] = child_counter_map[q]
  BY <1>5, <1>7
<1> QED BY <1>0, <1>1, <1>7, <1>9, <1>11, <1>12, <1>13, <1>15, <1>16, <1>17, <1>18, CounterStep

\* With the links of the source the profile is a tree again before its lock is
\* released.
LEMMA MergeLinksIInv ==
  ASSUME IInv, NEW t \in Thread, MergeLinks(t) PROVE IInv'
<1>10. PICK p : p = This(t)
  OBVIOUS
<1>11. PICK r : r = Src(t)
  OBVIOUS
<1> DEFINE ours == child_counter_map[p]
           theirs == child_counter_map[r]
           both == [m \in DOMAIN ours \cup DOMAIN theirs |-> Find(ours, m) \cup Find(theirs, m)]
<1>0. /\ pc[t] = "merge" /\ todo[t] = {} /\ Goto(t, "children1")
      /\ child_counter_map' = [child_counter_map EXCEPT ![p] = both]
      /\ lock' = [lock EXCEPT ![p]["counter"] = Nil, ![r]["counter"] = Nil]
      /\ cur' = [cur EXCEPT ![t] = NoCounter]
      /\ UNCHANGED <<counter_map, updates, child, call, todo>>
  BY <1>10, <1>11 DEF MergeLinks
<1>1. /\ Holds(t) /\ Works(t) /\ Called(t) /\ p \in Profile /\ r \in Profile /\ p # r
      /\ call[t].op = "merge"
      /\ lock[p]["counter"] = t /\ lock[r]["counter"] = t
  BY <1>0, <1>10, <1>11 DEF IInv, Holds, Merging, Called
<1>2. MergeState(t, Dom(p), ours, Dom(r)) /\ Remaining(t) = {}
  <2>1. MergeState(t, Dom(p), ours, Dom(r))
    BY <1>0, <1>1, <1>10, <1>11 DEF Works, Merging
  <2>2. Remaining(t) = {}
    BY <1>0 DEF Remaining, Loaded
  <2> QED BY <2>1, <2>2
<1>3. IsTree(Dom(r), theirs)
  <2>1. \A s \in Thread : Merging(s) => lock[r]["counter"] # s \/ This(s) # r
    BY <1>1, <1>10
  <2> QED BY <1>1, <2>1, TreeOf
<1>4. IsTree(Dom(p), both)
  <2>1. /\ Dom(r) \subseteq Dom(p) /\ LinksLead(Dom(p), ours)
        /\ \A n \in Dom(p) \ {TotalTime} : n \in Dom(r) \/ Hangs(Dom(p), ours, n)
    BY <1>2 DEF MergeState
  <2>2. both = [m \in DOMAIN ours \cup DOMAIN theirs |-> Find(ours, m) \cup Find(theirs, m)]
    OBVIOUS
  <2> HIDE DEF ours, theirs, both
  <2> QED BY <1>3, <2>1, <2>2, TreeMerge
<1> HIDE DEF both
<1>5. /\ DOMAIN child_counter_map' = Profile /\ child_counter_map'[p] = both
      /\ \A q \in Profile : q # p => child_counter_map'[q] = child_counter_map[q]
  BY <1>0, <1>1 DEF IInv, Types
<1>6. /\ pc' \in [Thread -> Label] /\ pc'[t] = "children1"
      /\ \A s \in Thread : s # t => pc'[s] = pc[s]
  BY <1>0, GotoIs DEF Label
<1>7. /\ lock' \in [Profile -> [LockKind -> Thread \cup {Nil}]]
      /\ \A q \in Profile : lock'[q]["children"] = lock[q]["children"]
      /\ \A s \in Thread : s # t => LocksKept(s)
  <2>0. lock \in [Profile -> [LockKind -> Thread \cup {Nil}]] /\ LockKind = {"counter", "children"}
    BY DEF IInv, Types, LockKind
  <2>1. /\ lock'[p] = [lock[p] EXCEPT !["counter"] = Nil]
        /\ lock'[r] = [lock[r] EXCEPT !["counter"] = Nil]
        /\ \A q \in Profile : q # p /\ q # r => lock'[q] = lock[q]
        /\ DOMAIN lock' = Profile
    BY <1>0, <1>1, <2>0
  <2>2. \A q \in Profile : lock'[q] = lock[q] \/ (q \in {p, r} /\ lock'[q] = [lock[q] EXCEPT !["counter"] = Nil])
    BY <2>1
  <2>3. ASSUME NEW q \in Profile PROVE lock'[q] \in [LockKind -> Thread \cup {Nil}]
    <3>1. lock[q] \in [LockKind -> Thread \cup {Nil}]
      BY <2>0
    <3>2. [lock[q] EXCEPT !["counter"] = Nil] \in [LockKind -> Thread \cup {Nil}]
      BY <3>1
    <3> QED BY <2>2, <3>1, <3>2
  <2>4. lock' \in [Profile -> [LockKind -> Thread \cup {Nil}]]
    <3>1. lock' = [q \in Profile |-> lock'[q]]
      BY <1>0, <2>0
    <3> QED BY <2>3, <3>1
  <2>5. \A q \in Profile : lock'[q]["children"] = lock[q]["children"]
    BY <2>0, <2>2
  <2>6. ASSUME NEW s \in Thread, s # t PROVE LocksKept(s)
    <3> SUFFICES ASSUME NEW q \in Profile, NEW k \in LockKind, lock[q][k] = s PROVE lock'[q][k] = s
      BY DEF LocksKept
    <3> QED BY <1>1, <2>0, <2>2, <2>6
  <2> QED BY <2>4, <2>5, <2>6
<1>8. /\ cur' \in [Thread -> [name : Name \cup {Nil}, value : Nat]]
      /\ \A s \in Thread : s # t => cur'[s] = cur[s]
  <2>1. NoCounter \in [name : Name \cup {Nil}, value : Nat]
    BY DEF NoCounter
  <2> QED BY <1>0, <2>1 DEF IInv, Types
<1>9. Types'
  BY <1>0, <1>5, <1>6, <1>7, <1>8 DEF IInv, Types, Dom
<1>12. Called(t)' /\ This(t)' = p
  <2>1. This(t)' = This(t) /\ Src(t)' = Src(t)
    BY <1>0 DEF This, Src
  <2>2. Stays(t, This(t))' /\ Stays(t, Src(t))'
    BY <1>0, <1>1, <1>7, <2>1 DEF Called, Stays
  <2> QED BY <1>0, <1>1, <1>10, <2>1, <2>2 DEF Called
<1>13. ~Merging(t)' /\ ~Copying(t)'
  BY <1>6 DEF Merging, Copying
<1>14. Holds(t)' /\ Works(t)'
  <2>1. Holds(t)'
    BY <1>0, <1>1, <1>6, <1>12, <1>13 DEF Holds, Called
  <2>2. Works(t)'
    BY <1>6, <1>13 DEF Works
  <2> QED BY <2>1, <2>2
<1>15. ValuesAt(p)'
  BY <1>0, <1>1 DEF IInv, Values, ValuesAt, Kept, Dom
<1>16. IsTree(Dom(p), child_counter_map[p])'
  <2>1. Dom(p)' = Dom(p)
    BY <1>0 DEF Dom
  <2> QED BY <1>4, <1>5, <2>1
<1>17. \A s \in Thread : s # t => SameThread(s) /\ LocksKept(s)
  BY <1>0, <1>6, <1>7, <1>8 DEF SameThread
<1>18. \A q \in Profile : q # p =>
         /\ counter_map'[q] = counter_map[q] /\ updates'[q] = updates[q]
         /\ child_counter_map'[q] = child_counter_map[q]
  BY <1>0, <1>5
<1> QED BY <1>0, <1>1, <1>9, <1>10, <1>12, <1>14, <1>15, <1>16, <1>17, <1>18, CounterStep

\* The children that merge goes on with are two, and stay while it holds the
\* children locks of their parents.
LEMMA MergeChildIInv ==
  ASSUME IInv, NEW t \in Thread, MergeChild(t) PROVE IInv'
<1>10. PICK p : p = This(t)
  OBVIOUS
<1>11. PICK r : r = Src(t)
  OBVIOUS
<1>12. PICK d : d = child[r]
  OBVIOUS
<1>13. PICK c : c = IF child[p] = Nil THEN NewProfile ELSE child[p]
  OBVIOUS
<1>0. /\ pc[t] = "children" /\ d # Nil /\ Goto(t, "first")
      /\ child' = [child EXCEPT ![p] = c]
      /\ call' = [call EXCEPT ![t].this = c, ![t].src = d]
      /\ UNCHANGED <<counterVars, lock, todo, cur>>
  BY <1>10, <1>11, <1>12, <1>13 DEF MergeChild
<1>1. /\ p \in Profile /\ r \in Profile /\ p # r /\ call[t].op = "merge"
      /\ lock[p]["children"] = t /\ lock[r]["children"] = t
      /\ (p \in Top <=> r \in Top)
  BY <1>0, <1>10, <1>11 DEF IInv, Holds
<1>2. r \in Top /\ p \in Top /\ d \in Profile /\ d \notin Top
  BY <1>0, <1>1, <1>12 DEF IInv, Family, Types
<1>3. c \in Profile /\ c \notin Top /\ \A q \in Profile : child[q] = c => q = p
  <2>1. CASE child[p] = Nil
    BY <1>2, <1>13, <2>1, NewProfileIsNew
  <2>2. CASE child[p] # Nil
    BY <1>1, <1>13, <2>2 DEF IInv, Family, Types
  <2> QED BY <2>1, <2>2
<1>4. c # d
  BY <1>1, <1>3, <1>12
<1>5. /\ child' \in [Profile -> Profile \cup {Nil}] /\ child'[p] = c
      /\ \A q \in Profile : q # p => child'[q] = child[q]
  BY <1>0, <1>1, <1>3 DEF IInv, Types
<1>6. /\ pc' \in [Thread -> Label] /\ pc'[t] = "first"
      /\ \A s \in Thread : s # t => pc'[s] = pc[s]
  BY <1>0, GotoIs DEF Label
<1>7. /\ call' \in [Thread -> [op : Op \cup {Nil}, this : Profile \cup {Nil}, src : Profile \cup {Nil}]]
      /\ call'[t].op = "merge" /\ call'[t].this = c /\ call'[t].src = d
      /\ \A s \in Thread : s # t => call'[s] = call[s]
  <2>1. call[t] \in [op : Op \cup {Nil}, this : Profile \cup {Nil}, src : Profile \cup {Nil}]
    BY DEF IInv, Types
  <2>2. call'[t] = [op |-> call[t].op, this |-> c, src |-> d]
    BY <1>0, <2>1 DEF IInv, Types
  <2>3. call'[t] \in [op : Op \cup {Nil}, this : Profile \cup {Nil}, src : Profile \cup {Nil}]
    BY <1>2, <1>3, <2>1, <2>2
  <2>4. \A s \in Thread : s # t => call'[s] = call[s]
    BY <1>0 DEF IInv, Types
  <2>5. call' = [call EXCEPT ![t] = call'[t]]
    BY <1>0, <2>1, <2>2, <2>4 DEF IInv, Types
  <2>6. call' \in [Thread -> [op : Op \cup {Nil}, this : Profile \cup {Nil}, src : Profile \cup {Nil}]]
    <3>1. call \in [Thread -> [op : Op \cup {Nil}, this : Profile \cup {Nil}, src : Profile \cup {Nil}]]
      BY DEF IInv, Types
    <3> QED BY <2>3, <2>5, <3>1
  <2> QED BY <1>1, <2>2, <2>4, <2>6
<1>8. UNCHANGED <<counter_map, child_counter_map, updates>>
  BY <1>0 DEF counterVars
<1>9. Types'
  BY <1>0, <1>5, <1>6, <1>7, <1>8 DEF IInv, Types, Dom
<1>14. Values'
  BY <1>8 DEF IInv, Values, ValuesAt, Kept, Dom
<1>15. Family'
  <2>1. \A q \in Profile : child'[q] # Nil => q \in Top /\ child'[q] \notin Top
    BY <1>2, <1>3, <1>5 DEF IInv, Family
  <2>2. ASSUME NEW q \in Profile, NEW x \in Profile, child'[q] # Nil, child'[q] = child'[x]
        PROVE  q = x
    BY <1>3, <1>5, <2>2 DEF IInv, Family
  <2> QED BY <2>1, <2>2 DEF Family
<1>16. \A q \in Profile : SameCounters(q)
  BY <1>8 DEF SameCounters, Dom
<1>17. ~Merging(t) /\ ~Merging(t)' /\ ~Copying(t)' /\ This(t)' = c /\ Src(t)' = d
  BY <1>0, <1>6, <1>7 DEF Merging, Copying, This, Src
<1>18. Trees'
  <2>1. \A s \in Thread : Merging(s) => Merging(s)' /\ This(s)' = This(s)
    BY <1>6, <1>7, <1>17 DEF Merging, This
  <2> QED BY <1>16, <2>1, TreesKept DEF IInv
<1>19. Stays(t, This(t))' /\ Stays(t, Src(t))'
  BY <1>0, <1>1, <1>5, <1>12, <1>17 DEF Stays
<1>20. Holds(t)' /\ Works(t)'
  <2>1. Holds(t)'
    BY <1>2, <1>3, <1>4, <1>6, <1>7, <1>17, <1>19 DEF Holds, Op
  <2>2. Works(t)'
    BY <1>6, <1>17 DEF Works
  <2> QED BY <2>1, <2>2
<1>21. ASSUME NEW s \in Thread, s # t
       PROVE  SameThread(s) /\ LocksKept(s) /\ ChildrenKept(s) /\ CountersKept(s)
  <2>1. SameThread(s) /\ LocksKept(s)
    BY <1>0, <1>6, <1>7, <1>21 DEF SameThread, LocksKept
  <2>2. ChildrenKept(s)
    BY <1>1, <1>5, <1>21 DEF ChildrenKept
  <2>3. Merging(s) \/ Copying(s) => This(s) \in Profile /\ Src(s) \in Profile
    BY DEF IInv, Holds, Merging, Copying
  <2> QED BY <1>16, <2>1, <2>2, <2>3 DEF CountersKept
<1> QED BY <1>9, <1>14, <1>15, <1>18, <1>20, <1>21, ThreadStep

-----------------------------------------------------------------------------
(***************************************************************************)
(* The theorems                                                            *)
(***************************************************************************)

LEMMA InitIInv == ASSUME Init PROVE IInv
<1>1. \A p \in Profile : /\ counter_map[p] = [n \in {TotalTime} |-> 0]
                         /\ child_counter_map[p] = [n \in {} |-> {}]
                         /\ Dom(p) = {TotalTime}
  BY DEF Init, Dom
<1>2. Types
  <2>1. NoCall \in [op : Op \cup {Nil}, this : Profile \cup {Nil}, src : Profile \cup {Nil}]
        /\ NoCounter \in [name : Name \cup {Nil}, value : Nat]
    BY DEF NoCall, NoCounter
  <2>2. [n \in Name |-> 0] \in [Name -> Nat] /\ [k \in LockKind |-> Nil] \in [LockKind -> Thread \cup {Nil}]
    OBVIOUS
  <2>3. /\ DOMAIN counter_map = Profile /\ DOMAIN child_counter_map = Profile
        /\ \A p \in Profile : Dom(p) \subseteq Name
    BY <1>1, ProfileAssumption DEF Init
  <2> QED BY <2>1, <2>2, <2>3 DEF Init, Types, Label
<1>3. Values
  BY <1>1 DEF Init, Values, ValuesAt, Kept
<1>4. Family
  BY DEF Init, Family
<1>5. Trees
  BY <1>1, TreeInit DEF Trees
<1>6. ASSUME NEW t \in Thread PROVE Holds(t) /\ Works(t)
  <2>1. pc[t] = "idle"
    BY DEF Init
  <2>2. ~Merging(t) /\ ~Copying(t)
    BY <2>1 DEF Merging, Copying
  <2>3. Holds(t)
    BY <2>1, <2>2 DEF Holds
  <2>4. Works(t)
    BY <2>1, <2>2 DEF Works
  <2> QED BY <2>3, <2>4
<1> QED BY <1>2, <1>3, <1>4, <1>5, <1>6 DEF IInv

LEMMA NextIInv == ASSUME IInv, Aims, [Next]_vars PROVE IInv'
<1>1. CASE UNCHANGED vars
  BY <1>1 DEF vars, IInv, Types, Values, ValuesAt, Kept, Family, Trees, Holds, Works, Dom, Merging, Copying,
              This, Src, First, Stays, MergeState, CopyState, Remaining, Loaded
<1>2. ASSUME NEW p \in InUse,
             \/ \E n \in Name : AddCounter(p, n) \/ Update(p, n) \/ RemoveCounter(p, n)
             \/ \E saved_names \in SUBSET Name : RemoveCounters(p, saved_names)
             \/ CreateChild(p) \/ RemoveChilds(p)
      PROVE  IInv'
  <2>1. p \in Profile
    BY DEF InUse
  <2>2. CASE \E n \in Name : AddCounter(p, n) \/ Update(p, n) \/ RemoveCounter(p, n)
    BY <2>1, <2>2, AddCounterIInv, UpdateIInv, RemoveCounterIInv
  <2>3. CASE \E saved_names \in SUBSET Name : RemoveCounters(p, saved_names)
    BY <2>1, <2>3, RemoveCountersIInv
  <2>4. CASE CreateChild(p) \/ RemoveChilds(p)
    BY <2>1, <2>4, CreateChildIInv, RemoveChildsIInv
  <2> QED BY <1>2, <2>2, <2>3, <2>4
<1>3. ASSUME NEW t \in Thread, Step(t) PROVE IInv'
  BY <1>3, LockFirstIInv, LockSecondIInv, LoadIInv, AddIInv, LoadSumIInv, StoreSumIInv,
     SetIInv, CopyEndsIInv, MergeLinksIInv, LockChildrenIInv, MergeChildIInv, MergeEndsIInv DEF Step
<1>4. ASSUME NEW t \in Thread, NEW c \in Calls, BeginCall(t, c) PROVE IInv'
  BY <1>4, BeginCallIInv
<1> QED BY <1>1, <1>2, <1>3, <1>4 DEF Next

\* merge alone goes on with the children; a copy keeps its destination.
LEMMA NextAims == ASSUME IInv, Aims, [Next]_vars PROVE Aims'
<1>0. /\ pc \in [Thread -> Label]
      /\ call \in [Thread -> [op : Op \cup {Nil}, this : Profile \cup {Nil}, src : Profile \cup {Nil}]]
  BY DEF IInv, Types
<1>1. CASE UNCHANGED <<pc, call>>
  BY <1>1 DEF Aims, This
<1>2. ASSUME NEW t \in Thread, NEW c \in Calls, BeginCall(t, c) PROVE Aims'
  <2>1. pc' = [pc EXCEPT ![t] = "first"] /\ call' = [call EXCEPT ![t] = c]
    BY <1>2 DEF BeginCall, Goto
  <2>2. c.op = "copy_all_counters_from" => c.this \in CopyTargets
    BY DEF CopyTargets
  <2> QED BY <1>0, <2>1, <2>2 DEF Aims, This
<1>3. ASSUME NEW t \in Thread, NEW label, pc[t] # "idle", Goto(t, label), call' = call PROVE Aims'
  BY <1>0, <1>3 DEF Aims, This, Goto
<1>4. ASSUME NEW t \in Thread, EndCall(t) PROVE Aims'
  BY <1>0, <1>4 DEF Aims, This, Goto, EndCall
<1>5. ASSUME NEW t \in Thread, MergeChild(t) PROVE Aims'
  <2>1. pc[t] = "children" /\ call[t].op = "merge"
    BY <1>5 DEF MergeChild, IInv, Holds
  <2>2. PICK c, d : call' = [call EXCEPT ![t].this = c, ![t].src = d]
    BY <1>5 DEF MergeChild
  <2>3. call'[t].op = "merge" /\ \A s \in Thread : s # t => call'[s] = call[s]
    BY <1>0, <2>1, <2>2
  <2>4. \A s \in Thread : s # t => pc'[s] = pc[s]
    BY <1>0, <1>5 DEF MergeChild, Goto
  <2> QED BY <2>3, <2>4 DEF Aims, This
<1>6. ASSUME NEW t \in Thread, Step(t) PROVE Aims'
  <2>1. CASE LockFirst(t) \/ LockSecond(t) \/ Load(t) \/ Add(t) \/ LoadSum(t) \/ StoreSum(t)
             \/ Set(t) \/ MergeLinks(t) \/ LockChildren(t)
    <3>1. pc[t] # "idle" /\ call' = call /\ \E label : Goto(t, label)
      BY <2>1 DEF LockFirst, LockSecond, Load, Add, LoadSum, StoreSum, Set, MergeLinks, LockChildren
    <3> QED BY <1>3, <3>1
  <2>2. CASE CopyEnds(t) \/ MergeEnds(t)
    BY <1>4, <2>2 DEF CopyEnds, MergeEnds
  <2> QED BY <1>5, <1>6, <2>1, <2>2 DEF Step
<1>7. ASSUME NEW p \in InUse,
             \/ \E n \in Name : AddCounter(p, n) \/ Update(p, n) \/ RemoveCounter(p, n)
             \/ \E saved_names \in SUBSET Name : RemoveCounters(p, saved_names)
             \/ CreateChild(p) \/ RemoveChilds(p)
      PROVE  UNCHANGED <<pc, call>>
  BY <1>7 DEF AddCounter, Update, RemoveCounter, RemoveCounters, CreateChild, RemoveChilds, threadVars
<1> QED BY <1>1, <1>2, <1>6, <1>7 DEF Next, vars

\* Whatever the owners of the profiles do while other threads merge and copy them,
\* every profile but the destination of a merge at work is a tree of counters, no
\* counter that calls only add to shows less than its updates, and a call keeps
\* the locks and the profiles it works with.
THEOREM ProfileInvariant == Spec => []IInv
<1>1. Init => IInv /\ Aims
  BY InitIInv DEF Init, Aims
<1>2. IInv /\ Aims /\ [Next]_vars => IInv' /\ Aims'
  BY NextIInv, NextAims
<1> QED BY <1>1, <1>2, PTL DEF Spec

\* The links of a profile that merge is adding counters to lead to counters as well.
LEMMA LinksOfAll ==
  ASSUME IInv, NEW p \in Profile PROVE LinksLead(Dom(p), child_counter_map[p])
<1>1. CASE IsTree(Dom(p), child_counter_map[p])
  BY <1>1 DEF IsTree
<1>2. CASE \E t \in Thread : Merging(t) /\ This(t) = p
  BY <1>2 DEF IInv, Works, MergeState
<1> QED BY <1>1, <1>2 DEF IInv, Trees

\* Counters and links are of the names, children are profiles and locks are held
\* by threads.
THEOREM ProfileTypeCorrect == Spec => []TypeOK
<1>1. IInv => TypeOK
  <2> SUFFICES ASSUME IInv PROVE TypeOK
    OBVIOUS
  <2>1. ASSUME NEW p \in Profile
        PROVE  /\ DOMAIN counter_map[p] \subseteq Name
               /\ \A n \in DOMAIN counter_map[p] : counter_map[p][n] \in Nat
               /\ DOMAIN child_counter_map[p] \subseteq Name \cup {ROOT}
    <3>1. Dom(p) \subseteq Name /\ ValuesAt(p) /\ updates[p] \in [Name -> Nat]
      BY DEF IInv, Types, Values
    <3>2. \A n \in Dom(p) : counter_map[p][n] \in Nat
      BY <3>1 DEF ValuesAt
    <3>3. DOMAIN child_counter_map[p] \subseteq Name \cup {ROOT}
      BY <3>1, LinksOfAll DEF LinksLead
    <3> QED BY <3>1, <3>2, <3>3 DEF Dom
  <2> QED BY <2>1 DEF TypeOK, IInv, Types
<1> QED BY <1>1, ProfileInvariant, PTL

\* A profile whose counter lock is free can be printed and copied: its counters
\* and its links are one tree, whatever add_child_counter, remove_counter,
\* remove_counters, merge and copy_all_counters_from did to it, in any order and
\* by any threads.
THEOREM CountersFormATree == Spec => []CountersLinked
<1>1. IInv => CountersLinked
  <2> SUFFICES ASSUME IInv, NEW p \in Profile, lock[p]["counter"] = Nil
               PROVE  /\ \A n \in DOMAIN counter_map[p] \ {TotalTime} :
                           /\ n \in Find(child_counter_map[p], ParentOf[n])
                           /\ ParentOf[n] \in DOMAIN counter_map[p] \cup {ROOT}
                      /\ \A m \in DOMAIN child_counter_map[p] :
                           /\ child_counter_map[p][m] \subseteq {n \in DOMAIN counter_map[p] : ParentOf[n] = m}
                           /\ m \in DOMAIN counter_map[p] \cup {ROOT}
    BY DEF CountersLinked
  <2>1. IsTree(Dom(p), child_counter_map[p])
    BY FreeIsTree
  <2> QED BY <2>1 DEF IsTree, LinksLead, Hangs, Dom
<1> QED BY <1>1, ProfileInvariant, PTL

\* merge loses no update: a counter of any profile that nobody copies to, unless
\* it is of type DOUBLE_VALUE, never shows less than what its owners added since it
\* was created, although they need no lock and merges by any number of threads
\* read it and add to it meanwhile.
THEOREM MergeKeepsUpdates == Spec => []NoUpdateLost
<1>1. IInv => NoUpdateLost
  BY DEF IInv, Types, Dom, Values, ValuesAt, Kept, NoUpdateLost
<1> QED BY <1>1, ProfileInvariant, PTL
=============================================================================
