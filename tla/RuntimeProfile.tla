--------------------------- MODULE RuntimeProfile ---------------------------
(***************************************************************************)
(* The tree of counters and the child profiles of class RuntimeProfile     *)
(* (tenann/util/runtime_profile), which says of itself that it is          *)
(* thread-safe.                                                            *)
(*                                                                         *)
(* A method that holds one lock is one step.  merge and                    *)
(* copy_all_counters_from work on two profiles, take their locks one after *)
(* the other, and are several steps.  Counters are atomic and are updated  *)
(* by their owners without any lock.                                       *)
(*                                                                         *)
(* A counter name has one parent in all profiles: merge combines counters  *)
(* "that have an identical path".  The profiles that are merged have at    *)
(* most one child each, all of the same name, and the children have none.  *)
(* A counter holds an integer whatever its type; those of type             *)
(* DOUBLE_VALUE differ in how merge adds to them.  TotalTime is never      *)
(* removed (every profile needs it to be printed).                         *)
(***************************************************************************)
EXTENDS Naturals, FiniteSets

CONSTANTS
    Thread, Profile,
    Name,        \* counter names
    ROOT,        \* ROOT_COUNTER
    TotalTime,   \* the counter every profile is born with
    Double,      \* the counters of type DOUBLE_VALUE
    ParentOf,    \* name -> parent_name given to add_child_counter
    Calls,       \* calls of methods on two profiles that the threads make
    MaxOps,      \* bound: operations of the owners of the profiles
    MaxCalls,    \* bound: calls of methods on two profiles
    Nil

Op == {"merge", "copy_all_counters_from"}
LockKind == {"counter", "children"}

ASSUME ProfileAssumption ==
    /\ TotalTime \in Name /\ ROOT \notin Name /\ ParentOf \in [Name -> Name \cup {ROOT}]
    /\ ParentOf[TotalTime] = ROOT /\ Double \subseteq Name \ {TotalTime}
    /\ Calls \subseteq [op : Op, this : Profile, src : Profile]
    /\ \A c \in Calls : c.this # c.src
    /\ MaxOps \in Nat /\ MaxCalls \in Nat
    /\ Nil \notin Thread \cup Profile

\* The profiles at the top; all others are there to become their children.
Top == {p \in Profile : \E c \in Calls : p \in {c.this, c.src}}

ASSUME RoomForChildren ==
    IsFiniteSet(Profile) /\ Cardinality(Profile \ Top) >= Cardinality(Top)

VARIABLES
    counter_map,        \* profile -> name -> value; the domains vary
    child_counter_map,  \* profile -> parent name -> names; the domains vary
    child,              \* profile -> its child profile
    lock,               \* profile -> lock -> the thread that holds it
    pc, call,           \* where each thread is, in which call
    todo,               \* the counters its loop has still to visit
    cur,                \* the counter its loop is at, and what it read
    updates,            \* history: profile -> name -> updates by the owners of the counter
    calls, ops          \* history: calls of methods on two profiles, other operations

vars == <<counter_map, child_counter_map, child, lock, pc, call, todo, cur, updates, calls, ops>>
counterVars == <<counter_map, child_counter_map, updates>>
threadVars == <<pc, call, todo, cur, calls>>

NoCall == [op |-> Nil, this |-> Nil, src |-> Nil]
NoCounter == [name |-> Nil, value |-> 0]

Init ==
    /\ counter_map = [p \in Profile |-> [n \in {TotalTime} |-> 0]]
    /\ child_counter_map = [p \in Profile |-> [n \in {} |-> {}]]
    /\ child = [p \in Profile |-> Nil]
    /\ lock = [p \in Profile |-> [k \in LockKind |-> Nil]]
    /\ pc = [t \in Thread |-> "idle"]
    /\ call = [t \in Thread |-> NoCall]
    /\ todo = [t \in Thread |-> {}]
    /\ cur = [t \in Thread |-> NoCounter]
    /\ updates = [p \in Profile |-> [n \in Name |-> 0]]
    /\ calls = 0 /\ ops = 0

\* Associative containers: m[k] = v, erasing keys, and find.
Put(m, k, v) == [x \in DOMAIN m \cup {k} |-> IF x = k THEN v ELSE m[x]]
Erase(m, ks) == [x \in DOMAIN m \ ks |-> m[x]]
Find(m, k) == IF k \in DOMAIN m THEN m[k] ELSE {}

\* The names under n, n included, that child_counter_map leads to.
Below(ch, n) ==
    CHOOSE S \in SUBSET (Name \cup {ROOT}) :
      /\ n \in S
      /\ \A m \in S : Find(ch, m) \subseteq S
      /\ \A R \in SUBSET S : n \in R /\ (\A m \in R : Find(ch, m) \subseteq R) => R = S

\* n and its ancestors, following the parents in counter_map.
Ancestors(m, n) ==
    CHOOSE S \in SUBSET Name :
      /\ n \in S
      /\ \A x \in S \cap DOMAIN m : ParentOf[x] \in S \cup {ROOT}
      /\ \A R \in SUBSET S :
           n \in R /\ (\A x \in R \cap DOMAIN m : ParentOf[x] \in R \cup {ROOT}) => R = S

-----------------------------------------------------------------------------
\* Methods that hold one lock, and updates of counters, which need none

Operate == ops < MaxOps /\ ops' = ops + 1

\* n hangs under its parent.
Linked(ch, n) == Put(ch, ParentOf[n], Find(ch, ParentOf[n]) \cup {n})

\* add_child_counter; its parent has been added before.
AddCounter(p, n) ==
    /\ Operate
    /\ lock[p]["counter"] = Nil
    /\ n \notin DOMAIN counter_map[p]
    /\ ParentOf[n] \in DOMAIN counter_map[p] \cup {ROOT}
    /\ counter_map' = [counter_map EXCEPT ![p] = Put(@, n, 0)]
    /\ child_counter_map' = [child_counter_map EXCEPT ![p] = Linked(@, n)]
    /\ UNCHANGED <<child, lock, updates, threadVars>>

\* Counter::update by the owner of the counter.
Update(p, n) ==
    /\ Operate
    /\ n \in DOMAIN counter_map[p]
    /\ counter_map' = [counter_map EXCEPT ![p][n] = @ + 1]
    /\ updates' = [updates EXCEPT ![p][n] = @ + 1]
    /\ UNCHANGED <<child_counter_map, child, lock, threadVars>>

\* The counters in gone are no longer there.
Forget(p, gone) ==
    /\ counter_map' = [counter_map EXCEPT ![p] = Erase(@, gone)]
    /\ updates' = [updates EXCEPT ![p] = [n \in Name |-> IF n \in gone THEN 0 ELSE @[n]]]

\* Mutant of RemoveCounter: the counters under it stay.
RemoveCounterAlone(p, n) ==
    /\ Operate
    /\ lock[p]["counter"] = Nil
    /\ n \in DOMAIN counter_map[p] \ {TotalTime}
    /\ Forget(p, {n})
    /\ child_counter_map' = [child_counter_map EXCEPT ![p] =
                               Erase(Put(@, ParentOf[n], Find(@, ParentOf[n]) \ {n}), {n})]
    /\ UNCHANGED <<child, lock, threadVars>>

\* remove_counter: the counter and all the counters under it.
RemoveCounter(p, n) ==
    /\ Operate
    /\ lock[p]["counter"] = Nil
    /\ n \in DOMAIN counter_map[p] \ {TotalTime}
    /\ LET gone == Below(child_counter_map[p], n)
           unlinked == Put(child_counter_map[p], ParentOf[n],
                           Find(child_counter_map[p], ParentOf[n]) \ {n})
       IN  /\ Forget(p, gone)
           /\ child_counter_map' = [child_counter_map EXCEPT ![p] = Erase(unlinked, gone)]
    /\ UNCHANGED <<child, lock, threadVars>>

\* remove_counters: all but the saved counters and their ancestors.
RemoveCounters(p, saved_names) ==
    LET all_saved_names == {ROOT} \cup UNION {Ancestors(counter_map[p], n) : n \in saved_names}
        left == [m \in DOMAIN child_counter_map[p] |-> child_counter_map[p][m] \cap all_saved_names]
    IN  /\ Operate
        /\ lock[p]["counter"] = Nil
        /\ TotalTime \in saved_names
        /\ Forget(p, Name \ all_saved_names)
        /\ child_counter_map' = [child_counter_map EXCEPT ![p] =
                                   Erase(left, {m \in DOMAIN left \ {ROOT} : left[m] = {}})]
        /\ UNCHANGED <<child, lock, threadVars>>

\* A profile that is not in use, for create_child and merge.
NewProfile ==
    CHOOSE c \in Profile :
      /\ \A p \in Profile : child[p] # c
      /\ c \notin Top

\* The profiles their owners work with.
InUse == {p \in Profile : p \in Top \/ \E q \in Profile : child[q] = p}

\* create_child of a profile at the top
CreateChild(p) ==
    /\ Operate
    /\ lock[p]["children"] = Nil
    /\ p \in Top
    /\ child[p] = Nil
    /\ child' = [child EXCEPT ![p] = NewProfile]
    /\ UNCHANGED <<counterVars, lock, threadVars>>

\* remove_childs; the next new profile is as the constructor makes it.
RemoveChilds(p) ==
    /\ Operate
    /\ lock[p]["children"] = Nil
    /\ child[p] # Nil
    /\ child' = [child EXCEPT ![p] = Nil]
    /\ counter_map' = [counter_map EXCEPT ![child[p]] = [n \in {TotalTime} |-> 0]]
    /\ child_counter_map' = [child_counter_map EXCEPT ![child[p]] = [n \in {} |-> {}]]
    /\ updates' = [updates EXCEPT ![child[p]] = [n \in Name |-> 0]]
    /\ UNCHANGED <<lock, threadVars>>

-----------------------------------------------------------------------------
\* merge and copy_all_counters_from

Goto(t, label) == pc' = [pc EXCEPT ![t] = label]
Take(t, p, k) == lock[p][k] = Nil /\ lock' = [lock EXCEPT ![p][k] = t]
Src(t) == call[t].src
This(t) == call[t].this

BeginCall(t, c) ==
    /\ pc[t] = "idle"
    /\ calls < MaxCalls
    /\ calls' = calls + 1
    /\ call' = [call EXCEPT ![t] = c]
    /\ Goto(t, "first")
    /\ UNCHANGED <<counterVars, child, lock, todo, cur>>

\* All the locks the thread holds are released.
EndCall(t) ==
    /\ Goto(t, "idle")
    /\ lock' = [p \in Profile |-> [k \in LockKind |-> IF lock[p][k] = t THEN Nil ELSE lock[p][k]]]
    /\ call' = [call EXCEPT ![t] = NoCall]

\* merge takes its own lock first, copy_all_counters_from that of the source.
First(c) == IF c.op = "merge" THEN c.this ELSE c.src
Second(c) == IF First(c) = c.this THEN c.src ELSE c.this

LockFirst(t) ==
    /\ pc[t] = "first"
    /\ Take(t, First(call[t]), "counter")
    /\ Goto(t, "second")
    /\ UNCHANGED <<counterVars, child, call, todo, cur, calls>>

\* With both locks the loop over the counters of the source starts.  merge goes
\* through counter_map, the copy through what child_counter_map leads to.
LockSecond(t) ==
    /\ pc[t] = "second"
    /\ Take(t, Second(call[t]), "counter")
    /\ IF call[t].op = "merge"
         THEN /\ todo' = [todo EXCEPT ![t] = DOMAIN counter_map[Src(t)]]
              /\ Goto(t, "merge")
         ELSE /\ todo' = [todo EXCEPT ![t] = Below(child_counter_map[Src(t)], ROOT) \ {ROOT}]
              /\ Goto(t, "copy")
    /\ UNCHANGED <<counterVars, child, call, cur, calls>>

\* The value of a counter of the source is loaded: merge in the order of the
\* names, the copy parents first.
Load(t) ==
    /\ pc[t] \in {"merge", "copy"}
    /\ \E n \in todo[t] :
         /\ pc[t] = "copy" => ParentOf[n] \notin todo[t]
         /\ cur' = [cur EXCEPT ![t] = [name |-> n, value |-> counter_map[Src(t)][n]]]
         /\ todo' = [todo EXCEPT ![t] = @ \ {n}]
    /\ Goto(t, IF pc[t] = "merge" THEN "add" ELSE "set")
    /\ UNCHANGED <<counterVars, child, lock, call, calls>>

\* Mutant of ByStore: every counter is added to with a load and a store.
ByStoreAlways(n) == TRUE

\* Adding to a counter of type DOUBLE_VALUE is a load and a store.
ByStore(n) == n \in Double

\* There is a counter to add to, and it is of that type.
StoresSum(t) == cur[t].name \in DOMAIN counter_map[This(t)] /\ ByStore(cur[t].name)

\* merge adds it to the counter of that name (fetch_add) or to a new counter.
Add(t) ==
    LET n == cur[t].name IN
    /\ pc[t] = "add"
    /\ ~StoresSum(t)
    /\ counter_map' = [counter_map EXCEPT ![This(t)] =
                         Put(@, n, IF n \in DOMAIN @ THEN @[n] + cur[t].value ELSE cur[t].value)]
    /\ Goto(t, "merge")
    /\ UNCHANGED <<child_counter_map, updates, child, lock, call, todo, cur, calls>>

\* The two steps of adding to a counter of type DOUBLE_VALUE: the sum is
\* computed and then stored, whatever the counter has become meanwhile.
LoadSum(t) ==
    /\ pc[t] = "add"
    /\ StoresSum(t)
    /\ cur' = [cur EXCEPT ![t].value = counter_map[This(t)][cur[t].name] + @]
    /\ Goto(t, "store")
    /\ UNCHANGED <<counterVars, child, lock, call, todo, calls>>

StoreSum(t) ==
    /\ pc[t] = "store"
    /\ counter_map' = [counter_map EXCEPT ![This(t)][cur[t].name] = cur[t].value]
    /\ Goto(t, "merge")
    /\ UNCHANGED <<child_counter_map, updates, child, lock, call, todo, cur, calls>>

\* The copy adds the counter if it is not there and sets its value.
Set(t) ==
    LET n == cur[t].name IN
    /\ pc[t] = "set"
    /\ child_counter_map' = [child_counter_map EXCEPT ![This(t)] =
                               IF n \in DOMAIN counter_map[This(t)] THEN @ ELSE Linked(@, n)]
    /\ counter_map' = [counter_map EXCEPT ![This(t)] = Put(@, n, cur[t].value)]
    /\ Goto(t, "copy")
    /\ UNCHANGED <<updates, child, lock, call, todo, cur, calls>>

CopyEnds(t) ==
    /\ pc[t] = "copy" /\ todo[t] = {}
    /\ EndCall(t)
    /\ cur' = [cur EXCEPT ![t] = NoCounter]
    /\ UNCHANGED <<counterVars, child, todo, calls>>

\* After the counters merge adds the links and releases the counter locks.
MergeLinks(t) ==
    LET ours == child_counter_map[This(t)]
        theirs == child_counter_map[Src(t)]
    IN  /\ pc[t] = "merge" /\ todo[t] = {}
        /\ child_counter_map' = [child_counter_map EXCEPT ![This(t)] =
              [m \in DOMAIN ours \cup DOMAIN theirs |-> Find(ours, m) \cup Find(theirs, m)]]
        /\ lock' = [lock EXCEPT ![This(t)]["counter"] = Nil, ![Src(t)]["counter"] = Nil]
        /\ cur' = [cur EXCEPT ![t] = NoCounter]
        /\ Goto(t, "children1")
        /\ UNCHANGED <<counter_map, updates, child, call, todo, calls>>

LockChildren(t) ==
    /\ \/ pc[t] = "children1" /\ Take(t, This(t), "children") /\ Goto(t, "children2")
       \/ pc[t] = "children2" /\ Take(t, Src(t), "children") /\ Goto(t, "children")
    /\ UNCHANGED <<counterVars, child, call, todo, cur, calls>>

\* With both children locks held, merge goes on with the child of the source
\* and ours of that name, which it creates when it is not there.
MergeChild(t) ==
    /\ pc[t] = "children"
    /\ child[Src(t)] # Nil
    /\ LET c == IF child[This(t)] = Nil THEN NewProfile ELSE child[This(t)] IN
         /\ child' = [child EXCEPT ![This(t)] = c]
         /\ call' = [call EXCEPT ![t].this = c, ![t].src = child[Src(t)]]
    /\ Goto(t, "first")
    /\ UNCHANGED <<counterVars, lock, todo, cur, calls>>

MergeEnds(t) ==
    /\ pc[t] = "children"
    /\ child[Src(t)] = Nil
    /\ EndCall(t)
    /\ UNCHANGED <<counterVars, child, todo, cur, calls>>

Step(t) ==
    \/ LockFirst(t) \/ LockSecond(t) \/ Load(t) \/ Add(t) \/ LoadSum(t) \/ StoreSum(t)
    \/ Set(t) \/ CopyEnds(t) \/ MergeLinks(t) \/ LockChildren(t) \/ MergeChild(t) \/ MergeEnds(t)

Next ==
    \/ \E p \in InUse :
         \/ \E n \in Name : AddCounter(p, n) \/ Update(p, n) \/ RemoveCounter(p, n)
         \/ \E saved_names \in SUBSET Name : RemoveCounters(p, saved_names)
         \/ CreateChild(p) \/ RemoveChilds(p)
    \/ \E t \in Thread : (Step(t) \/ \E c \in Calls : BeginCall(t, c)) /\ UNCHANGED ops

Spec == Init /\ [][Next]_vars

\* A thread inside a call goes on when it can: the operating system schedules
\* every thread.  (Nothing is asked of the mutexes: calls are finitely many.)
FairSpec == Spec /\ \A t \in Thread : WF_vars(Step(t) /\ UNCHANGED ops)

-----------------------------------------------------------------------------
TypeOK ==
    /\ \A p \in Profile :
         /\ DOMAIN counter_map[p] \subseteq Name
         /\ \A n \in DOMAIN counter_map[p] : counter_map[p][n] \in Nat
         /\ DOMAIN child_counter_map[p] \subseteq Name \cup {ROOT}
    /\ child \in [Profile -> Profile \cup {Nil}]
    /\ lock \in [Profile -> [LockKind -> Thread \cup {Nil}]]

\* While nobody holds the counter lock of a profile, the two maps of its counters
\* (runtime_profile.h) describe one tree: every counter but TotalTime hangs
\* under its parent, which is there, and every link leads to a counter.
\* pretty_print and copy_all_counters_from follow the links and use the counter
\* they lead to without looking whether there is one.
CountersLinked ==
    \A p \in Profile : lock[p]["counter"] = Nil =>
      /\ \A n \in DOMAIN counter_map[p] \ {TotalTime} :
           /\ n \in Find(child_counter_map[p], ParentOf[n])
           /\ ParentOf[n] \in DOMAIN counter_map[p] \cup {ROOT}
      /\ \A m \in DOMAIN child_counter_map[p] :
           /\ child_counter_map[p][m] \subseteq {n \in DOMAIN counter_map[p] : ParentOf[n] = m}
           /\ m \in DOMAIN counter_map[p] \cup {ROOT}

\* The profiles copy_all_counters_from writes to.
CopyTargets == {c.this : c \in {d \in Calls : d.op = "copy_all_counters_from"}}

\* No update an owner made is lost to a merge: a counter shows at least all of
\* them, although owners update it without a lock (Counter::update is a
\* fetch_add) while merge reads it or adds to it, and also when it is removed
\* and created anew.  Two kinds of counter are set apart, since for them it is
\* false: those of type DOUBLE_VALUE, to which merge adds with a load and a
\* store, and those of a profile that counters are copied to, where set()
\* replaces whatever was counted there.
NoUpdateLost ==
    \A p \in Profile \ CopyTargets : \A n \in DOMAIN counter_map[p] \ Double :
      counter_map[p][n] >= updates[p][n]

\* The same of all counters: not so, for the two reasons above.
EveryUpdateKept ==
    \A p \in Profile : \A n \in DOMAIN counter_map[p] : counter_map[p][n] >= updates[p][n]

\* Calls that take the locks of two profiles return: no two threads wait for
\* each other's locks, the locks of the children included.
CallsReturn == \A t \in Thread : pc[t] # "idle" ~> pc[t] = "idle"
=============================================================================
