---------------------- MODULE RecentlyUpdatedFetchProofs ----------------------
(***************************************************************************)
(* Proofs that the two loops of RecentlyUpdatedSet::fetch implement the    *)
(* fetch that RecentlyUpdatedSet specifies, for every set of members,      *)
(* message size and limit, and whatever order the hash table gives.        *)
(***************************************************************************)
EXTENDS RecentlyUpdatedFetch, FiniteSetTheorems, TLAPS

Entry == [node : Node, counter : Nat]

\* What was in the set when the call began, and what its loop has done to it.
Known  == {id \in Id : before[id] # None}
Handed == {id \in Known : recent[id] # None /\ recent[id] # before[id]}
Gone   == {id \in Known : recent[id] = None}

\* Members are filed under their own ids, and there are finitely many.
Filed ==
  /\ \A id \in Id : recent[id] # None => recent[id].node.id = id
  /\ \A id \in Id : before[id] # None => before[id].node.id = id
  /\ IsFiniteSet(RecentIds) /\ IsFiniteSet(Known)

\* Every member is untouched, handed out or gone, as its counter has it; the
\* members left to visit are untouched, and the results are those of the others.
Visited ==
  /\ \A id \in Id :
       \/ recent[id] = before[id]
       \/ /\ id \in Known
          /\ before[id].counter + 1 <= max
          /\ recent[id] = [node |-> before[id].node, counter |-> before[id].counter + 1]
       \/ /\ id \in Known
          /\ before[id].counter + 1 > max
          /\ recent[id] = None
  /\ \A id \in left : id \in Known /\ recent[id] = before[id]
  /\ recent_nodes = {before[id].node : id \in Handed}
  /\ stable_nodes = {node \in {before[id].node : id \in Gone} : node.status # Failed}

\* Nothing is handed out before what has been spread less, ids included.
Ordered(ids) == \A i \in Handed, j \in ids : before[i].counter <= before[j].counter

\* The queue's loop: once a member is gone, nothing is left to hand out.
Running ==
  /\ Cardinality(Handed) < n
  /\ Known = Handed \cup Gone \cup left
  /\ Ordered(left)
  /\ Gone # {} => \A id \in left : before[id].counter + 1 > max

\* It has broken off: the members it has not come to are as they were.
BrokenOff ==
  /\ Cardinality(Handed) = n
  /\ Gone = {} /\ left = {}
  /\ Ordered(Known \ Handed)

LoopInv ==
  /\ mode # "none" => Visited
  /\ mode = "fetch_all" => Known = Handed \cup Gone \cup left /\ Cardinality(Known) <= n
  /\ mode = "fetch" => Running \/ BrokenOff

IInv == TypeOK /\ Filed /\ LoopInv
------------------------------------------------------------------------------
(* Lemmas about what a call has done so far.                               *)

\* Members have different nodes: there are as many of the one as of the other.
LEMMA NodesCount ==
  ASSUME Filed, NEW ids \in SUBSET Known
  PROVE  /\ IsFiniteSet(ids) /\ Cardinality(ids) \in Nat
         /\ Cardinality({before[id].node : id \in ids}) = Cardinality(ids)
<1>1. IsFiniteSet(ids) /\ Cardinality(ids) \in Nat
  BY FS_Subset, FS_CardinalityType DEF Filed
<1> DEFINE nodes == {before[id].node : id \in ids}
           f == [id \in ids |-> before[id].node]
<1>2. f \in Surjection(ids, nodes)
  BY DEF Surjection
<1>3. \A i, j \in ids : f[i] = f[j] => i = j
  BY DEF Filed, Known
<1>4. f \in Injection(ids, nodes)
  BY <1>3 DEF Injection, IsInjective
<1> HIDE DEF f, nodes
<1>5. Cardinality(nodes) = Cardinality(ids)
  BY <1>1, <1>2, <1>4, FS_Surjection
<1> QED BY <1>1, <1>5 DEF nodes

\* A handed out member is told from an untouched one by its counter, and both
\* from one that is gone.
LEMMA Sorted ==
  ASSUME TypeOK, Visited
  PROVE  /\ \A id \in Known : before[id] \in Entry
         /\ \A id \in Handed : before[id].counter + 1 <= max
         /\ \A id \in Gone : before[id].counter + 1 > max
         /\ Handed \cap Gone = {} /\ left \cap Handed = {} /\ left \cap Gone = {}
         /\ Handed \subseteq Known /\ Gone \subseteq Known /\ left \subseteq Known
<1>1. ASSUME NEW id \in Known
      PROVE  before[id] \in Entry /\ before[id] # None
  BY FetchAssumption DEF Known, TypeOK, Entry
<1>2. ASSUME NEW id \in Handed
      PROVE  before[id].counter + 1 <= max
  BY DEF Handed, Known, Visited
<1>3. ASSUME NEW id \in Gone
      PROVE  before[id].counter + 1 > max
  <2>1. id \in Id /\ recent[id] = None /\ before[id] # None
    BY DEF Gone, Known
  <2>2. [node |-> before[id].node, counter |-> before[id].counter + 1] \in Entry
    BY <1>1, <2>1 DEF Known, Entry
  <2> QED BY <2>1, <2>2, FetchAssumption DEF Visited, Entry
<1>4. Handed \cap Gone = {} /\ Handed \subseteq Known /\ Gone \subseteq Known
  BY DEF Handed, Gone
<1>5. left \subseteq Known /\ left \cap Handed = {} /\ left \cap Gone = {}
  BY DEF Visited, Handed, Gone, Known
<1> QED BY <1>1, <1>2, <1>3, <1>4, <1>5

------------------------------------------------------------------------------
(* The inductive invariant.                                                *)

LEMMA InitInv == Init => IInv
<1> SUFFICES ASSUME Init PROVE IInv
  OBVIOUS
<1>1. TypeOK
  BY DEF Init, TypeOK, RecentIds
<1>2. RecentIds = {} /\ Known = {}
  BY DEF Init, RecentIds, Known
<1>3. Filed
  BY <1>2, FS_EmptySet DEF Init, Filed
<1> QED BY <1>1, <1>3 DEF IInv, LoopInv, Init

LEMMA AddInv ==
  ASSUME IInv, NEW node \in Node, Add(node)
  PROVE  IInv'
<1>1. node.id \in Id /\ [node |-> node, counter |-> 0] \in Entry
  BY DEF Node, Entry
<1>2. /\ mode = "none" /\ UNCHANGED <<mode, locals, fresh, stable>>
      /\ recent' = [recent EXCEPT ![node.id] = [node |-> node, counter |-> 0]]
  BY DEF Add
<1>3. \A id \in Id : recent'[id] = IF id = node.id THEN [node |-> node, counter |-> 0]
                                  ELSE recent[id]
  BY <1>1, <1>2 DEF IInv, TypeOK
<1>4. RecentIds' = RecentIds \cup {node.id}
  BY <1>1, <1>3, FetchAssumption DEF RecentIds, Entry
<1>5. TypeOK'
  BY <1>1, <1>2, <1>4 DEF IInv, TypeOK, locals, Entry
<1>6. Filed'
  <2>1. IsFiniteSet(RecentIds')
    BY <1>4, FS_AddElement DEF IInv, Filed
  <2>2. \A id \in Id : recent'[id] # None => recent'[id].node.id = id
    BY <1>1, <1>3 DEF IInv, Filed
  <2>3. before' = before /\ Known' = Known
    BY <1>2 DEF locals, Known
  <2> QED BY <2>1, <2>2, <2>3 DEF IInv, Filed
<1> QED BY <1>2, <1>5, <1>6 DEF IInv, LoopInv

\* The call begins with everything left to visit.
LEMMA FetchInv ==
  ASSUME IInv, NEW num \in Sizes, NEW limit \in Limits, Fetch(num, limit)
  PROVE  IInv'
<1>1. /\ num \in Nat /\ limit \in Nat
      /\ n' = num /\ max' = limit
      /\ mode' = IF num >= Cardinality(RecentIds) THEN "fetch_all" ELSE "fetch"
      /\ left' = IF num = 0 THEN {} ELSE RecentIds
      /\ recent_nodes' = {} /\ stable_nodes' = {}
      /\ before' = recent
      /\ UNCHANGED <<recent, fresh, stable>>
  BY FetchAssumption DEF Fetch
<1>2. RecentIds' = RecentIds /\ Known' = RecentIds
  BY <1>1 DEF RecentIds, Known
<1>3. Handed' = {} /\ Gone' = {}
  BY <1>1 DEF Handed, Gone, Known
<1>4. TypeOK'
  BY <1>1, <1>2 DEF IInv, TypeOK
<1>5. Filed'
  BY <1>1, <1>2 DEF IInv, Filed
<1>6. Visited'
  BY <1>1, <1>2, <1>3 DEF Visited
<1>7. /\ Cardinality(RecentIds) \in Nat
      /\ Cardinality(RecentIds) = 0 => RecentIds = {}
  BY FS_EmptySet, FS_CardinalityType DEF IInv, Filed
<1>8. CASE num >= Cardinality(RecentIds)
  <2>1. left' = RecentIds
    BY <1>1, <1>7, <1>8
  <2> QED BY <1>1, <1>2, <1>3, <1>4, <1>5, <1>6, <1>8, <2>1 DEF IInv, LoopInv
<1>9. CASE ~(num >= Cardinality(RecentIds))
  <2>1. Cardinality(Handed') = 0
    BY <1>3, FS_EmptySet
  <2>2. CASE num = 0
    <3>1. BrokenOff'
      BY <1>1, <1>3, <2>1, <2>2 DEF BrokenOff, Ordered
    <3> QED BY <1>1, <1>4, <1>5, <1>6, <1>9, <3>1 DEF IInv, LoopInv
  <2>3. CASE num # 0
    <3>1. Running'
      BY <1>1, <1>2, <1>3, <2>1, <2>3 DEF Running, Ordered
    <3> QED BY <1>1, <1>4, <1>5, <1>6, <1>9, <3>1 DEF IInv, LoopInv
  <2> QED BY <2>2, <2>3
<1> QED BY <1>8, <1>9

\* A member that has been spread often enough is gone.  In the queue it had the
\* smallest counter, so that all others have been spread often enough as well.
LEMMA RetireInv ==
  ASSUME IInv, NEW id \in Id, Retire(id)
  PROVE  IInv'
<1>1. /\ mode # "none" /\ id \in left
      /\ mode = "fetch" => \A other \in left : recent[id].counter <= recent[other].counter
      /\ recent[id].counter + 1 > max
      /\ stable_nodes' = stable_nodes \cup {node \in {recent[id].node} : node.status # Failed}
      /\ recent' = [recent EXCEPT ![id] = None]
      /\ left' = left \ {id}
      /\ UNCHANGED <<mode, n, max, recent_nodes, before, fresh, stable>>
  BY DEF Retire, IsNext
<1>2. TypeOK /\ Filed /\ Visited
  BY <1>1 DEF IInv, LoopInv
<1>3. /\ id \in Known /\ recent[id] = before[id] /\ before[id] \in Entry
      /\ before[id] # None
  BY <1>1, <1>2, Sorted DEF Visited, Known
<1>4. \A i \in Id : recent'[i] = IF i = id THEN None ELSE recent[i]
  BY <1>1, <1>2 DEF TypeOK
<1>5. /\ Known' = Known /\ Handed' = Handed /\ Gone' = Gone \cup {id}
      /\ RecentIds' = RecentIds \ {id}
  BY <1>1, <1>3, <1>4 DEF Known, Handed, Gone, RecentIds
<1>6. TypeOK'
  <2>1. recent' \in [Id -> [node : Node, counter : Nat] \cup {None}]
    BY <1>1, <1>2 DEF TypeOK
  <2>2. left' \subseteq RecentIds'
    BY <1>1, <1>2, <1>5 DEF TypeOK
  <2>3. stable_nodes' \subseteq Node
    BY <1>1, <1>2, <1>3 DEF TypeOK, Entry
  <2> QED BY <1>1, <1>2, <2>1, <2>2, <2>3 DEF TypeOK
<1>7. Filed'
  <2>1. IsFiniteSet(RecentIds')
    BY <1>2, <1>5, FS_RemoveElement DEF Filed
  <2> QED BY <1>1, <1>2, <1>4, <1>5, <2>1 DEF Filed
<1>8. Visited'
  <2>1. \A i \in Id :
          \/ recent'[i] = before[i]
          \/ /\ i \in Known
             /\ before[i].counter + 1 <= max
             /\ recent'[i] = [node |-> before[i].node, counter |-> before[i].counter + 1]
          \/ /\ i \in Known
             /\ before[i].counter + 1 > max
             /\ recent'[i] = None
    BY <1>1, <1>2, <1>3, <1>4 DEF Visited
  <2>2. \A i \in left' : i \in Known /\ recent'[i] = before[i]
    BY <1>1, <1>2, <1>4 DEF Visited, Known
  <2>3. stable_nodes' = {node \in {before[i].node : i \in Gone'} : node.status # Failed}
    BY <1>1, <1>2, <1>3, <1>5 DEF Visited
  <2> QED BY <1>1, <1>2, <1>5, <2>1, <2>2, <2>3 DEF Visited
<1>9. Known = Handed \cup Gone \cup left => Known' = Handed' \cup Gone' \cup left'
  BY <1>1, <1>5
<1>10. CASE mode = "fetch_all"
  BY <1>1, <1>5, <1>6, <1>7, <1>8, <1>9, <1>10 DEF IInv, LoopInv
<1>11. CASE mode = "fetch"
  <2>1. Running
    BY <1>1, <1>11 DEF IInv, LoopInv, BrokenOff
  <2>2. \A i \in left : before[i].counter + 1 > max
    <3> SUFFICES ASSUME NEW i \in left PROVE before[i].counter + 1 > max
      OBVIOUS
    <3>1. before[id].counter <= before[i].counter
      BY <1>1, <1>2, <1>3, <1>11 DEF Visited
    <3>2. before[id].counter \in Nat /\ before[i].counter \in Nat /\ max \in Nat
      BY <1>2, <1>3, Sorted DEF Entry, TypeOK
    <3> QED BY <1>1, <1>3, <3>1, <3>2
  <2>3. Running'
    BY <1>1, <1>5, <1>9, <2>1, <2>2 DEF Running, Ordered
  <2> QED BY <1>1, <1>6, <1>7, <1>8, <1>11, <2>3 DEF IInv, LoopInv
<1> QED BY <1>1, <1>2, <1>10, <1>11 DEF TypeOK

\* A member that is handed out was the least spread one in the queue; when it is
\* the last one there is room for, the others stay as they are.
LEMMA HandOutInv ==
  ASSUME IInv, NEW id \in Id, HandOut(id)
  PROVE  IInv'
<1>1. /\ mode # "none" /\ id \in left
      /\ mode = "fetch" => \A other \in left : recent[id].counter <= recent[other].counter
      /\ recent[id].counter + 1 <= max
      /\ recent_nodes' = recent_nodes \cup {recent[id].node}
      /\ recent' = [recent EXCEPT ![id].counter = @ + 1]
      /\ left' = IF mode = "fetch" /\ Cardinality(recent_nodes') = n THEN {} ELSE left \ {id}
      /\ UNCHANGED <<mode, n, max, stable_nodes, before, fresh, stable>>
  BY DEF HandOut, IsNext
<1>2. TypeOK /\ Filed /\ Visited
  BY <1>1 DEF IInv, LoopInv
<1>3. /\ id \in Known /\ recent[id] = before[id] /\ before[id] \in Entry
      /\ before[id] # None /\ id \notin Handed /\ id \notin Gone
  BY <1>1, <1>2, Sorted DEF Visited, Known
<1>4. PICK entry \in Entry :
        /\ entry = [node |-> before[id].node, counter |-> before[id].counter + 1]
        /\ entry # None /\ entry # before[id]
  <2>1. [node |-> before[id].node, counter |-> before[id].counter + 1] \in Entry
    BY <1>3 DEF Entry
  <2>2. [node |-> before[id].node, counter |-> before[id].counter + 1] # before[id]
    BY <1>3 DEF Entry
  <2> QED BY <2>1, <2>2, FetchAssumption DEF Entry
<1>5. \A i \in Id : recent'[i] = IF i = id THEN entry ELSE recent[i]
  <2>1. [recent[id] EXCEPT !.counter = @ + 1] = entry
    BY <1>3, <1>4 DEF Entry
  <2>2. recent' = [recent EXCEPT ![id] = [recent[id] EXCEPT !.counter = @ + 1]]
    BY <1>1
  <2> QED BY <1>2, <2>1, <2>2 DEF TypeOK
<1>6. /\ Known' = Known /\ Handed' = Handed \cup {id} /\ Gone' = Gone
      /\ RecentIds' = RecentIds
  BY <1>1, <1>3, <1>4, <1>5 DEF Known, Handed, Gone, RecentIds
<1>7. TypeOK'
  <2>1. recent' \in [Id -> [node : Node, counter : Nat] \cup {None}]
    <3>1. \A i \in Id : recent'[i] \in [node : Node, counter : Nat] \cup {None}
      BY <1>2, <1>4, <1>5 DEF TypeOK, Entry
    <3> QED BY <1>1, <1>2, <3>1 DEF TypeOK
  <2>2. left' \subseteq RecentIds'
    BY <1>1, <1>2, <1>6 DEF TypeOK
  <2>3. recent_nodes' \subseteq Node
    BY <1>1, <1>2, <1>3 DEF TypeOK, Entry
  <2> QED BY <1>1, <1>2, <2>1, <2>2, <2>3 DEF TypeOK
<1>8. Filed'
  <2>1. entry.node.id = id
    BY <1>2, <1>3, <1>4 DEF Filed
  <2>2. \A i \in Id : recent'[i] # None => recent'[i].node.id = i
    BY <1>2, <1>5, <2>1 DEF Filed
  <2>3. \A i \in Id : before'[i] # None => before'[i].node.id = i
    BY <1>1, <1>2 DEF Filed
  <2>4. IsFiniteSet(RecentIds') /\ IsFiniteSet(Known')
    BY <1>2, <1>6 DEF Filed
  <2> QED BY <2>2, <2>3, <2>4 DEF Filed
<1>9. Visited'
  <2>1. \A i \in Id :
          \/ recent'[i] = before[i]
          \/ /\ i \in Known
             /\ before[i].counter + 1 <= max
             /\ recent'[i] = [node |-> before[i].node, counter |-> before[i].counter + 1]
          \/ /\ i \in Known
             /\ before[i].counter + 1 > max
             /\ recent'[i] = None
    BY <1>1, <1>2, <1>3, <1>4, <1>5 DEF Visited
  <2>2. \A i \in left' : i \in Known /\ recent'[i] = before[i]
    BY <1>1, <1>2, <1>5 DEF Visited, Known
  <2>3. recent_nodes' = {before[i].node : i \in Handed'}
    BY <1>1, <1>2, <1>3, <1>6 DEF Visited
  <2> QED BY <1>1, <1>2, <1>6, <2>1, <2>2, <2>3 DEF Visited
<1>10. CASE mode = "fetch_all"
  BY <1>1, <1>6, <1>7, <1>8, <1>9, <1>10 DEF IInv, LoopInv
<1>11. CASE mode = "fetch"
  <2>1. Running
    BY <1>1, <1>11 DEF IInv, LoopInv, BrokenOff
  <2>2. Gone = {}
    BY <1>1, <1>2, <1>3, <2>1, Sorted DEF Running, Entry, TypeOK
  <2>3. Handed' \subseteq Known /\ left \subseteq Known
    BY <1>2, <1>3, <1>6, Sorted
  <2>4. /\ Cardinality(recent_nodes') = Cardinality(Handed')
        /\ Cardinality(Handed') = Cardinality(Handed) + 1
        /\ Cardinality(Handed) \in Nat
    <3>1. /\ IsFiniteSet(Handed) /\ Cardinality(Handed) \in Nat
      BY <1>2, NodesCount, Sorted
    <3>2. Cardinality(Handed') = Cardinality(Handed) + 1
      BY <1>3, <1>6, <3>1, FS_AddElement
    <3>3. Cardinality({before[i].node : i \in Handed'}) = Cardinality(Handed')
      BY <1>2, <2>3, NodesCount
    <3>4. recent_nodes' = {before[i].node : i \in Handed'}
      BY <1>1, <1>9 DEF Visited
    <3> QED BY <3>1, <3>2, <3>3, <3>4, Zenon
  <2>5. \A i \in Handed', j \in left \ {id} : before[i].counter <= before[j].counter
    BY <1>1, <1>2, <1>3, <1>6, <1>11, <2>1 DEF Running, Ordered, Visited
  <2>6. Known = Handed' \cup (left \ {id})
    BY <1>1, <1>6, <2>1, <2>2 DEF Running
  <2>7. CASE Cardinality(Handed') = n
    <3>1. left' = {}
      BY <1>1, <1>11, <2>4, <2>7
    <3>2. BrokenOff'
      BY <1>1, <1>6, <2>2, <2>5, <2>6, <2>7, <3>1 DEF BrokenOff, Ordered
    <3> QED BY <1>1, <1>7, <1>8, <1>9, <1>11, <3>2 DEF IInv, LoopInv
  <2>8. CASE Cardinality(Handed') # n
    <3>1. left' = left \ {id}
      BY <1>1, <1>11, <2>4, <2>8
    <3>2. Cardinality(Handed') < n
      BY <1>2, <2>1, <2>4, <2>8 DEF Running, TypeOK
    <3>3. Running'
      BY <1>1, <1>6, <2>2, <2>5, <2>6, <3>1, <3>2 DEF Running, Ordered
    <3> QED BY <1>1, <1>7, <1>8, <1>9, <1>11, <3>3 DEF IInv, LoopInv
  <2> QED BY <2>7, <2>8
<1> QED BY <1>1, <1>2, <1>10, <1>11 DEF TypeOK

LEMMA ReturnInv ==
  ASSUME IInv, Return
  PROVE  IInv'
<1>1. /\ fresh' = recent_nodes /\ stable' = stable_nodes /\ mode' = "none"
      /\ UNCHANGED <<recent, locals>>
  BY DEF Return
<1>2. TypeOK'
  BY <1>1 DEF IInv, TypeOK, locals, RecentIds
<1>3. Filed'
  BY <1>1 DEF IInv, Filed, locals, RecentIds, Known
<1> QED BY <1>1, <1>2, <1>3 DEF IInv, LoopInv

LEMMA StutterInv ==
  ASSUME IInv, UNCHANGED vars
  PROVE  IInv'
BY DEF IInv, vars, locals, TypeOK, RecentIds, Filed, Known, LoopInv, Visited, Handed, Gone,
       Running, BrokenOff, Ordered

LEMMA InductiveInvariant == Spec => []IInv
<1>1. ASSUME IInv, [Next]_vars
      PROVE  IInv'
  BY <1>1, AddInv, FetchInv, RetireInv, HandOutInv, ReturnInv, StutterInv DEF Next
<1> QED BY <1>1, InitInv, PTL DEF Spec

\* The queue never holds an iterator to an element that its loop has erased.
THEOREM FetchTypes == Spec => []TypeOK
BY InductiveInvariant, PTL DEF IInv

------------------------------------------------------------------------------
(* The loops implement RecentlyUpdatedSet.                                 *)

\* What Abstract means by the names that both modules have.
LEMMA SameNames ==
  /\ \A lhs, rhs : Abstract!Older(lhs, rhs) = Older(lhs, rhs)
  /\ Abstract!Failed = Failed
  /\ \A S : Abstract!Cardinality(S) = Cardinality(S)
BY DEF Older, Abstract!Older, Alive, Suspected, Failed,
       Abstract!Alive, Abstract!Suspected, Abstract!Failed, Cardinality, Abstract!Cardinality

\* The abstract fetch begins with what was in the set when the call began.
LEMMA AbstractState ==
  ASSUME IInv, mode # "none"
  PROVE  /\ AtomicRecent = before
         /\ Abstract!RecentIds = Known
         /\ Abstract!Underspread(max) = {id \in Known : before[id].counter < max}
<1>1. AtomicRecent = before
  BY DEF AtomicRecent
<1>2. Abstract!RecentIds = Known
  BY <1>1 DEF Abstract!RecentIds, Known
<1> QED BY <1>1, <1>2 DEF Abstract!Underspread

\* When the loop is over, what it has handed out is a choice that the abstract
\* fetch may make, and what is gone is what that one retires.
LEMMA PicksHanded ==
  ASSUME IInv, mode # "none", left = {}
  PROVE  Handed \in Abstract!Picks(n, max) /\ Abstract!Retired(n, max) = Gone
<1> DEFINE underspread == {id \in Known : before[id].counter < max}
<1>1. TypeOK /\ Filed /\ Visited
  BY DEF IInv, LoopInv
<1>2. /\ \A id \in Known : before[id].counter \in Nat
      /\ Handed \subseteq Known /\ Gone \subseteq Known /\ Handed \cap Gone = {}
      /\ max \in Nat /\ n \in Nat
  BY <1>1, Sorted DEF Entry, TypeOK
<1>3. Handed \subseteq underspread /\ Gone \cap underspread = {}
  BY <1>1, <1>2, Sorted
<1>4. \A S \in SUBSET Known : IsFiniteSet(S) /\ Cardinality(S) \in Nat
  BY <1>1, NodesCount
<1>5. Cardinality(Handed) <= Cardinality(underspread)
  BY <1>2, <1>3, <1>4, FS_Subset
<1>6. Abstract!Underspread(max) = underspread /\ Abstract!RecentIds = Known
  BY AbstractState
<1>7. \A id \in Known : AtomicRecent[id] = before[id]
  BY AbstractState
<1> HIDE DEF underspread
<1>8. /\ underspread \subseteq Known
      /\ Cardinality(underspread) \in Nat /\ Cardinality(Handed) \in Nat
  BY <1>2, <1>4 DEF underspread
<1>9. Abstract!Picks(n, max) =
        IF Cardinality(underspread) < n
        THEN {underspread}
        ELSE {ids \in Abstract!kSubset(n, underspread) :
                \A i \in ids, j \in underspread \ ids :
                  AtomicRecent[i].counter <= AtomicRecent[j].counter}
  BY <1>6, SameNames DEF Abstract!Picks
<1>10. Handed \in Abstract!kSubset(n, underspread) <=> Cardinality(Handed) = n
  BY <1>3, SameNames DEF Abstract!kSubset
<1>11. Abstract!Retired(n, max) =
         IF Cardinality(underspread) < n THEN Known \ underspread ELSE {}
  BY <1>6, SameNames DEF Abstract!Retired
<1>12. Known = Handed \cup Gone => Handed = underspread /\ Gone = Known \ underspread
  BY <1>2, <1>3, <1>8
<1>13. CASE mode = "fetch_all"
  <2>1. Handed = underspread /\ Gone = Known \ underspread /\ Cardinality(Known) <= n
    BY <1>12, <1>13 DEF IInv, LoopInv
  <2>2. CASE Cardinality(underspread) < n
    BY <1>9, <1>11, <2>1, <2>2
  <2>3. CASE ~(Cardinality(underspread) < n)
    <3>1. IsFiniteSet(Known) /\ Cardinality(Known) \in Nat
      BY <1>4
    <3>2. Cardinality(underspread) <= Cardinality(Known)
      BY <1>8, <3>1, FS_Subset
    <3>3. Cardinality(underspread) = n /\ Cardinality(Known) = n
      BY <1>2, <1>8, <2>1, <2>3, <3>1, <3>2
    <3>4. underspread = Known
      BY <1>8, <3>1, <3>3, FS_Subset
    <3> QED BY <1>9, <1>10, <1>11, <2>1, <2>3, <3>3, <3>4
  <2> QED BY <2>2, <2>3
<1>14. CASE mode = "fetch" /\ Running
  <2>1. Handed = underspread /\ Gone = Known \ underspread
    BY <1>12, <1>14 DEF Running
  <2> QED BY <1>9, <1>11, <1>14, <2>1 DEF Running
<1>15. CASE mode = "fetch" /\ BrokenOff
  <2>1. Cardinality(Handed) = n /\ Gone = {} /\ Ordered(Known \ Handed)
    BY <1>15 DEF BrokenOff
  <2>2. ~(Cardinality(underspread) < n)
    BY <1>2, <1>5, <1>8, <2>1
  <2>3. \A i \in Handed, j \in underspread \ Handed :
          AtomicRecent[i].counter <= AtomicRecent[j].counter
    BY <1>2, <1>7, <1>8, <2>1 DEF Ordered
  <2> QED BY <1>9, <1>10, <1>11, <2>1, <2>2, <2>3
<1> QED BY <1>1, <1>13, <1>14, <1>15 DEF IInv, LoopInv, TypeOK

\* A call as a whole is a step of the abstract set, taken when it returns.
LEMMA ReturnFetches ==
  ASSUME IInv, Return
  PROVE  Abstract!Fetch(n, max)
<1>1. /\ mode # "none" /\ left = {} /\ mode' = "none"
      /\ fresh' = recent_nodes /\ stable' = stable_nodes /\ recent' = recent
  BY DEF Return
<1>2. TypeOK /\ Visited
  BY <1>1 DEF IInv, LoopInv
<1>3. AtomicRecent = before /\ AtomicRecent' = recent
  BY <1>1 DEF AtomicRecent
<1>4. Handed \in Abstract!Picks(n, max) /\ Abstract!Retired(n, max) = Gone
  BY <1>1, PicksHanded
<1>5. fresh' = {AtomicRecent[id].node : id \in Handed}
  BY <1>1, <1>2, <1>3 DEF Visited
<1>6. stable' = Abstract!StableNodes(Gone)
  BY <1>1, <1>2, <1>3, SameNames DEF Visited, Abstract!StableNodes
<1>7. ASSUME NEW id \in Id
      PROVE  recent[id] = CASE id \in Gone   -> None
                            [] id \in Handed -> Abstract!Spread(AtomicRecent[id])
                            [] OTHER         -> AtomicRecent[id]
  <2>1. CASE id \in Gone
    BY <1>2, <2>1, Sorted DEF Gone
  <2>2. CASE id \in Handed
    <3>1. /\ id \notin Gone /\ before[id] \in Entry
          /\ recent[id] = [node |-> before[id].node, counter |-> before[id].counter + 1]
      BY <1>2, <2>2, Sorted DEF Visited, Handed, Gone
    <3>2. Abstract!Spread(AtomicRecent[id]) = recent[id]
      BY <1>3, <3>1 DEF Abstract!Spread, Entry
    <3> QED BY <2>2, <3>1, <3>2
  <2>3. CASE id \notin Gone /\ id \notin Handed
    <3>1. recent[id] = before[id]
      BY <1>2, <2>3 DEF Visited, Gone, Handed, Known, TypeOK
    <3> QED BY <1>3, <2>3, <3>1
  <2> QED BY <2>1, <2>2, <2>3
<1>8. AtomicRecent' = [id \in Id |-> CASE id \in Gone   -> None
                                       [] id \in Handed -> Abstract!Spread(AtomicRecent[id])
                                       [] OTHER         -> AtomicRecent[id]]
  <2>1. recent = [id \in Id |-> recent[id]]
    BY <1>2 DEF TypeOK
  <2> QED BY <1>3, <1>7, <2>1
<1> QED BY <1>4, <1>5, <1>6, <1>8 DEF Abstract!Fetch

\* However the walk and the queue go through the hash table, a call hands out the
\* members that have been spread least, and removes the others exactly when it
\* runs out of those.
THEOREM FetchRefinement == Spec => ImplementsSet
<1>1. Init => Abstract!Init
  BY DEF Init, AtomicRecent, Abstract!Init
<1>2. ASSUME IInv, [Next]_vars
      PROVE  [AbstractNext]_<<AtomicRecent, fresh, stable>>
  <2>1. ASSUME NEW node \in Node, Add(node)
        PROVE  AbstractNext
    <3>1. AtomicRecent = recent /\ AtomicRecent' = recent' /\ UNCHANGED <<fresh, stable>>
      BY <2>1 DEF Add, AtomicRecent
    <3> QED BY <2>1, <3>1, SameNames DEF Add, AbstractNext, Abstract!Add
  <2>2. ASSUME NEW num \in Sizes, NEW limit \in Limits, Fetch(num, limit)
        PROVE  UNCHANGED <<AtomicRecent, fresh, stable>>
    BY <2>2 DEF Fetch, AtomicRecent
  <2>3. ASSUME NEW id \in Id, Retire(id) \/ HandOut(id)
        PROVE  UNCHANGED <<AtomicRecent, fresh, stable>>
    BY <2>3 DEF Retire, HandOut, AtomicRecent
  <2>4. CASE Return
    BY <1>2, <2>4, ReturnFetches DEF AbstractNext
  <2>5. CASE UNCHANGED vars
    BY <2>5 DEF vars, locals, AtomicRecent
  <2> QED BY <1>2, <2>1, <2>2, <2>3, <2>4, <2>5 DEF Next
<1> QED BY <1>1, <1>2, InductiveInvariant, PTL DEF Spec, ImplementsSet
==============================================================================
