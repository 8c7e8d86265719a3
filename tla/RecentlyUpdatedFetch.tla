------------------------- MODULE RecentlyUpdatedFetch ------------------------
(***************************************************************************)
(* RecentlyUpdatedSet::fetch loop by loop: _fetch_all walks the hash table *)
(* and removes as it goes, _fetch takes the least spread member from a     *)
(* priority queue of iterators whose counters it changes under the queue.  *)
(* The abstract set of RecentlyUpdatedSet is shown to be implemented: each *)
(* call as a whole is one step of it.                                      *)
(***************************************************************************)
EXTENDS NodeOrder, FiniteSets

CONSTANTS None,
          Sizes,        \* the values of n that fetch is called with
          Limits        \* and of max_spreaded_num

ASSUME FetchAssumption ==
  /\ None \notin Node /\ None \notin [node : Node, counter : Nat]
  /\ Sizes \subseteq Nat /\ Limits \subseteq Nat

VARIABLES
  recent,               \* _members
  mode,                 \* the loop being run: "none", "fetch_all" or "fetch"
  left,                 \* the ids not visited yet: the queue's, the walk's
  n, max,               \* arguments of the call
  recent_nodes, stable_nodes,
  fresh, stable,        \* what the last call returned
  before                \* history: _members when the call began

locals == <<left, n, max, recent_nodes, stable_nodes, before>>
vars == <<recent, mode, locals, fresh, stable>>

RecentIds == {id \in Id : recent[id] # None}

Init ==
  /\ recent = [id \in Id |-> None]
  /\ mode = "none"
  /\ left = {} /\ n = 0 /\ max = 0
  /\ recent_nodes = {} /\ stable_nodes = {}
  /\ fresh = {} /\ stable = {}
  /\ before = recent

Add(node) ==
  /\ mode = "none"
  /\ LET entry == recent[node.id]
     IN  /\ entry # None => Older(entry.node, node)
         /\ recent' = [recent EXCEPT ![node.id] = [node |-> node, counter |-> 0]]
  /\ UNCHANGED <<mode, locals, fresh, stable>>

\* fetch: n = 0 visits nothing, n >= size() everything, else _fetch's queue.
Fetch(num, limit) ==
  /\ mode = "none"
  /\ n' = num /\ max' = limit
  /\ mode' = IF num >= Cardinality(RecentIds) THEN "fetch_all" ELSE "fetch"
  /\ left' = IF num = 0 THEN {} ELSE RecentIds
  /\ recent_nodes' = {} /\ stable_nodes' = {}
  /\ before' = recent
  /\ UNCHANGED <<recent, fresh, stable>>

\* Mutant: a queue that is not ordered by the counters.
IsNextAny(id) == id \in left

\* The element the loop looks at: any for the walk, for the queue a top of the
\* heap, which pop_heap compares by the counters of the elements left in it.
IsNext(id) ==
  /\ id \in left
  /\ mode = "fetch" => \A other \in left : recent[id].counter <= recent[other].counter

\* Mutant: the erased element is not popped.
RetireUnpopped(id) ==
  /\ mode # "none" /\ IsNext(id)
  /\ recent[id].counter + 1 > max
  /\ stable_nodes' = stable_nodes \cup
       {node \in {recent[id].node} : node.status # Failed}
  /\ recent' = [recent EXCEPT ![id] = None]
  /\ UNCHANGED <<mode, left, n, max, recent_nodes, before, fresh, stable>>

\* The member has been spread max times: it leaves the set.
Retire(id) ==
  /\ mode # "none" /\ IsNext(id)
  /\ recent[id].counter + 1 > max
  /\ stable_nodes' = stable_nodes \cup
       {node \in {recent[id].node} : node.status # Failed}
  /\ recent' = [recent EXCEPT ![id] = None]
  /\ left' = left \ {id}
  /\ UNCHANGED <<mode, n, max, recent_nodes, before, fresh, stable>>

\* It has not: it is handed out once more.  _fetch breaks off at the n-th.
HandOut(id) ==
  /\ mode # "none" /\ IsNext(id)
  /\ recent[id].counter + 1 <= max
  /\ recent_nodes' = recent_nodes \cup {recent[id].node}
  /\ recent' = [recent EXCEPT ![id].counter = @ + 1]
  /\ left' = IF mode = "fetch" /\ Cardinality(recent_nodes') = n THEN {} ELSE left \ {id}
  /\ UNCHANGED <<mode, n, max, stable_nodes, before, fresh, stable>>

Return ==
  /\ mode # "none" /\ left = {}
  /\ fresh' = recent_nodes /\ stable' = stable_nodes
  /\ mode' = "none"
  /\ UNCHANGED <<recent, locals>>

Next ==
  \/ \E node \in Node : Add(node)
  \/ \E num \in Sizes, limit \in Limits : Fetch(num, limit)
  \/ \E id \in Id : Retire(id) \/ HandOut(id)
  \/ Return

Spec == Init /\ [][Next]_vars

------------------------------------------------------------------------------
\* No iterator that is still to be visited denotes an erased element.
TypeOK ==
  /\ recent \in [Id -> [node : Node, counter : Nat] \cup {None}]
  /\ before \in [Id -> [node : Node, counter : Nat] \cup {None}]
  /\ mode \in {"none", "fetch_all", "fetch"}
  /\ left \subseteq RecentIds
  /\ n \in Nat /\ max \in Nat
  /\ recent_nodes \subseteq Node /\ stable_nodes \subseteq Node
  /\ fresh \subseteq Node /\ stable \subseteq Node

\* A call of fetch, however its loop runs, hands out the members that have been
\* spread least and removes the others exactly when it runs out of those: it is
\* one step of the abstract set, taken when it returns, with its own arguments.
\* What add does to the set is a step of the abstract set as well.
AtomicRecent == IF mode = "none" THEN recent ELSE before

Abstract == INSTANCE RecentlyUpdatedSet WITH recent <- AtomicRecent

AbstractNext ==
  \/ \E node \in Node : Abstract!Add(node)
  \/ Abstract!Fetch(n, max)

ImplementsSet ==
  Abstract!Init /\ [][AbstractNext]_<<AtomicRecent, fresh, stable>>

\* "Also returns members that already been spreaded at least max_spreaded_num
\* times, i.e. the stable nodes" (recently_updated_set.h:33).  It does not hold,
\* even of the members that have not FAILED: as long as there are n others to
\* spread, _fetch breaks off before it comes to them.
ReturnsSpreaded ==
  [][Return /\ n > 0 => \A id \in Id :
       before[id] # None =>
         \/ before[id].counter < max
         \/ before[id].node.status = Failed
         \/ before[id].node \in stable']_vars
==============================================================================
