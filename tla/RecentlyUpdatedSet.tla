------------------------- MODULE RecentlyUpdatedSet --------------------------
(***************************************************************************)
(* class RecentlyUpdatedSet: the members whose state changed recently,     *)
(* each with the number of messages that have carried the news.  fetch is  *)
(* specified by its outcome here; RecentlyUpdatedFetch models its loops    *)
(* and shows that they implement it.                                       *)
(***************************************************************************)
EXTENDS NodeOrder, FiniteSets, FiniteSetsExt

CONSTANT None

VARIABLES recent,   \* _members: None or the node with its counter, for each id
          fresh,    \* the nodes the last fetch returned for spreading
          stable    \* the nodes it returned as stable

Entry == [node : Node, counter : Nat]

RecentIds == {id \in Id : recent[id] # None}

Init ==
  /\ recent = [id \in Id |-> None]
  /\ fresh = {}
  /\ stable = {}

\* Mutant: what is heard last is believed.
AddAlways(node) ==
  /\ recent' = [recent EXCEPT ![node.id] = [node |-> node, counter |-> 0]]
  /\ UNCHANGED <<fresh, stable>>

\* News resets the counter; anything else about a present id is ignored.
Add(node) ==
  LET entry == recent[node.id]
  IN  /\ recent' = IF entry = None \/ Older(entry.node, node)
                   THEN [recent EXCEPT ![node.id] = [node |-> node, counter |-> 0]]
                   ELSE recent
      /\ UNCHANGED <<fresh, stable>>

\* Mutant: one message too few.
UnderspreadEarly(max) == {id \in RecentIds : recent[id].counter + 1 < max}

\* The ids that have not been spread max times yet.
Underspread(max) == {id \in RecentIds : recent[id].counter < max}

\* Mutant: one node more than was asked for.
PicksOneMore(n, max) ==
  IF Cardinality(Underspread(max)) < n + 1
  THEN {Underspread(max)} ELSE kSubset(n + 1, Underspread(max))

\* fetch(n, max) hands out n of the underspread nodes, those spread least
\* first with ties broken by the hash table, or all of them if fewer.
Picks(n, max) ==
  IF Cardinality(Underspread(max)) < n
  THEN {Underspread(max)}
  ELSE {ids \in kSubset(n, Underspread(max)) :
          \A i \in ids, j \in Underspread(max) \ ids :
            recent[i].counter <= recent[j].counter}

\* Only a fetch that runs out of underspread nodes reaches the others: it
\* removes them all.
Retired(n, max) ==
  IF Cardinality(Underspread(max)) < n THEN RecentIds \ Underspread(max) ELSE {}

\* Mutant: FAILED nodes are made stable too.
StableNodesAll(gone) == {recent[id].node : id \in gone}

\* The FAILED among the removed nodes are dropped, the rest are stable.
StableNodes(gone) == {node \in {recent[id].node : id \in gone} : node.status # Failed}

\* Mutant: the message is not counted.
SpreadUncounted(entry) == entry

\* One more message carries the node.
Spread(entry) == [entry EXCEPT !.counter = @ + 1]

Fetch(n, max) ==
  \E picked \in Picks(n, max) :
    LET gone == Retired(n, max)
    IN  /\ fresh' = {recent[id].node : id \in picked}
        /\ stable' = StableNodes(gone)
        /\ recent' = [id \in Id |->
                        CASE id \in gone   -> None
                          [] id \in picked -> Spread(recent[id])
                          [] OTHER         -> recent[id]]
==============================================================================
