------------------------------ MODULE MemberSet ------------------------------
(***************************************************************************)
(* class MemberSet: the stable members, an unordered_map from id to Node,  *)
(* and the persistent iterator _iter from which _fetch hands out members   *)
(* round robin to fill messages.                                           *)
(*                                                                         *)
(* The map is members (None where an id is absent) and its iteration order *)
(* is order.  An insertion puts the new element anywhere, and one that     *)
(* makes the table grow rehashes it, which may rearrange every element: so *)
(* Add allows every arrangement.  The iterator is kept across insertions   *)
(* and, as in every node-based unordered_map, still denotes its element    *)
(* after a rehash: it is an id, or End for _members.end().                 *)
(***************************************************************************)
EXTENDS NodeOrder, Sequences, SequencesExt

CONSTANTS None,     \* no entry for an id
          End       \* _members.end()

ASSUME MemberSetAssumption == None \notin Node /\ End \notin Id

VARIABLES members, order, iter

MemberIds == {id \in Id : members[id] # None}

Init ==
  /\ members = [id \in Id |-> None]
  /\ order = << >>
  /\ iter = End

\* The element after the one at position i of the iteration order.
After(i) == IF i = Len(order) THEN End ELSE order[i + 1]

Position(id) == CHOOSE i \in DOMAIN order : order[i] = id

------------------------------------------------------------------------------
\* Mutant: the iterator stays where it was.
IterAfterEraseDangling(id) == iter

\* Mutant: erasing under the iterator starts the round robin again.
IterAfterEraseReset(id) == IF iter = id THEN End ELSE iter

\* erase returns the next element, and _iter takes it if it was on the erased
\* one.
IterAfterErase(id) == IF iter = id THEN After(Position(id)) ELSE iter

\* try_update returns the node (true) when the caller has to record it as
\* recently updated, nothing (false) when it is no news.
Adopts(node) ==
  members[node.id] # None => Older(members[node.id], node)

\* Mutant: the member is not removed from the stable ones.
TryUpdateKeeps(node) == UNCHANGED <<members, order, iter>>

TryUpdate(node) ==
  IF members[node.id] # None /\ Older(members[node.id], node)
  THEN /\ members' = [members EXCEPT ![node.id] = None]
       /\ order' = RemoveAt(order, Position(node.id))
       /\ iter' = IterAfterErase(node.id)
  ELSE UNCHANGED <<members, order, iter>>

\* add asserts that the id is absent; emplace would keep the present entry.
AddAsserted(node) == members[node.id] = None

Add(node) ==
  IF members[node.id] = None
  THEN /\ members' = [members EXCEPT ![node.id] = node]
       /\ order' \in SetToSeqs(ToSet(order) \cup {node.id})
       /\ iter' = iter
  ELSE UNCHANGED <<members, order, iter>>

\* fetch(num) asserts num < size unless it takes all (num > size) or none.
FetchAsserted(num) == num = 0 \/ num # Len(order)

\* Mutant: past the end, the walk sticks to the first element.
FetchPositionStuck(k) ==
  LET start == IF iter = End THEN 1 ELSE Position(iter)
  IN  IF start + k - 1 > Len(order) THEN 1 ELSE start + k - 1

\* The position of the k-th element _fetch hands out: it starts at _iter and
\* goes back to begin() each time it meets end().
FetchPosition(k) ==
  LET start == IF iter = End THEN 1 ELSE Position(iter)
  IN  ((start + k - 2) % Len(order)) + 1

\* The nodes fetch(num) returns, in order.
Fetched(num) ==
  IF num > Len(order)
  THEN [k \in 1 .. Len(order) |-> members[order[k]]]
  ELSE [k \in 1 .. num |-> members[order[FetchPosition(k)]]]

Fetch(num) ==
  /\ iter' = IF num > Len(order) \/ num = 0
             THEN iter
             ELSE After(FetchPosition(num))
  /\ UNCHANGED <<members, order>>
==============================================================================
