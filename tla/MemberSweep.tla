----------------------------- MODULE MemberSweep -----------------------------
(***************************************************************************)
(* MemberSet on its own, driven by any sequence of calls its assertions    *)
(* allow, with a history variable for the round robin of _fetch: owed are  *)
(* the members that were there when _iter last left begin() and that       *)
(* _fetch has not handed out since.                                        *)
(***************************************************************************)
EXTENDS MemberSet

CONSTANT MaxFetch       \* largest num that fetch is called with

VARIABLE owed

vars == <<members, order, iter, owed>>

SweepInit == Init /\ owed = {}

Handed(j, k) == {order[FetchPosition(i)] : i \in j .. k}

\* The iterations of _fetch(num) that start again from begin().
Wraps(num) ==
  {k \in 1 .. num : IF k = 1 THEN iter = End ELSE FetchPosition(k) = 1}

Updated(node) ==
  /\ TryUpdate(node)
  /\ owed' = {id \in owed : members'[id] # None}

\* A member added during a sweep is owed nothing yet.  A rehash rearranges the
\* elements under the iterator: nobody can be promised a turn in this sweep.
Added(node) ==
  /\ AddAsserted(node)
  /\ Add(node)
  /\ owed' = IF \E i \in DOMAIN order' : RemoveAt(order', i) = order THEN owed ELSE {}

Fetches(num) ==
  /\ FetchAsserted(num)
  /\ Fetch(num)
  /\ owed' = IF num = 0 \/ num > Len(order) THEN owed
             ELSE IF Wraps(num) = {} THEN owed \ Handed(1, num)
             ELSE MemberIds \ Handed(Max(Wraps(num)), num)

Next ==
  \/ \E node \in Node : Updated(node)
  \/ \E node \in Node : node.status # Failed /\ Added(node)
  \/ \E num \in 0 .. MaxFetch : Fetches(num)

Spec == SweepInit /\ [][Next]_vars

------------------------------------------------------------------------------
TypeOK ==
  /\ members \in [Id -> Node \cup {None}]
  /\ order \in SetToSeqs(MemberIds)
  /\ iter \in MemberIds \cup {End}
  /\ owed \subseteq MemberIds

\* The round robin is fair: _iter does not go back to begin() before every
\* member that was there when it last did, and still is, has been handed out,
\* whatever was erased (the iterator's own element included) or inserted
\* meanwhile without a rehash.
SweepComplete ==
  [][\A num \in 1 .. Len(order), id \in owed :
       Fetches(num) /\ Wraps(num) # {} => id \in Handed(1, Max(Wraps(num)) - 1)]_vars

\* No member is handed out twice for one message, however the walk wraps.
FetchedOnce ==
  \A num \in 1 .. Len(order) : Cardinality(ToSet(Fetched(num))) = num
==============================================================================
