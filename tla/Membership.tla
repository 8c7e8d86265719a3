------------------------------ MODULE Membership ------------------------------
(***************************************************************************)
(* What the membership state of one process promises, wherever it keeps an *)
(* entry: its belief about a member only ever changes for news, and only a *)
(* member it believes to have FAILED is ever forgotten.                    *)
(***************************************************************************)
EXTENDS NodeOrder

CONSTANT None

VARIABLE view       \* the belief about each member, None if it is unknown

Init == view = [id \in Id |-> None]

Learn(node) ==
  /\ view[node.id] # None => Older(view[node.id], node)
  /\ view' = [view EXCEPT ![node.id] = node]

\* Some of the members believed to have FAILED are forgotten.
Forget ==
  \E ids \in SUBSET {id \in Id : view[id] # None /\ view[id].status = Failed} :
    view' = [id \in Id |-> IF id \in ids THEN None ELSE view[id]]

Next == (\E node \in Node : Learn(node)) \/ Forget

Spec == Init /\ [][Next]_view
==============================================================================
