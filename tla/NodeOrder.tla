------------------------------ MODULE NodeOrder ------------------------------
(***************************************************************************)
(* What a process believes about one member (struct Node), and the order   *)
(* operator< that decides which of two beliefs about the same member wins. *)
(* A node's ip and port ride along with the record and are compared        *)
(* nowhere, so they are left out.                                          *)
(***************************************************************************)
EXTENDS Naturals

CONSTANTS Id,       \* member ids
          Version   \* the values of Node::version that occur (uint64_t)

ASSUME VersionAssumption == Version \subseteq Nat

Alive     == "ALIVE"
Suspected == "SUSPECTED"
Failed    == "FAILED"

Node == [id : Id, version : Version, status : {Alive, Suspected, Failed}]

\* lhs < rhs: rhs is news about the member that lhs describes.
Older(lhs, rhs) ==
  \/ /\ rhs.status = Alive
     /\ rhs.version > lhs.version
     /\ lhs.status \in {Suspected, Alive}
  \/ /\ rhs.status = Suspected
     /\ \/ lhs.status = Suspected /\ rhs.version > lhs.version
        \/ lhs.status = Alive /\ rhs.version >= lhs.version
  \/ /\ rhs.status = Failed
     /\ lhs.status \in {Alive, Suspected}
==============================================================================
