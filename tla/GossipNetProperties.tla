------------------------- MODULE GossipNetProperties -------------------------
(***************************************************************************)
(* What the membership state of a process has to satisfy.                  *)
(***************************************************************************)
EXTENDS GossipNet, SequencesExt

\* The state has its types, and a call its shape: the locals of _build_rumors
\* are empty outside it, update's loop does not run inside it, and the number
\* of members it wants, a size_t, never wraps (the assertion gossip_net.cpp:172).
TypeOK ==
  /\ members \in [Id -> Node \cup {None}]
  /\ order \in Seq(Id)
  /\ iter \in Id \cup {End}
  /\ recent \in [Id -> Recent!Entry \cup {None}]
  /\ todo \in Seq(Node)
  /\ building \in BOOLEAN
  /\ fresh \subseteq Node
  /\ stable \subseteq Node
  /\ IF building THEN todo = << >> ELSE fresh = {} /\ stable = {}
  /\ Wanted \in Nat

\* The places an entry about a member can be in.
InMembers(id) == members[id] # None
InRecent(id)  == recent[id] # None
InStable(id)  == \E node \in stable : node.id = id

\* A member is recorded in one place at a time, under its own id: among the
\* stable members, the recently updated ones or, inside _build_rumors, on the
\* way from the latter to the former.  MemberSet::add asserts the half of it
\* that it can see (member_set.cpp:55), and max_spreaded_num counts each member
\* once on the strength of it.
OnePlace ==
  /\ \A id \in Id :
       /\ InMembers(id) => members[id].id = id /\ ~InRecent(id) /\ ~InStable(id)
       /\ InRecent(id) => recent[id].node.id = id /\ ~InStable(id)
  /\ \A a, b \in stable : a.id = b.id => a = b

\* The stable members are alive or suspected (gossip_net.h:79): FAILED ones
\* are spread and then dropped, never kept as filler for later messages.
StableNotFailed ==
  /\ \A id \in Id : InMembers(id) => members[id].status # Failed
  /\ \A node \in stable : node.status # Failed

\* The iteration order lists the stable members, once each, and the iterator
\* denotes one of them or the end: no operation leaves it on an erased node.
IteratorValid ==
  /\ ToSet(order) = Members!MemberIds
  /\ \A i, j \in DOMAIN order : order[i] = order[j] => i = j
  /\ iter # End => InMembers(iter)

\* What a step needs of the state to keep all of these, and so the inductive
\* invariant: erasing needs the erased id to have a position, and FAILED and
\* doubly recorded members are to be kept out of the way from one set to the
\* other as well.
IInv == TypeOK /\ OnePlace /\ StableNotFailed /\ IteratorValid

\* The belief about a member, wherever it is recorded.
View ==
  [id \in Id |->
     IF InMembers(id) THEN members[id]
     ELSE IF InRecent(id) THEN recent[id].node
     ELSE IF InStable(id) THEN CHOOSE node \in stable : node.id = id
     ELSE None]

\* Moving entries between the two sets loses no member that has not FAILED and
\* never brings back an older belief, in the middle of a call as after it.
Abstract == INSTANCE Membership WITH view <- View
ImplementsMembership == Abstract!Spec

Known == {id \in Id : View[id] # None}

\* A message names each member once, says of it what the process believes, and
\* carries as many rumors as fit: a new one and a stable one never compete for
\* room while there is some, and a member that has just become stable can fill
\* the message that made it so.
MessageSound ==
  (sent # None /\ Idle) =>
    LET filler == ToSet(sent.filler)
        rumors == sent.fresh \cup filler
    IN  /\ \A node \in rumors : View[node.id] = node
        /\ Cardinality(sent.fresh) + Len(sent.filler) = Cardinality(rumors)
        /\ Cardinality(rumors) =
             IF Cardinality(Known) < MaxRumorNum THEN Cardinality(Known) ELSE MaxRumorNum

\* What MemberSet::_fetch asserts whenever _build_rumors calls it
\* (member_set.cpp:83).  It does not hold: fetch passes it num = size too, and a
\* build with assertions aborts on the first message that wants exactly as many
\* members as there are stable ones.
FetchAssertion == building /\ stable = {} => Members!FetchAsserted(Wanted)
==============================================================================
