--------------------------- MODULE GossipNetProofs ---------------------------
(***************************************************************************)
(* Proofs that GossipNet keeps its membership state consistent, for every  *)
(* set of members, version range, limit and build.                         *)
(***************************************************************************)
EXTENDS GossipNetHistory, FiniteSetTheorems, SequenceTheorems, TLAPS

\* For what is proved there of sequences without repetition and of the walk
\* through one.
Sweep == INSTANCE MemberSweepProofs WITH MaxFetch <- MaxRumorNum, owed <- {}

\* The part of the inductive invariant that is about MemberSet.
MembersInv ==
  /\ members \in [Id -> Node \cup {None}]
  /\ order \in Seq(Id)
  /\ iter \in Id \cup {End}
  /\ IteratorValid

------------------------------------------------------------------------------
(* Sets and sequences.                                                     *)

\* The operators of Sweep are those of this module, and its assumptions hold.
LEMMA SweepFacts ==
  /\ \A s, i : Sweep!RemoveAt(s, i) = RemoveAt(s, i)
  /\ \A s : Sweep!ToSet(s) = ToSet(s)
  /\ \A S : Sweep!IsFiniteSet(S) = IsFiniteSet(S)
  /\ \A S : Sweep!Cardinality(S) = Cardinality(S)
  /\ \A S : Sweep!SetToSeqs(S) = SetToSeqs(S)
  /\ Version \subseteq Nat /\ None \notin Sweep!Node /\ End \notin Id
<1>1. \A s, i : Sweep!RemoveAt(s, i) = RemoveAt(s, i)
  BY DEF RemoveAt, Sweep!RemoveAt
<1>2. \A s : Sweep!ToSet(s) = ToSet(s)
  BY DEF ToSet, Sweep!ToSet
<1>3. \A S : Sweep!IsFiniteSet(S) = IsFiniteSet(S)
  BY DEF IsFiniteSet, Sweep!IsFiniteSet
<1>4. \A S : Sweep!Cardinality(S) = Cardinality(S)
  BY <1>3 DEF Cardinality, Sweep!Cardinality
<1>5. \A S : Sweep!SetToSeqs(S) = SetToSeqs(S)
  BY <1>4 DEF SetToSeqs, Sweep!SetToSeqs
<1>6. Sweep!Node = Node
  BY DEF Node, Sweep!Node, Alive, Suspected, Failed,
         Sweep!Alive, Sweep!Suspected, Sweep!Failed
<1> QED BY <1>1, <1>2, <1>3, <1>4, <1>5, <1>6, GossipNetAssumption, VersionAssumption

LEMMA DisjointUnion ==
  ASSUME NEW S, NEW T, IsFiniteSet(S), IsFiniteSet(T), S \cap T = {}
  PROVE  /\ IsFiniteSet(S \cup T)
         /\ Cardinality(S \cup T) = Cardinality(S) + Cardinality(T)
<1>1. Cardinality(S) \in Nat /\ Cardinality(T) \in Nat
  BY FS_CardinalityType
<1>2. Cardinality(S \cap T) = 0
  BY FS_EmptySet
<1>3. /\ IsFiniteSet(S \cup T)
      /\ Cardinality(S \cup T) = Cardinality(S) + Cardinality(T) - Cardinality(S \cap T)
  BY FS_Union
<1> QED BY <1>1, <1>2, <1>3

------------------------------------------------------------------------------
(* Lemmas about the operations of MemberSet.                               *)

\* The two classes and the abstract view compare nodes by the same operator<.
LEMMA SameOrder ==
  \A lhs, rhs : /\ Members!Older(lhs, rhs) = Older(lhs, rhs)
                /\ Recent!Older(lhs, rhs) = Older(lhs, rhs)
                /\ Abstract!Older(lhs, rhs) = Older(lhs, rhs)
BY DEF Older, Members!Older, Recent!Older, Abstract!Older, Alive, Suspected, Failed,
       Members!Alive, Members!Suspected, Members!Failed,
       Recent!Alive, Recent!Suspected, Recent!Failed,
       Abstract!Alive, Abstract!Suspected, Abstract!Failed

\* A stable member has a position in the iteration order, and only one.
LEMMA PositionProperties ==
  ASSUME MembersInv, NEW id \in Id, InMembers(id)
  PROVE  Members!Position(id) \in 1 .. Len(order) /\ order[Members!Position(id)] = id
<1>1. id \in ToSet(order)
  BY DEF MembersInv, IteratorValid, InMembers, Members!MemberIds
<1>2. PICK i \in DOMAIN order : order[i] = id
  BY <1>1 DEF ToSet
<1>3. Members!Position(id) \in DOMAIN order /\ order[Members!Position(id)] = id
  BY <1>2 DEF Members!Position
<1> QED BY <1>3, LenProperties DEF MembersInv

\* Erasing an element, with the iterator moving on when it was on it.
LEMMA EraseStep ==
  ASSUME MembersInv, NEW id \in Id, InMembers(id), NEW p, p = Members!Position(id),
         members' = [members EXCEPT ![id] = None],
         order' = RemoveAt(order, p),
         iter' = IF iter = id THEN Members!After(p) ELSE iter
  PROVE  MembersInv'
<1>1. p \in 1 .. Len(order) /\ order[p] = id
  BY PositionProperties
<1>2. /\ order \in Seq(Id) /\ Len(order) \in Nat /\ DOMAIN order = 1 .. Len(order)
      /\ p \in Nat
  BY <1>1, LenProperties DEF MembersInv
<1>3. /\ order' \in Seq(Id)
      /\ Len(order') = Len(order) - 1
      /\ \A j \in 1 .. Len(order) - 1 :
           order'[j] = IF j < p THEN order[j] ELSE order[j + 1]
  BY <1>1, <1>2, SweepFacts, Sweep!RemoveAtProperties
<1>4. DOMAIN order' = 1 .. Len(order) - 1
  BY <1>3, LenProperties
<1>5. /\ members' \in [Id -> Node \cup {None}]
      /\ \A i \in Id : members'[i] = IF i = id THEN None ELSE members[i]
  BY DEF MembersInv
<1>6. \A i, j \in 1 .. Len(order) : order[i] = order[j] => i = j
  BY <1>2 DEF MembersInv, IteratorValid
<1>7. /\ \A i, j \in 1 .. Len(order) - 1 : order'[i] = order'[j] => i = j
      /\ ToSet(order') = ToSet(order) \ {id}
  BY <1>1, <1>2, <1>3, <1>6, SweepFacts, Sweep!EraseDistinct
<1>9. ToSet(order') = {i \in Id : members'[i] # None}
  BY <1>5, <1>7 DEF MembersInv, IteratorValid, Members!MemberIds
<1>10. iter' \in Id \cup {End} /\ (iter' # End => members'[iter'] # None)
  <2>1. CASE iter # id
    BY <2>1, <1>5 DEF MembersInv, IteratorValid, InMembers
  <2>2. CASE iter = id /\ p = Len(order)
    BY <2>2 DEF Members!After
  <2>3. CASE iter = id /\ p # Len(order)
    <3>1. p + 1 \in 1 .. Len(order) /\ iter' = order[p + 1]
      BY <2>3, <1>1, <1>2 DEF Members!After
    <3>2. order[p + 1] # id
      BY <3>1, <1>1, <1>2, <1>6
    <3>3. iter' \in Id /\ iter' \in ToSet(order) \ {id}
      BY <3>1, <3>2, <1>2 DEF ToSet
    <3> QED BY <3>3, <1>7, <1>9
  <2> QED BY <2>1, <2>2, <2>3
<1> QED
  BY <1>3, <1>4, <1>5, <1>7, <1>9, <1>10
  DEF MembersInv, IteratorValid, InMembers, Members!MemberIds

\* try_update erases a member there is news about, and nothing else.
LEMMA TryUpdateStep ==
  ASSUME MembersInv, NEW node \in Node, Members!TryUpdate(node)
  PROVE  /\ MembersInv'
         /\ \A id \in Id :
              members'[id] =
                IF id = node.id /\ InMembers(id) /\ Older(members[id], node)
                THEN None ELSE members[id]
<1>1. node.id \in Id
  BY DEF Node
<1>2. CASE ~(InMembers(node.id) /\ Older(members[node.id], node))
  <2>1. UNCHANGED <<members, order, iter>>
    BY <1>2, SameOrder DEF Members!TryUpdate, InMembers
  <2>2. MembersInv'
    BY <2>1 DEF MembersInv, IteratorValid, InMembers, Members!MemberIds, ToSet
  <2> QED BY <1>2, <2>1, <2>2 DEF InMembers
<1>3. CASE InMembers(node.id) /\ Older(members[node.id], node)
  <2>1. /\ members' = [members EXCEPT ![node.id] = None]
        /\ order' = RemoveAt(order, Members!Position(node.id))
        /\ iter' = IF iter = node.id THEN Members!After(Members!Position(node.id))
                   ELSE iter
    <3>1. members[node.id] # None /\ Members!Older(members[node.id], node)
      BY <1>3, SameOrder DEF InMembers
    <3>2. \A s, i : Members!RemoveAt(s, i) = RemoveAt(s, i)
      BY DEF Members!RemoveAt, RemoveAt
    <3> QED BY <3>1, <3>2 DEF Members!TryUpdate, Members!IterAfterErase
  <2>2. MembersInv'
    BY <1>1, <1>3, <2>1, EraseStep
  <2> QED BY <1>1, <1>3, <2>1, <2>2 DEF MembersInv
<1> QED BY <1>2, <1>3

\* add puts the new element somewhere; the iterator stays on its element.
LEMMA AddStep ==
  ASSUME MembersInv, NEW node \in Node, Members!Add(node)
  PROVE  /\ MembersInv'
         /\ \A id \in Id :
              members'[id] = IF id = node.id /\ ~InMembers(id) THEN node ELSE members[id]
<1>1. node.id \in Id /\ node # None
  BY GossipNetAssumption DEF Node
<1>2. CASE InMembers(node.id)
  <2>1. UNCHANGED <<members, order, iter>>
    BY <1>2 DEF Members!Add, InMembers
  <2>2. MembersInv'
    BY <2>1 DEF MembersInv, IteratorValid, InMembers, Members!MemberIds, ToSet
  <2> QED BY <1>2, <2>1, <2>2 DEF InMembers
<1>3. CASE ~InMembers(node.id)
  <2> DEFINE ids == ToSet(order) \cup {node.id}
  <2>1. /\ members' = [members EXCEPT ![node.id] = node]
        /\ order' \in SetToSeqs(ids)
        /\ iter' = iter
    <3>1. \A S : Members!SetToSeqs(S) = SetToSeqs(S)
      <4>1. \A S : Members!Cardinality(S) = Cardinality(S)
        BY DEF Members!Cardinality, Cardinality
      <4> QED BY <4>1 DEF Members!SetToSeqs, SetToSeqs
    <3>2. Members!ToSet(order) = ToSet(order)
      BY DEF Members!ToSet, ToSet
    <3> QED BY <1>3, <3>1, <3>2 DEF Members!Add, InMembers
  <2>2. /\ members' \in [Id -> Node \cup {None}]
        /\ \A id \in Id : members'[id] = IF id = node.id THEN node ELSE members[id]
    BY <1>1, <2>1 DEF MembersInv
  <2>3. ids = {id \in Id : members'[id] # None}
    BY <1>1, <2>2 DEF MembersInv, IteratorValid, Members!MemberIds
  <2>4. ids \subseteq Id /\ IsFiniteSet(ids) /\ Cardinality(ids) \in Nat
    BY <2>3, GossipNetAssumption, FS_Subset, FS_CardinalityType
  <2> HIDE DEF ids
  <2>5. /\ order' \in Seq(ids) /\ Len(order') \in Nat /\ DOMAIN order' = 1 .. Len(order')
        /\ \A i, j \in 1 .. Len(order') : order'[i] = order'[j] => i = j
        /\ ToSet(order') = ids
    BY <2>1, <2>4, SweepFacts, Sweep!ArrangementProperties
  <2>6. order' \in Seq(Id)
    BY <2>4, <2>5, SeqMonotonic
  <2>11. iter' # End => members'[iter'] # None
    BY <1>1, <2>1, <2>2 DEF MembersInv, IteratorValid, InMembers
  <2>12. MembersInv'
    BY <2>1, <2>2, <2>3, <2>5, <2>6, <2>11
    DEF MembersInv, IteratorValid, InMembers, Members!MemberIds
  <2> QED BY <1>3, <2>2, <2>12 DEF InMembers
<1> QED BY <1>2, <1>3

\* fetch only moves the iterator, to an element or the end.
LEMMA FetchStep ==
  ASSUME MembersInv, NEW num \in Nat, Members!Fetch(num)
  PROVE  MembersInv' /\ members' = members
<1>1. members' = members /\ order' = order
  BY DEF Members!Fetch
<1>2. order \in Seq(Id) /\ Len(order) \in Nat /\ DOMAIN order = 1 .. Len(order)
  BY LenProperties DEF MembersInv
<1>3. CASE num > Len(order) \/ num = 0
  BY <1>1, <1>3 DEF Members!Fetch, MembersInv, IteratorValid, InMembers, Members!MemberIds, ToSet
<1>4. CASE num \in 1 .. Len(order)
  <2> DEFINE start == IF iter = End THEN 1 ELSE Members!Position(iter)
  <2>1. start \in 1 .. Len(order)
    BY <1>2, <1>4, PositionProperties DEF MembersInv, IteratorValid
  <2>2. PICK p : /\ p = Members!FetchPosition(num)
                 /\ p = ((start + num - 2) % Len(order)) + 1
    BY DEF Members!FetchPosition
  <2> HIDE DEF start
  <2>3. start + num - 2 \in Int /\ Len(order) \in Nat /\ Len(order) > 0
    BY <1>2, <1>4, <2>1
  <2>4. p \in Nat /\ 1 <= p /\ p <= Len(order)
    BY <2>2, <2>3
  <2>5. iter' = IF p = Len(order) THEN End ELSE order[p + 1]
    BY <1>2, <1>4, <2>2 DEF Members!Fetch, Members!After
  <2>6. CASE p = Len(order)
    BY <1>1, <2>5, <2>6
    DEF MembersInv, IteratorValid, InMembers, Members!MemberIds, ToSet
  <2>7. CASE p # Len(order)
    <3>1. p + 1 \in 1 .. Len(order)
      BY <2>3, <2>4, <2>7
    <3>2. iter' \in Id /\ iter' \in ToSet(order)
      BY <1>2, <2>5, <2>7, <3>1 DEF ToSet
    <3>3. members[iter'] # None
      BY <3>2 DEF MembersInv, IteratorValid, Members!MemberIds
    <3> QED
      BY <1>1, <3>2, <3>3
      DEF MembersInv, IteratorValid, InMembers, Members!MemberIds, ToSet
  <2> QED BY <2>6, <2>7
<1> QED BY <1>1, <1>2, <1>3, <1>4

------------------------------------------------------------------------------
(* Lemmas about the operations of RecentlyUpdatedSet.                      *)

\* add files the node under its id and touches no other entry.
LEMMA RecentAddStep ==
  ASSUME recent \in [Id -> Recent!Entry \cup {None}],
         NEW node \in Node, Recent!Add(node)
  PROVE  /\ recent' \in [Id -> Recent!Entry \cup {None}]
         /\ \A id \in Id :
              recent'[id] =
                IF id = node.id /\ (recent[id] = None \/ Older(recent[id].node, node))
                THEN [node |-> node, counter |-> 0] ELSE recent[id]
         /\ fresh' = fresh /\ stable' = stable
<1>1. node.id \in Id
  BY DEF Node
<1>2. [node |-> node, counter |-> 0] \in Recent!Entry
  BY DEF Recent!Entry, Recent!Node, Node, Alive, Suspected, Failed,
         Recent!Alive, Recent!Suspected, Recent!Failed
<1>3. /\ recent' = IF recent[node.id] = None \/ Older(recent[node.id].node, node)
                   THEN [recent EXCEPT ![node.id] = [node |-> node, counter |-> 0]]
                   ELSE recent
      /\ fresh' = fresh /\ stable' = stable
  BY SameOrder DEF Recent!Add
<1> QED BY <1>1, <1>2, <1>3

\* fetch removes the retired members, the FAILED ones for good, and hands out
\* nodes it holds.
LEMMA RecentFetchStep ==
  ASSUME recent \in [Id -> Recent!Entry \cup {None}],
         NEW n \in Nat, NEW max, Recent!Fetch(n, max)
  PROVE  \E gone \in SUBSET Recent!RecentIds : \E picked \in SUBSET (Recent!RecentIds \ gone) :
           /\ recent' \in [Id -> Recent!Entry \cup {None}]
           /\ \A id \in Id : recent'[id] = None <=> recent[id] = None \/ id \in gone
           /\ \A id \in Id : recent'[id] # None => recent'[id].node = recent[id].node
           /\ fresh' = {recent[id].node : id \in picked}
           /\ Cardinality(picked) = n \/ picked = Recent!RecentIds \ gone
           /\ \A id \in gone : ~(recent[id].counter < max)
           /\ \A id \in Recent!RecentIds \ gone :
                recent'[id].counter = recent[id].counter + (IF id \in picked THEN 1 ELSE 0)
           /\ n - Cardinality(fresh') \in Nat
           /\ stable' = {node \in {recent[id].node : id \in gone} : node.status # Failed}
<1>1. PICK picked \in Recent!Picks(n, max) :
        /\ fresh' = {recent[id].node : id \in picked}
        /\ stable' = {node \in {recent[id].node : id \in Recent!Retired(n, max)} :
                        node.status # Failed}
        /\ recent' = [id \in Id |->
                        CASE id \in Recent!Retired(n, max) -> None
                          [] id \in picked -> [recent[id] EXCEPT !.counter = @ + 1]
                          [] OTHER -> recent[id]]
  BY DEF Recent!Fetch, Recent!StableNodes, Recent!Spread, Recent!Failed, Failed
<1>2. Recent!Underspread(max) \subseteq Recent!RecentIds
  BY DEF Recent!Underspread
<1>3. picked \subseteq Recent!Underspread(max)
  BY DEF Recent!Picks, Recent!kSubset
<1>4. Recent!Retired(n, max) \subseteq Recent!RecentIds \ picked
  BY <1>3 DEF Recent!Retired
<1>5. Recent!RecentIds \subseteq Id /\ \A id \in Recent!RecentIds : recent[id] \in Recent!Entry
  BY DEF Recent!RecentIds
<1>6. None \notin Recent!Entry
  BY GossipNetAssumption DEF Recent!Entry, Recent!Node, Node, Alive, Suspected, Failed,
         Recent!Alive, Recent!Suspected, Recent!Failed
<1>7. ASSUME NEW id \in picked
      PROVE  /\ [recent[id] EXCEPT !.counter = @ + 1] \in Recent!Entry
             /\ [recent[id] EXCEPT !.counter = @ + 1].node = recent[id].node
             /\ [recent[id] EXCEPT !.counter = @ + 1].counter = recent[id].counter + 1
  BY <1>2, <1>3, <1>5 DEF Recent!Entry
<1>8. ASSUME NEW id \in Id
      PROVE  /\ recent'[id] \in Recent!Entry \cup {None}
             /\ recent'[id] = None <=> recent[id] = None \/ id \in Recent!Retired(n, max)
             /\ recent'[id] # None => recent'[id].node = recent[id].node
  <2>1. CASE id \in Recent!Retired(n, max)
    <3>1. recent'[id] = None
      BY <1>1, <1>4, <2>1
    <3> QED BY <2>1, <3>1
  <2>2. CASE id \notin Recent!Retired(n, max) /\ id \in picked
    <3>1. recent'[id] = [recent[id] EXCEPT !.counter = @ + 1]
      BY <1>1, <2>2
    <3>2. recent[id] # None
      BY <2>2, <1>2, <1>3, <1>5, <1>6
    <3> QED BY <2>2, <3>1, <3>2, <1>6, <1>7
  <2>3. CASE id \notin Recent!Retired(n, max) /\ id \notin picked
    BY <1>1, <2>3
  <2> QED BY <2>1, <2>2, <2>3
<1>9. recent' \in [Id -> Recent!Entry \cup {None}]
  BY <1>1, <1>8
<1>10. \A S : Recent!Cardinality(S) = Cardinality(S)
  BY DEF Recent!Cardinality, Cardinality
<1>11. n - Cardinality(fresh') \in Nat
  <2>2. picked \subseteq Id /\ IsFiniteSet(picked) /\ Cardinality(picked) \in Nat
    BY <1>2, <1>3, <1>5, GossipNetAssumption, FS_Subset, FS_CardinalityType
  <2>3. Cardinality(picked) <= n
    <3>1. CASE picked = Recent!Underspread(max) /\ Cardinality(picked) < n
      BY <2>2, <3>1
    <3>2. CASE picked \in Recent!kSubset(n, Recent!Underspread(max))
      BY <1>10, <2>2, <3>2 DEF Recent!kSubset
    <3> QED BY <1>10, <3>1, <3>2 DEF Recent!Picks
  <2> DEFINE f == [id \in picked |-> recent[id].node]
  <2>4. f \in Surjection(picked, fresh')
    BY <1>1 DEF Surjection
  <2>5. IsFiniteSet(fresh') /\ Cardinality(fresh') <= Cardinality(picked)
    BY <2>2, <2>4, FS_Surjection
  <2>6. Cardinality(fresh') \in Nat
    BY <2>5, FS_CardinalityType
  <2> QED BY <2>2, <2>3, <2>5, <2>6
<1>12. Cardinality(picked) = n \/ picked = Recent!RecentIds \ Recent!Retired(n, max)
  <2>1. CASE Cardinality(Recent!Underspread(max)) < n
    BY <1>2, <1>10, <2>1 DEF Recent!Picks, Recent!Retired
  <2>2. CASE ~(Cardinality(Recent!Underspread(max)) < n)
    BY <1>10, <2>2 DEF Recent!Picks, Recent!kSubset
  <2> QED BY <2>1, <2>2
<1>13. picked \subseteq Recent!RecentIds \ Recent!Retired(n, max)
  BY <1>2, <1>3, <1>4
<1>14. \A id \in Recent!Retired(n, max) : ~(recent[id].counter < max)
  BY DEF Recent!Retired, Recent!Underspread
<1>15. ASSUME NEW id \in Recent!RecentIds \ Recent!Retired(n, max)
       PROVE  recent'[id].counter = recent[id].counter + (IF id \in picked THEN 1 ELSE 0)
  <2>1. id \in Id /\ recent[id].counter \in Nat
    BY <1>5 DEF Recent!Entry
  <2>2. CASE id \in picked
    <3>1. recent'[id] = [recent[id] EXCEPT !.counter = @ + 1]
      BY <1>1, <1>15, <2>1, <2>2
    <3> QED BY <1>7, <2>2, <3>1
  <2>3. CASE id \notin picked
    <3>1. recent'[id] = recent[id]
      BY <1>1, <1>15, <2>1, <2>3
    <3> QED BY <2>1, <2>3, <3>1
  <2> QED BY <2>2, <2>3
<1> QED BY <1>1, <1>4, <1>8, <1>9, <1>11, <1>12, <1>13, <1>14, <1>15

------------------------------------------------------------------------------
(* The inductive invariant.                                                *)

\* Outside _build_rumors nothing has been put in the message.
LEMMA WantsAll == MaxRumorNum - Cardinality({}) \in Nat
BY GossipNetAssumption, FS_EmptySet

LEMMA InitInv == Init => IInv
<1> SUFFICES ASSUME Init PROVE IInv
  OBVIOUS
<1>1. members = [id \in Id |-> None] /\ order = << >> /\ iter = End
  BY DEF Init, Members!Init
<1>2. recent = [id \in Id |-> None] /\ fresh = {} /\ stable = {}
  BY DEF Init, Recent!Init
<1>3. todo = << >> /\ building = FALSE
  BY DEF Init
<1>4. TypeOK
  <2>1. members \in [Id -> Node \cup {None}] /\ recent \in [Id -> Recent!Entry \cup {None}]
    BY <1>1, <1>2
  <2>2. << >> \in Seq(Id) /\ << >> \in Seq(Node)
    BY EmptySeq
  <2>3. Wanted \in Nat
    BY <1>2, WantsAll DEF Wanted
  <2> QED BY <1>1, <1>2, <1>3, <2>1, <2>2, <2>3 DEF TypeOK
<1>5. IteratorValid
  BY <1>1 DEF IteratorValid, Members!MemberIds, ToSet, InMembers
<1>6. OnePlace /\ StableNotFailed
  BY <1>1, <1>2 DEF OnePlace, StableNotFailed, InMembers, InRecent, InStable
<1> QED BY <1>4, <1>5, <1>6 DEF IInv

\* Receiving a message keeps the membership state as it is.
LEMMA UpdateInv ==
  ASSUME IInv, NEW rumors \in Batches, Update(rumors)
  PROVE  IInv'
<1>1. /\ UNCHANGED <<members, order, iter, recent, building, fresh, stable>>
      /\ todo' = rumors /\ ~building /\ todo = << >>
  BY DEF Update, Idle
<1>2. todo' \in Seq(Node)
  BY <1>1, GossipNetAssumption
<1>3. TypeOK'
  BY <1>1, <1>2 DEF IInv, TypeOK, Wanted
<1>4. OnePlace' /\ StableNotFailed' /\ IteratorValid'
  BY <1>1 DEF IInv, OnePlace, StableNotFailed, IteratorValid, InMembers, InRecent,
              InStable, Members!MemberIds, ToSet
<1> QED BY <1>3, <1>4 DEF IInv

\* News takes its member from the stable members to the recent ones.
LEMMA UpdateRumorInv ==
  ASSUME IInv, UpdateRumor
  PROVE  IInv'
<1> DEFINE rumor == Head(todo)
<1>1. todo \in Seq(Node) /\ todo # << >> /\ ~building /\ fresh = {} /\ stable = {}
  BY DEF UpdateRumor, IInv, TypeOK
<1>2. rumor \in Node /\ rumor.id \in Id /\ Tail(todo) \in Seq(Node)
  <2>1. rumor \in Node /\ Tail(todo) \in Seq(Node)
    BY <1>1, HeadTailProperties
  <2> QED BY <2>1 DEF Node
<1>3. /\ Members!TryUpdate(rumor)
      /\ IF Members!Adopts(rumor) THEN Recent!Add(rumor) ELSE UNCHANGED <<recent, fresh, stable>>
      /\ todo' = Tail(todo) /\ building' = building
  BY DEF UpdateRumor
<1> HIDE DEF rumor
<1>4. MembersInv
  BY DEF MembersInv, IInv, TypeOK
<1>5. /\ MembersInv'
      /\ \A id \in Id :
           members'[id] =
             IF id = rumor.id /\ InMembers(id) /\ Older(members[id], rumor)
             THEN None ELSE members[id]
  BY <1>2, <1>3, <1>4, TryUpdateStep
<1>6. Members!Adopts(rumor) <=> (InMembers(rumor.id) => Older(members[rumor.id], rumor))
  BY SameOrder DEF Members!Adopts, InMembers
<1>7. recent \in [Id -> Recent!Entry \cup {None}]
  BY DEF IInv, TypeOK
<1>8. /\ recent' \in [Id -> Recent!Entry \cup {None}]
      /\ \A id \in Id :
           \/ recent'[id] = recent[id]
           \/ /\ id = rumor.id /\ Members!Adopts(rumor)
              /\ recent'[id] = [node |-> rumor, counter |-> 0]
      /\ fresh' = fresh /\ stable' = stable
  <2>1. CASE Members!Adopts(rumor)
    BY <1>2, <1>3, <1>7, <2>1, RecentAddStep
  <2>2. CASE ~Members!Adopts(rumor)
    BY <1>3, <1>7, <2>2
  <2> QED BY <2>1, <2>2
<1>9. TypeOK'
  BY <1>1, <1>2, <1>3, <1>5, <1>8 DEF TypeOK, IInv, MembersInv, Wanted
<1>10. IteratorValid'
  BY <1>5 DEF MembersInv
<1>11. StableNotFailed'
  BY <1>1, <1>5, <1>8 DEF StableNotFailed, IInv, InMembers
<1>12. OnePlace'
  <2>1. ASSUME NEW id \in Id, members'[id] # None
        PROVE  members'[id].id = id /\ recent'[id] = None
    <3>1. members'[id] = members[id] /\ members[id] # None /\ recent[id] = None
      BY <1>5, <2>1 DEF IInv, OnePlace, InMembers, InRecent
    <3>2. ~(id = rumor.id /\ Members!Adopts(rumor))
      BY <1>5, <1>6, <2>1, <3>1 DEF InMembers
    <3> QED BY <1>8, <3>1, <3>2 DEF IInv, OnePlace, InMembers
  <2>2. ASSUME NEW id \in Id, recent'[id] # None
        PROVE  recent'[id].node.id = id
    BY <1>8, <2>2 DEF IInv, OnePlace, InRecent
  <2> QED BY <1>1, <1>8, <2>1, <2>2 DEF OnePlace, InMembers, InRecent, InStable
<1> QED BY <1>9, <1>10, <1>11, <1>12 DEF IInv

\* Retired members leave the recent ones for the locals of _build_rumors.
LEMMA BuildRumorsInv ==
  ASSUME IInv, BuildRumors
  PROVE  IInv'
<1>1. /\ todo = << >> /\ ~building /\ fresh = {} /\ stable = {}
      /\ recent \in [Id -> Recent!Entry \cup {None}]
  BY DEF BuildRumors, Idle, IInv, TypeOK
<1>2. /\ building' = TRUE /\ UNCHANGED <<members, order, iter, todo>>
      /\ Recent!Fetch(MaxRumorNum, SpreadLimit[Size])
  BY DEF BuildRumors
<1>3. PICK gone \in SUBSET Recent!RecentIds :
           /\ recent' \in [Id -> Recent!Entry \cup {None}]
           /\ \A id \in Id : recent'[id] = None <=> recent[id] = None \/ id \in gone
           /\ \A id \in Id : recent'[id] # None => recent'[id].node = recent[id].node
           /\ fresh' \subseteq {recent[id].node : id \in Recent!RecentIds}
           /\ MaxRumorNum - Cardinality(fresh') \in Nat
           /\ stable' = {node \in {recent[id].node : id \in gone} : node.status # Failed}
  <2>1. PICK gone \in SUBSET Recent!RecentIds : \E picked \in SUBSET (Recent!RecentIds \ gone) :
           /\ recent' \in [Id -> Recent!Entry \cup {None}]
           /\ \A id \in Id : recent'[id] = None <=> recent[id] = None \/ id \in gone
           /\ \A id \in Id : recent'[id] # None => recent'[id].node = recent[id].node
           /\ fresh' = {recent[id].node : id \in picked}
           /\ MaxRumorNum - Cardinality(fresh') \in Nat
           /\ stable' = {node \in {recent[id].node : id \in gone} : node.status # Failed}
    BY <1>1, <1>2, GossipNetAssumption, RecentFetchStep
  <2>2. fresh' \subseteq {recent[id].node : id \in Recent!RecentIds}
    BY <2>1
  <2> QED BY <2>1, <2>2
<1>4. \A id \in Recent!RecentIds :
        /\ id \in Id /\ recent[id] # None /\ recent[id].node \in Node
        /\ recent[id].node.id = id /\ members[id] = None
  <2>1. Recent!Entry = [node : Node, counter : Nat]
    BY DEF Recent!Entry, Recent!Node, Node, Alive, Suspected, Failed,
           Recent!Alive, Recent!Suspected, Recent!Failed
  <2> QED BY <1>1, <2>1 DEF Recent!RecentIds, IInv, OnePlace, InMembers, InRecent
<1>5. \A node \in stable' : \E id \in gone : node = recent[id].node
  BY <1>3
<1>6. TypeOK'
  <2>1. fresh' \subseteq Node /\ stable' \subseteq Node
    BY <1>3, <1>4, <1>5
  <2> QED BY <1>1, <1>2, <1>3, <2>1 DEF IInv, TypeOK, Wanted
<1>7. IteratorValid'
  BY <1>2 DEF IInv, IteratorValid, InMembers, Members!MemberIds, ToSet
<1>8. StableNotFailed'
  BY <1>2, <1>3 DEF IInv, StableNotFailed, InMembers
<1>9. OnePlace'
  <2>1. \A node \in stable' : /\ node.id \in gone /\ node.id \in Id
                              /\ node = recent[node.id].node
    BY <1>4, <1>5
  <2>2. ASSUME NEW id \in Id, members'[id] # None
        PROVE  /\ members'[id].id = id /\ recent'[id] = None
               /\ \A node \in stable' : node.id # id
    BY <1>2, <1>3, <1>4, <2>1, <2>2 DEF IInv, OnePlace, InMembers, InRecent
  <2>3. ASSUME NEW id \in Id, recent'[id] # None
        PROVE  recent'[id].node.id = id /\ \A node \in stable' : node.id # id
    BY <1>3, <1>4, <2>1, <2>3 DEF Recent!RecentIds
  <2>4. \A a, b \in stable' : a.id = b.id => a = b
    BY <2>1
  <2> QED BY <2>2, <2>3, <2>4 DEF OnePlace, InMembers, InRecent, InStable
<1> QED BY <1>6, <1>7, <1>8, <1>9 DEF IInv

\* A retired member ends its way among the stable ones.
LEMMA AddStableInv ==
  ASSUME IInv, AddStable
  PROVE  IInv'
<1>1. building /\ todo = << >> /\ stable \subseteq Node
  BY DEF AddStable, IInv, TypeOK
<1>2. PICK node \in stable : Members!Add(node) /\ stable' = stable \ {node}
  BY DEF AddStable
<1>3. UNCHANGED <<recent, todo, building, fresh>>
  BY DEF AddStable
<1>4. node \in Node /\ node.id \in Id /\ node.status # Failed
  BY <1>1, <1>2 DEF Node, IInv, StableNotFailed
<1>5. MembersInv
  BY DEF MembersInv, IInv, TypeOK
<1>6. /\ MembersInv'
      /\ \A id \in Id :
           members'[id] = IF id = node.id /\ ~InMembers(id) THEN node ELSE members[id]
  BY <1>2, <1>4, <1>5, AddStep
<1>7. TypeOK'
  BY <1>1, <1>2, <1>3, <1>6 DEF TypeOK, IInv, MembersInv, Wanted
<1>8. IteratorValid'
  BY <1>6 DEF MembersInv
<1>9. StableNotFailed'
  BY <1>2, <1>4, <1>6 DEF StableNotFailed, IInv, InMembers
<1>10. OnePlace'
  <2>1. InStable(node.id)
    BY <1>2 DEF InStable
  <2>2. \A other \in stable' : other \in stable /\ other.id # node.id
    BY <1>2 DEF IInv, OnePlace
  <2>3. ASSUME NEW id \in Id, members'[id] # None
        PROVE  /\ members'[id].id = id /\ recent'[id] = None
               /\ \A other \in stable' : other.id # id
    <3>1. CASE id = node.id
      BY <1>3, <1>4, <1>6, <2>1, <2>2, <3>1 DEF IInv, OnePlace, InMembers, InRecent
    <3>2. CASE id # node.id
      BY <1>3, <1>6, <2>2, <2>3, <3>2 DEF IInv, OnePlace, InMembers, InRecent, InStable
    <3> QED BY <3>1, <3>2
  <2>4. ASSUME NEW id \in Id, recent'[id] # None
        PROVE  recent'[id].node.id = id /\ \A other \in stable' : other.id # id
    BY <1>3, <2>2, <2>4 DEF IInv, OnePlace, InRecent, InStable
  <2>5. \A a, b \in stable' : a.id = b.id => a = b
    BY <2>2 DEF IInv, OnePlace
  <2> QED BY <2>3, <2>4, <2>5 DEF OnePlace, InMembers, InRecent, InStable
<1> QED BY <1>7, <1>8, <1>9, <1>10 DEF IInv

\* Filling and sending a message only moves the iterator.
LEMMA SendInv ==
  ASSUME IInv, Send
  PROVE  IInv'
<1>1. /\ building /\ stable = {} /\ Members!Fetch(Wanted)
      /\ building' = FALSE /\ fresh' = {} /\ UNCHANGED <<recent, todo, stable>>
  BY DEF Send
<1>2. MembersInv
  BY DEF MembersInv, IInv, TypeOK
<1>3. MembersInv' /\ members' = members
  BY <1>1, <1>2, FetchStep DEF IInv, TypeOK
<1>4. TypeOK'
  BY <1>1, <1>3, WantsAll DEF TypeOK, IInv, MembersInv, Wanted
<1>5. IteratorValid'
  BY <1>3 DEF MembersInv
<1>6. OnePlace' /\ StableNotFailed'
  BY <1>1, <1>3 DEF IInv, OnePlace, StableNotFailed, InMembers, InRecent, InStable
<1> QED BY <1>4, <1>5, <1>6 DEF IInv

LEMMA StutterInv ==
  ASSUME IInv, UNCHANGED vars
  PROVE  IInv'
BY DEF IInv, vars, TypeOK, Wanted, OnePlace, StableNotFailed, IteratorValid, InMembers, InRecent,
       InStable, Members!MemberIds, ToSet

LEMMA StepInv ==
  ASSUME IInv, [Next]_vars
  PROVE  IInv'
BY UpdateInv, UpdateRumorInv, BuildRumorsInv, AddStableInv, SendInv, StutterInv DEF Next

\* The parts of the inductive invariant hold together in every state.
THEOREM InductiveInvariant == Spec => []IInv
BY InitInv, StepInv, PTL DEF Spec

\* The state of a process keeps its types and a call its shape.
THEOREM TypeCorrect == Spec => []TypeOK
BY InductiveInvariant, PTL DEF IInv

\* A member is never recorded in two places: the assertion of MemberSet::add
\* holds, and no two entries about a member are spread or retired separately.
THEOREM RecordedOnce == Spec => []OnePlace
BY InductiveInvariant, PTL DEF IInv

\* A FAILED member never becomes a stable one.
THEOREM FailedNeverStable == Spec => []StableNotFailed
BY InductiveInvariant, PTL DEF IInv

\* MemberSet's iterator is never left on an erased element, although it is kept
\* across erasures, insertions and rehashes.
THEOREM IteratorNeverDangles == Spec => []IteratorValid
BY InductiveInvariant, PTL DEF IInv

------------------------------------------------------------------------------
(* GossipNet implements Membership.                                        *)

\* Where the belief about a member is read from.
ViewIs ==
  /\ View = [id \in Id |-> View[id]]
  /\ \A id \in Id :
       /\ InMembers(id) => View[id] = members[id]
       /\ InRecent(id) => View[id] = recent[id].node
       /\ \A node \in stable : node.id = id => View[id] = node
       /\ ~InMembers(id) /\ ~InRecent(id) /\ ~InStable(id) => View[id] = None

LEMMA ViewCases == IInv => ViewIs
<1> SUFFICES ASSUME IInv PROVE ViewIs
  OBVIOUS
<1>1. View = [id \in Id |-> View[id]]
  BY DEF View
<1>2. ASSUME NEW id \in Id
      PROVE  /\ InMembers(id) => View[id] = members[id]
             /\ InRecent(id) => View[id] = recent[id].node
             /\ \A node \in stable : node.id = id => View[id] = node
             /\ ~InMembers(id) /\ ~InRecent(id) /\ ~InStable(id) => View[id] = None
  <2>1. /\ InMembers(id) => ~InRecent(id) /\ ~InStable(id)
        /\ InRecent(id) => ~InStable(id)
    BY DEF IInv, OnePlace
  <2>2. View[id] = IF InMembers(id) THEN members[id]
                   ELSE IF InRecent(id) THEN recent[id].node
                   ELSE IF InStable(id) THEN CHOOSE node \in stable : node.id = id
                   ELSE None
    BY DEF View
  <2>3. ASSUME NEW node \in stable, node.id = id
        PROVE  View[id] = node
    <3>1. InStable(id) /\ ~InMembers(id) /\ ~InRecent(id)
      BY <2>1, <2>3 DEF InStable
    <3>2. View[id] = CHOOSE other \in stable : other.id = id
      BY <2>2, <3>1
    <3>3. View[id] \in stable /\ View[id].id = id
      BY <2>3, <3>2
    <3> QED BY <2>3, <3>3 DEF IInv, OnePlace
  <2> QED BY <2>1, <2>2, <2>3
<1> QED BY <1>1, <1>2 DEF ViewIs

\* A step that leaves every belief as it is is a stuttering step.
LEMMA SameView ==
  ASSUME ViewIs, ViewIs', \A id \in Id : View'[id] = View[id]
  PROVE  View' = View
BY DEF ViewIs

LEMMA StutterView ==
  ASSUME UNCHANGED <<members, recent, stable>>
  PROVE  View' = View
BY DEF View, InMembers, InRecent, InStable

\* News is learned.
LEMMA UpdateRumorView ==
  ASSUME IInv, IInv', ViewIs, ViewIs', UpdateRumor
  PROVE  Abstract!Next \/ View' = View
<1> DEFINE rumor == Head(todo)
<1>1. todo \in Seq(Node) /\ todo # << >> /\ stable = {}
  BY DEF UpdateRumor, IInv, TypeOK
<1>2. rumor \in Node
  BY <1>1, HeadTailProperties
<1>3. rumor.id \in Id /\ rumor # None /\ rumor \in Abstract!Node
  BY <1>2, GossipNetAssumption
  DEF Node, Abstract!Node, Alive, Suspected, Failed,
      Abstract!Alive, Abstract!Suspected, Abstract!Failed
<1>4. /\ Members!TryUpdate(rumor)
      /\ IF Members!Adopts(rumor) THEN Recent!Add(rumor) ELSE UNCHANGED <<recent, fresh, stable>>
  BY DEF UpdateRumor
<1> HIDE DEF rumor
<1>5. MembersInv
  BY DEF MembersInv, IInv, TypeOK
<1>6. \A id \in Id :
           members'[id] =
             IF id = rumor.id /\ InMembers(id) /\ Older(members[id], rumor)
             THEN None ELSE members[id]
  BY <1>2, <1>4, <1>5, TryUpdateStep
<1>7. Members!Adopts(rumor) <=> (InMembers(rumor.id) => Older(members[rumor.id], rumor))
  BY SameOrder DEF Members!Adopts, InMembers
<1>8. recent \in [Id -> Recent!Entry \cup {None}]
  BY DEF IInv, TypeOK
<1>9. CASE ~Members!Adopts(rumor)
  <2>1. \A id \in Id : members'[id] = members[id]
    BY <1>3, <1>6, <1>7, <1>9
  <2>2. recent' = recent /\ stable' = stable
    BY <1>4, <1>9
  <2>3. \A id \in Id : View'[id] = View[id]
    BY <1>1, <2>1, <2>2 DEF ViewIs, InMembers, InRecent, InStable
  <2> QED BY <2>3, SameView
<1>10. CASE Members!Adopts(rumor)
  <2>1. /\ \A id \in Id :
              recent'[id] =
                IF id = rumor.id /\ (recent[id] = None \/ Older(recent[id].node, rumor))
                THEN [node |-> rumor, counter |-> 0] ELSE recent[id]
        /\ stable' = {}
    BY <1>1, <1>2, <1>4, <1>8, <1>10, RecentAddStep
  <2>2. \A id \in Id : id # rumor.id => View'[id] = View[id]
    BY <1>1, <1>6, <2>1 DEF ViewIs, InMembers, InRecent, InStable
  <2>3. CASE recent[rumor.id] = None \/ Older(recent[rumor.id].node, rumor)
    <3>1. [node |-> rumor, counter |-> 0] # None
      BY <1>2, GossipNetAssumption
    <3>2. View'[rumor.id] = rumor
      BY <1>3, <2>1, <2>3, <3>1 DEF ViewIs, InRecent
    <3>3. View[rumor.id] # None => Older(View[rumor.id], rumor)
      BY <1>1, <1>3, <1>7, <1>10, <2>3 DEF ViewIs, InMembers, InRecent, InStable
    <3>4. View' = [View EXCEPT ![rumor.id] = rumor]
      BY <1>3, <2>2, <3>2 DEF ViewIs
    <3>5. Abstract!Learn(rumor)
      BY <3>3, <3>4, SameOrder DEF Abstract!Learn
    <3> QED BY <1>3, <3>5 DEF Abstract!Next
  <2>4. CASE ~(recent[rumor.id] = None \/ Older(recent[rumor.id].node, rumor))
    <3>1. InRecent(rumor.id) /\ recent'[rumor.id] = recent[rumor.id]
      BY <1>3, <2>1, <2>4 DEF InRecent
    <3>2. View'[rumor.id] = View[rumor.id]
      BY <1>3, <3>1 DEF ViewIs, InRecent
    <3> QED BY <2>2, <3>2, SameView
  <2> QED BY <2>3, <2>4
<1> QED BY <1>9, <1>10

\* Of the retired members the FAILED ones are forgotten.
LEMMA BuildRumorsView ==
  ASSUME IInv, IInv', ViewIs, ViewIs', BuildRumors
  PROVE  Abstract!Next
<1>1. /\ stable = {} /\ members' = members
      /\ recent \in [Id -> Recent!Entry \cup {None}]
  BY DEF BuildRumors, Idle, IInv, TypeOK
<1>2. PICK gone \in SUBSET Recent!RecentIds :
           /\ \A id \in Id : recent'[id] = None <=> recent[id] = None \/ id \in gone
           /\ \A id \in Id : recent'[id] # None => recent'[id].node = recent[id].node
           /\ stable' = {node \in {recent[id].node : id \in gone} : node.status # Failed}
  BY <1>1, GossipNetAssumption, RecentFetchStep DEF BuildRumors
<1>3. \A id \in Recent!RecentIds : /\ id \in Id /\ recent[id] # None
                                   /\ recent[id].node.id = id /\ members[id] = None
  BY DEF Recent!RecentIds, IInv, OnePlace, InMembers, InRecent
<1> DEFINE ids == {id \in gone : recent[id].node.status = Failed}
<1>4. ASSUME NEW id \in Id
      PROVE  View'[id] = IF id \in ids THEN None ELSE View[id]
  <2>1. CASE id \in gone /\ recent[id].node.status = Failed
    <3>1. ~InStable(id)'
      BY <1>2, <1>3, <2>1 DEF InStable
    <3> QED BY <1>1, <1>2, <1>3, <2>1, <3>1 DEF ViewIs, InMembers, InRecent
  <2>2. CASE id \in gone /\ recent[id].node.status # Failed
    <3>1. recent[id].node \in stable' /\ recent[id].node.id = id
      BY <1>2, <1>3, <2>2
    <3>2. View'[id] = recent[id].node
      BY <3>1 DEF ViewIs
    <3> QED BY <1>3, <2>2, <3>2 DEF ViewIs, InRecent
  <2>3. CASE id \notin gone
    <3>1. recent'[id] = None <=> recent[id] = None
      BY <1>2, <2>3
    <3>2. ~InStable(id)'
      BY <1>2, <1>3, <2>3 DEF InStable
    <3> QED BY <1>1, <1>2, <2>3, <3>1, <3>2 DEF ViewIs, InMembers, InRecent, InStable
  <2> QED BY <2>1, <2>2, <2>3
<1>5. ids \in SUBSET {id \in Id : View[id] # None /\ View[id].status = Failed}
  <2>1. ASSUME NEW id \in ids
        PROVE  id \in Id /\ View[id] # None /\ View[id].status = Failed
    <3>1. id \in Id /\ View[id] = recent[id].node /\ recent[id].node.status = Failed
      BY <1>3 DEF ViewIs, InRecent
    <3>2. recent[id].node \in Node
      <4>1. recent[id] \in Recent!Entry
        BY <1>1, <1>3
      <4> QED BY <4>1 DEF Recent!Entry, Recent!Node, Node, Alive, Suspected, Failed,
                          Recent!Alive, Recent!Suspected, Recent!Failed
    <3> QED BY <3>1, <3>2, GossipNetAssumption
  <2> QED BY <2>1
<1> HIDE DEF ids
<1>6. View' = [id \in Id |-> IF id \in ids THEN None ELSE View[id]]
  BY <1>4 DEF ViewIs
<1>7. Abstract!Forget
  BY <1>5, <1>6 DEF Abstract!Forget, Failed, Abstract!Failed
<1> QED BY <1>7 DEF Abstract!Next

\* A member on its way to the stable ones is already known.
LEMMA AddStableView ==
  ASSUME IInv, IInv', ViewIs, ViewIs', AddStable
  PROVE  View' = View
<1>1. PICK node \in stable : Members!Add(node) /\ stable' = stable \ {node}
  BY DEF AddStable
<1>2. node \in Node /\ node.id \in Id /\ MembersInv /\ recent' = recent
  BY DEF AddStable, MembersInv, IInv, TypeOK, Node
<1>3. \A id \in Id :
        members'[id] = IF id = node.id /\ ~InMembers(id) THEN node ELSE members[id]
  BY <1>1, <1>2, AddStep
<1>4. View[node.id] = node
  BY <1>1, <1>2 DEF ViewIs
<1>5. View'[node.id] = node
  <2>1. InStable(node.id)
    BY <1>1 DEF InStable
  <2>2. ~InMembers(node.id)
    BY <1>2, <2>1 DEF IInv, OnePlace
  <2>3. members'[node.id] = node /\ node # None
    BY <1>2, <1>3, <2>2, GossipNetAssumption
  <2> QED BY <1>2, <2>3 DEF ViewIs, InMembers
<1>6. ASSUME NEW id \in Id, id # node.id
      PROVE  View'[id] = View[id]
  <2>1. members'[id] = members[id]
    BY <1>3, <1>6
  <2>2. \A other : other.id = id => (other \in stable' <=> other \in stable)
    BY <1>1, <1>6
  <2>3. CASE InStable(id)
    <3>1. PICK other \in stable : other.id = id
      BY <2>3 DEF InStable
    <3>2. other \in stable'
      BY <2>2, <3>1
    <3> QED BY <3>1, <3>2 DEF ViewIs
  <2>4. CASE ~InStable(id)
    <3>1. ~InStable(id)'
      BY <2>2, <2>4 DEF InStable
    <3> QED BY <1>2, <2>1, <2>4, <3>1 DEF ViewIs, InMembers, InRecent
  <2> QED BY <2>3, <2>4
<1>7. \A id \in Id : View'[id] = View[id]
  BY <1>4, <1>5, <1>6
<1> QED BY <1>7, SameView

\* Whatever a process does with its two sets, its belief about a member only
\* changes for news, and only FAILED members are forgotten.
THEOREM Refinement == Spec => ImplementsMembership
<1>1. Init => Abstract!Init
  BY DEF Init, Members!Init, Recent!Init, Abstract!Init, View, InMembers, InRecent, InStable
<1>2. ASSUME IInv, IInv', ViewIs, ViewIs', [Next]_vars
      PROVE  [Abstract!Next]_View
  <2>1. ASSUME NEW rumors \in Batches, Update(rumors)
        PROVE  View' = View
    BY <2>1, StutterView DEF Update
  <2>2. ASSUME Send
        PROVE  View' = View
    BY <2>2, StutterView DEF Send, Members!Fetch
  <2>3. ASSUME UNCHANGED vars
        PROVE  View' = View
    BY <2>3, StutterView DEF vars
  <2> QED
    BY <1>2, <2>1, <2>2, <2>3, UpdateRumorView, BuildRumorsView, AddStableView DEF Next
<1> QED
  BY <1>1, <1>2, ViewCases, InductiveInvariant, PTL
  DEF Spec, ImplementsMembership, Abstract!Spec

------------------------------------------------------------------------------
(* The content of a message.                                               *)

\* While a message is built its rumors are news that is still being spread,
\* and either fill it or are all the news there is.
RumorsInv ==
  /\ ~Idle => sent = None
  /\ building =>
       /\ \A node \in fresh : /\ node.id \in Recent!RecentIds
                              /\ recent[node.id].node = node
       /\ \/ Cardinality(fresh) = MaxRumorNum
          \/ \A id \in Recent!RecentIds : recent[id].node \in fresh

\* fetch fills the message with rumors, or runs out of them.
LEMMA BuildRumorsRumors ==
  ASSUME IInv, BuildRumors
  PROVE  RumorsInv'
<1>1. /\ recent \in [Id -> Recent!Entry \cup {None}]
      /\ sent' = None /\ Recent!Fetch(MaxRumorNum, SpreadLimit[Size])
  BY DEF BuildRumors, IInv, TypeOK
<1>2. PICK gone \in SUBSET Recent!RecentIds : \E picked \in SUBSET (Recent!RecentIds \ gone) :
           /\ \A id \in Id : recent'[id] = None <=> recent[id] = None \/ id \in gone
           /\ \A id \in Id : recent'[id] # None => recent'[id].node = recent[id].node
           /\ fresh' = {recent[id].node : id \in picked}
           /\ Cardinality(picked) = MaxRumorNum \/ picked = Recent!RecentIds \ gone
  BY <1>1, GossipNetAssumption, RecentFetchStep
<1>3. PICK picked \in SUBSET (Recent!RecentIds \ gone) :
           /\ fresh' = {recent[id].node : id \in picked}
           /\ Cardinality(picked) = MaxRumorNum \/ picked = Recent!RecentIds \ gone
  BY <1>2
<1>4. \A id \in Recent!RecentIds : id \in Id /\ recent[id] # None /\ recent[id].node.id = id
  BY DEF Recent!RecentIds, IInv, OnePlace, InRecent
<1>5. Recent!RecentIds' = Recent!RecentIds \ gone
  BY <1>2 DEF Recent!RecentIds
<1>6. \A id \in picked : /\ id \in Id /\ recent[id].node.id = id
                         /\ id \in Recent!RecentIds' /\ recent'[id].node = recent[id].node
  BY <1>2, <1>4, <1>5 DEF Recent!RecentIds
<1>7. \A node \in fresh' : node.id \in Recent!RecentIds' /\ recent'[node.id].node = node
  BY <1>3, <1>6
<1>8. CASE Cardinality(picked) = MaxRumorNum
  <2>1. IsFiniteSet(picked)
    BY <1>6, GossipNetAssumption, FS_Subset
  <2> DEFINE f == [id \in picked |-> recent[id].node]
  <2>2. f \in Bijection(picked, fresh')
    BY <1>3, <1>6 DEF Bijection, Injection, IsInjective, Surjection
  <2>3. ExistsBijection(picked, fresh')
    BY <2>2 DEF ExistsBijection
  <2>4. Cardinality(fresh') = MaxRumorNum
    BY <1>8, <2>1, <2>3, FS_Bijection
  <2> QED BY <1>1, <1>7, <2>4 DEF RumorsInv
<1>9. CASE picked = Recent!RecentIds \ gone
  BY <1>1, <1>3, <1>5, <1>6, <1>7, <1>9 DEF RumorsInv
<1> QED BY <1>3, <1>8, <1>9

\* What fetch(num) returns: num stable members or all of them, none twice.
LEMMA FetchedFacts ==
  ASSUME MembersInv, \A id \in Members!MemberIds : members[id].id = id,
         NEW num \in Nat, NEW got, got = Members!Fetched(num),
         NEW count, count = IF num > Len(order) THEN Len(order) ELSE num
  PROVE  /\ got \in Seq({members[id] : id \in Members!MemberIds}) /\ Len(got) = count
         /\ ToSet(got) \subseteq {members[id] : id \in Members!MemberIds}
         /\ IsFiniteSet(ToSet(got)) /\ Cardinality(ToSet(got)) = count
<1>1. /\ order \in Seq(Id) /\ Len(order) \in Nat /\ DOMAIN order = 1 .. Len(order)
      /\ \A i, j \in 1 .. Len(order) : order[i] = order[j] => i = j
      /\ ToSet(order) = Members!MemberIds
  BY LenProperties DEF MembersInv, IteratorValid
<1>2. /\ Len(order) \in Nat /\ count \in Nat /\ count <= Len(order) /\ count <= num
      /\ \A k \in 1 .. count : k \in 1 .. Len(order) /\ k \in Nat
  <2>1. Len(order) \in Nat
    BY <1>1
  <2>2. count \in Nat /\ count <= Len(order) /\ count <= num
    BY <2>1
  <2> QED BY <2>1, <2>2
<1>3. PICK at \in [1 .. count -> 1 .. Len(order)] :
        /\ got = [k \in 1 .. count |-> members[order[at[k]]]]
        /\ \A j, k \in 1 .. count : at[j] = at[k] => j = k
  <2>1. CASE num > Len(order)
    <3>1. got = [k \in 1 .. count |-> members[order[[i \in 1 .. count |-> i][k]]]]
      BY <2>1 DEF Members!Fetched
    <3>2. [i \in 1 .. count |-> i] \in [1 .. count -> 1 .. Len(order)]
      BY <1>2
    <3> QED BY <3>1, <3>2
  <2>2. CASE ~(num > Len(order))
    <3>1. PICK start : start = IF iter = End THEN 1 ELSE Members!Position(iter)
      OBVIOUS
    <3>2. ASSUME NEW k \in 1 .. count
          PROVE  /\ start \in 1 .. Len(order)
                 /\ Members!FetchPosition(k) =
                      IF start + k - 1 <= Len(order) THEN start + k - 1
                      ELSE start + k - 1 - Len(order)
      <4>1. start \in 1 .. Len(order)
        <5>1. CASE iter = End
          <6>1. 1 \in 1 .. Len(order)
            BY <1>2
          <6> QED BY <3>1, <5>1, <6>1
        <5>2. CASE iter # End
          BY <1>1, <3>1, <5>2, PositionProperties DEF MembersInv, IteratorValid
        <5> QED BY <5>1, <5>2
      <4>2. k \in 1 .. Len(order)
        BY <1>2
      <4>3. Members!FetchPosition(k) = ((start + k - 2) % Len(order)) + 1
        BY <3>1 DEF Members!FetchPosition
      <4> QED BY <1>1, <4>1, <4>2, <4>3, SweepFacts, Sweep!WalkPosition
    <3>3. PICK at : at = [k \in 1 .. count |-> Members!FetchPosition(k)]
      OBVIOUS
    <3>4. at \in [1 .. count -> 1 .. Len(order)]
      <4>1. \A k \in 1 .. count : Members!FetchPosition(k) \in 1 .. Len(order)
        <5>1. SUFFICES ASSUME NEW k \in 1 .. count
                       PROVE  Members!FetchPosition(k) \in 1 .. Len(order)
          OBVIOUS
        <5>2. start \in Int /\ start >= 1 /\ start <= Len(order) /\ k >= 1 /\ k <= Len(order)
          BY <1>2, <3>2
        <5> QED BY <1>2, <3>2, <5>2
      <4> QED BY <3>3, <4>1
    <3>5. \A j, k \in 1 .. count : at[j] = at[k] => j = k
      <4>1. SUFFICES ASSUME NEW j \in 1 .. count, NEW k \in 1 .. count, at[j] = at[k]
                     PROVE  j = k
        OBVIOUS
      <4>2. Members!FetchPosition(j) = Members!FetchPosition(k)
        BY <3>3, <4>1
      <4>3. /\ start \in Int /\ start >= 1 /\ start <= Len(order)
            /\ j >= 1 /\ j <= Len(order) /\ k >= 1 /\ k <= Len(order)
        BY <1>2, <3>2
      <4> QED BY <1>2, <3>2, <4>2, <4>3
    <3>6. got = [k \in 1 .. count |-> members[order[at[k]]]]
      BY <2>2, <3>3 DEF Members!Fetched
    <3> QED BY <3>4, <3>5, <3>6
  <2> QED BY <2>1, <2>2
<1>4. \A k \in 1 .. count : /\ order[at[k]] \in Members!MemberIds
                            /\ got[k] = members[order[at[k]]]
                            /\ got[k].id = order[at[k]]
  <2>1. SUFFICES ASSUME NEW k \in 1 .. count
                 PROVE  /\ order[at[k]] \in Members!MemberIds
                        /\ got[k] = members[order[at[k]]]
                        /\ got[k].id = order[at[k]]
    OBVIOUS
  <2>2. at[k] \in 1 .. Len(order) /\ got[k] = members[order[at[k]]]
    BY <1>3, Zenon
  <2>3. order[at[k]] \in Members!MemberIds
    BY <1>1, <2>2 DEF ToSet
  <2>4. members[order[at[k]]].id = order[at[k]]
    BY <1>1, <2>3
  <2> QED BY <2>2, <2>3, <2>4
<1>5. \A j, k \in 1 .. count : got[j] = got[k] => j = k
  <2>1. SUFFICES ASSUME NEW j \in 1 .. count, NEW k \in 1 .. count, got[j] = got[k]
                 PROVE  j = k
    OBVIOUS
  <2>2. order[at[j]] = order[at[k]]
    BY <1>4, <2>1
  <2>3. at[j] = at[k]
    BY <1>1, <1>3, <2>2
  <2> QED BY <1>3, <2>3
<1>6. /\ got \in Seq({members[id] : id \in Members!MemberIds})
      /\ Len(got) = count /\ DOMAIN got = 1 .. count
  <2>1. got \in [1 .. count -> {members[id] : id \in Members!MemberIds}]
    <3>1. \A k \in 1 .. count : got[k] \in {members[id] : id \in Members!MemberIds}
      BY <1>4
    <3> QED BY <1>3, <3>1
  <2> QED BY <1>2, <2>1, SeqDef, LenProperties
<1>7. ToSet(got) \subseteq {members[id] : id \in Members!MemberIds}
  BY <1>4, <1>6 DEF ToSet
<1>8. IsFiniteSet(ToSet(got)) /\ Cardinality(ToSet(got)) = Len(got)
  BY <1>5, <1>6, SweepFacts, Sweep!DistinctIsArrangement
<1> QED BY <1>6, <1>7, <1>8

\* A message that is sent names as many members as it has room for.
LEMMA SendSound ==
  ASSUME IInv, RumorsInv, Send, ViewIs, ViewIs'
  PROVE  MessageSound'
<1>1. /\ building /\ stable = {} /\ todo = << >> /\ Wanted \in Nat
      /\ recent \in [Id -> Recent!Entry \cup {None}]
      /\ members' = members /\ recent' = recent /\ stable' = stable
  BY DEF Send, Members!Fetch, IInv, TypeOK
<1>2. PICK got : got = Members!Fetched(Wanted)
  OBVIOUS
<1>3. sent' = [fresh |-> fresh, filler |-> got]
  BY <1>2 DEF Send, Message
<1>4. PICK count : count = IF Wanted > Len(order) THEN Len(order) ELSE Wanted
  OBVIOUS
<1>5. PICK filler : filler = ToSet(got)
  OBVIOUS
<1>6. \A id \in Members!MemberIds : /\ id \in Id /\ members[id] # None
                                    /\ members[id].id = id /\ recent[id] = None
  BY DEF Members!MemberIds, IInv, OnePlace, InMembers, InRecent
<1>7. /\ Len(got) = count
      /\ filler \subseteq {members[id] : id \in Members!MemberIds}
      /\ IsFiniteSet(filler) /\ Cardinality(filler) = count
  BY <1>1, <1>2, <1>4, <1>5, <1>6, FetchedFacts DEF MembersInv, IInv, TypeOK
<1>8. \A id \in Recent!RecentIds : id \in Id /\ recent[id] # None /\ recent[id].node.id = id
  BY DEF Recent!RecentIds, IInv, OnePlace, InRecent
<1>9. /\ \A node \in fresh : node.id \in Recent!RecentIds /\ recent[node.id].node = node
      /\ \/ Cardinality(fresh) = MaxRumorNum
         \/ \A id \in Recent!RecentIds : recent[id].node \in fresh
  BY <1>1 DEF RumorsInv
<1>10. \A id \in Id : View'[id] = View[id]
  BY <1>1, StutterView
<1>11. \A node \in fresh \cup filler : View'[node.id] = node
  <2>1. \A node \in fresh : View[node.id] = node /\ node.id \in Id
    BY <1>8, <1>9 DEF ViewIs, InRecent
  <2>2. \A node \in filler : View[node.id] = node /\ node.id \in Id
    BY <1>6, <1>7 DEF ViewIs, InMembers
  <2> QED BY <1>10, <2>1, <2>2
<1>12. fresh \cap filler = {}
  BY <1>6, <1>7, <1>8, <1>9
<1>13. /\ IsFiniteSet(Recent!RecentIds) /\ IsFiniteSet(Members!MemberIds)
       /\ Cardinality(Recent!RecentIds) \in Nat
       /\ Cardinality(Members!MemberIds) \in Nat
  <2>1. Recent!RecentIds \subseteq Id /\ Members!MemberIds \subseteq Id
    BY <1>6, <1>8
  <2> QED BY <2>1, GossipNetAssumption, FS_Subset, FS_CardinalityType
<1>14. Cardinality(Members!MemberIds) = Len(order) /\ Len(order) \in Nat
  <2>1. /\ order \in Seq(Id) /\ \A i, j \in 1 .. Len(order) : order[i] = order[j] => i = j
        /\ ToSet(order) = Members!MemberIds
    BY LenProperties DEF IInv, TypeOK, IteratorValid
  <2> QED BY <1>13, <2>1, SweepFacts, Sweep!DistinctIsArrangement
<1>15. Known' = Recent!RecentIds \cup Members!MemberIds
  <2>1. Known' = {id \in Id : View[id] # None}
    BY <1>10 DEF Known
  <2>2. \A id \in Id : View[id] # None <=> id \in Recent!RecentIds \cup Members!MemberIds
    <3>1. SUFFICES ASSUME NEW id \in Id
                   PROVE  View[id] # None <=> id \in Recent!RecentIds \cup Members!MemberIds
      OBVIOUS
    <3>2. ~InStable(id)
      BY <1>1 DEF InStable
    <3>3. InRecent(id) => View[id] # None
      <4>1. SUFFICES ASSUME InRecent(id) PROVE recent[id].node # None
        BY DEF ViewIs
      <4>2. recent[id] \in Recent!Entry
        BY <1>1, <4>1 DEF InRecent
      <4>3. recent[id].node \in Node
        BY <4>2 DEF Recent!Entry, Recent!Node, Node, Alive, Suspected, Failed,
                    Recent!Alive, Recent!Suspected, Recent!Failed
      <4> QED BY <4>3, GossipNetAssumption
    <3> QED BY <3>2, <3>3 DEF ViewIs, InMembers, InRecent, Members!MemberIds, Recent!RecentIds
  <2> QED BY <1>6, <1>8, <2>1, <2>2
<1>16. Cardinality(Known') = Cardinality(Recent!RecentIds) + Len(order)
  <2>1. Recent!RecentIds \cap Members!MemberIds = {}
    BY <1>6, <1>8
  <2> QED BY <1>13, <1>14, <1>15, <2>1, DisjointUnion
<1>17. /\ IsFiniteSet(fresh) /\ Cardinality(fresh) \in Nat
       /\ Cardinality(fresh) <= Cardinality(Recent!RecentIds)
       /\ \/ Cardinality(fresh) = MaxRumorNum
          \/ Cardinality(fresh) = Cardinality(Recent!RecentIds)
  <2> DEFINE f == [node \in fresh |-> node.id]
  <2>1. f \in Injection(fresh, Recent!RecentIds)
    <3>1. f \in [fresh -> Recent!RecentIds]
      BY <1>9
    <3>2. \A a, b \in fresh : f[a] = f[b] => a = b
      BY <1>9
    <3> QED BY <3>1, <3>2 DEF Injection, IsInjective
  <2>2. (\A id \in Recent!RecentIds : recent[id].node \in fresh) =>
          f \in Surjection(fresh, Recent!RecentIds)
    BY <1>8, <2>1 DEF Surjection, Injection
  <2> HIDE DEF f
  <2>3. /\ IsFiniteSet(fresh)
        /\ Cardinality(fresh) <= Cardinality(Recent!RecentIds)
        /\ Cardinality(fresh) = Cardinality(Recent!RecentIds) <=>
             f \in Surjection(fresh, Recent!RecentIds)
    BY <1>13, <2>1, FS_Injection
  <2> QED BY <1>9, <2>2, <2>3, FS_CardinalityType
<1>18. /\ Cardinality(fresh \cup filler) = Cardinality(fresh) + count
       /\ count \in Nat
  <2>1. count \in Nat
    BY <1>7, FS_CardinalityType
  <2>2. IsFiniteSet(fresh) /\ IsFiniteSet(filler)
    BY <1>7, <1>17
  <2>3. Cardinality(fresh \cup filler) = Cardinality(fresh) + Cardinality(filler)
    BY <1>12, <2>2, DisjointUnion
  <2> QED BY <1>7, <2>1, <2>3, Zenon
<1>19. Cardinality(fresh) + count =
         IF Cardinality(Known') < MaxRumorNum THEN Cardinality(Known') ELSE MaxRumorNum
  <2>1. count = IF MaxRumorNum - Cardinality(fresh) > Len(order) THEN Len(order)
                ELSE MaxRumorNum - Cardinality(fresh)
    BY <1>4 DEF Wanted
  <2>2. MaxRumorNum \in Nat
    BY GossipNetAssumption
  <2>3. CASE Cardinality(fresh) = MaxRumorNum
    BY <1>13, <1>14, <1>16, <1>17, <2>1, <2>2, <2>3
  <2>4. CASE Cardinality(fresh) = Cardinality(Recent!RecentIds)
    BY <1>13, <1>14, <1>16, <1>17, <2>1, <2>2, <2>4
  <2> QED BY <1>17, <2>3, <2>4
<1> QED BY <1>3, <1>5, <1>7, <1>11, <1>18, <1>19 DEF MessageSound

LEMMA InitMessages == Init => RumorsInv /\ MessageSound
BY DEF Init, Recent!Init, RumorsInv, MessageSound, Idle

\* The calls made one at a time: no message is pending while the next is built.
LEMMA StepMessages ==
  ASSUME IInv, IInv', RumorsInv, MessageSound, [Next]_vars
  PROVE  RumorsInv' /\ MessageSound'
<1>1. ViewIs /\ ViewIs'
  BY ViewCases, PTL
<1>2. ASSUME sent' = None PROVE MessageSound'
  BY <1>2 DEF MessageSound
<1>3. ASSUME NEW rumors \in Batches, Update(rumors)
      PROVE  RumorsInv' /\ MessageSound'
  BY <1>2, <1>3 DEF Update, RumorsInv, Idle
<1>4. ASSUME UpdateRumor
      PROVE  RumorsInv' /\ MessageSound'
  <2>1. sent' = None /\ ~building /\ building' = building
    BY <1>4 DEF UpdateRumor, RumorsInv, Idle, IInv, TypeOK
  <2> QED BY <1>2, <2>1 DEF RumorsInv
<1>5. ASSUME BuildRumors
      PROVE  RumorsInv' /\ MessageSound'
  BY <1>2, <1>5, BuildRumorsRumors DEF BuildRumors
<1>6. ASSUME AddStable
      PROVE  RumorsInv' /\ MessageSound'
  <2>1. building /\ UNCHANGED <<recent, todo, building, fresh, sent>> /\ sent = None
    BY <1>6 DEF AddStable, RumorsInv, Idle
  <2> QED BY <1>2, <2>1 DEF RumorsInv, Idle, Recent!RecentIds
<1>7. ASSUME Send
      PROVE  RumorsInv' /\ MessageSound'
  <2>1. Idle' /\ ~building'
    BY <1>7 DEF Send, Idle, IInv, TypeOK
  <2> QED BY <1>1, <1>7, <2>1, SendSound DEF RumorsInv
<1>8. ASSUME UNCHANGED vars
      PROVE  RumorsInv' /\ MessageSound'
  <2>1. View' = View
    BY <1>8, StutterView DEF vars
  <2> QED BY <1>8, <2>1 DEF RumorsInv, MessageSound, Known, Idle, Recent!RecentIds, vars
<1> QED BY <1>3, <1>4, <1>5, <1>6, <1>7, <1>8 DEF Next

\* A message names each member once, says of it what the process believes and
\* carries as many members as fit.
THEOREM MessagesSound == Spec => []MessageSound
BY InitMessages, StepMessages, InductiveInvariant, PTL DEF Spec

------------------------------------------------------------------------------
(* How often news is spread.                                               *)

\* A rumor in the message being built is counted in the set already, and in
\* the history when the message is sent.
Unsent(id) == IF building /\ recent[id].node \in fresh THEN 1 ELSE 0

\* The counter of a recently updated member never runs ahead of the messages
\* that carried the news.
SpreadInv ==
  /\ carried \in [Id -> Nat]
  /\ \A id \in Id : InRecent(id) =>
       \/ carried[id] >= SpreadLimit[Cardinality(Id)]
       \/ carried[id] + Unsent(id) >= recent[id].counter

\* What a process knows of a recently updated member.
LEMMA RecentEntry ==
  ASSUME IInv
  PROVE  \A id \in Id : InRecent(id) =>
           /\ recent[id].node \in Node /\ recent[id].node.id = id
           /\ recent[id].counter \in Nat
<1>1. Recent!Entry = [node : Node, counter : Nat]
  BY DEF Recent!Entry, Recent!Node, Node, Alive, Suspected, Failed,
         Recent!Alive, Recent!Suspected, Recent!Failed
<1> QED BY <1>1 DEF IInv, TypeOK, OnePlace, InRecent

LEMMA LimitType == SpreadLimit[Cardinality(Id)] \in Nat
<1>1. Cardinality(Id) \in Nat
  BY GossipNetAssumption, FS_CardinalityType
<1> QED BY <1>1, GossipNetAssumption

\* How the history moves: forward with a message that carries the news.
LEMMA CarriedStep ==
  ASSUME carried \in [Id -> Nat], HNext
  PROVE  /\ carried' \in [Id -> Nat]
         /\ \A id \in Id : View'[id] = View[id] /\ recent'[id] # None =>
              carried'[id] =
                IF Sends(id) /\ carried[id] < SpreadLimit[Cardinality(Id)]
                THEN carried[id] + 1 ELSE carried[id]
<1>1. \A id \in Id : carried'[id] =
        IF View'[id] # View[id] \/ recent'[id] = None THEN 0
        ELSE IF Sends(id) /\ carried[id] < SpreadLimit[Cardinality(Id)] THEN carried[id] + 1
        ELSE carried[id]
  BY DEF HNext
<1>2. \A id \in Id : carried[id] \in Nat
  OBVIOUS
<1>3. \A id \in Id : carried'[id] \in Nat
  BY <1>1, <1>2
<1>4. carried' \in [Id -> Nat]
  BY <1>3 DEF HNext
<1> QED BY <1>1, <1>4

\* A step that sends nothing and counts nothing keeps the two counts as they are.
LEMMA QuietSpread ==
  ASSUME IInv, IInv', SpreadInv, HNext, NEW id \in Id, InRecent(id), InRecent(id)',
         recent'[id] = recent[id], sent' \in {sent, None},
         Unsent(id)' = Unsent(id)
  PROVE  \/ carried'[id] >= SpreadLimit[Cardinality(Id)]
         \/ carried'[id] + Unsent(id)' >= recent'[id].counter
<1>1. ViewIs /\ ViewIs'
  BY ViewCases, PTL
<1>2. View'[id] = View[id]
  BY <1>1 DEF ViewIs
<1>3. ~Sends(id)
  BY DEF Sends
<1>4. carried'[id] = carried[id]
  BY <1>2, <1>3, CarriedStep DEF SpreadInv, InRecent
<1> QED BY <1>4 DEF SpreadInv

\* Putting a rumor in the message counts it; fetch retires what was counted
\* often enough.
LEMMA BuildRumorsSpread ==
  ASSUME IInv, IInv', RumorsInv, SpreadInv, HNext, BuildRumors
  PROVE  /\ \A id \in Id : InRecent(id)' =>
              \/ carried'[id] >= SpreadLimit[Cardinality(Id)]
              \/ carried'[id] + Unsent(id)' >= recent'[id].counter
         /\ \A id \in Id : InRecent(id) /\ ~InRecent(id)' => carried[id] >= SpreadLimit[Size]
<1>1. /\ recent \in [Id -> Recent!Entry \cup {None}] /\ ~building /\ building'
      /\ sent' = None /\ Recent!Fetch(MaxRumorNum, SpreadLimit[Size])
  BY DEF BuildRumors, Idle, IInv, TypeOK
<1>2. PICK gone \in SUBSET Recent!RecentIds : \E picked \in SUBSET (Recent!RecentIds \ gone) :
           /\ \A id \in Id : recent'[id] = None <=> recent[id] = None \/ id \in gone
           /\ \A id \in Id : recent'[id] # None => recent'[id].node = recent[id].node
           /\ fresh' = {recent[id].node : id \in picked}
           /\ \A id \in gone : ~(recent[id].counter < SpreadLimit[Size])
           /\ \A id \in Recent!RecentIds \ gone :
                recent'[id].counter = recent[id].counter + (IF id \in picked THEN 1 ELSE 0)
  <2>1. PICK max : max = SpreadLimit[Size]
    OBVIOUS
  <2>2. MaxRumorNum \in Nat /\ Recent!Fetch(MaxRumorNum, max)
    BY <1>1, <2>1, GossipNetAssumption
  <2>3. \E gone \in SUBSET Recent!RecentIds : \E picked \in SUBSET (Recent!RecentIds \ gone) :
           /\ recent' \in [Id -> Recent!Entry \cup {None}]
           /\ \A id \in Id : recent'[id] = None <=> recent[id] = None \/ id \in gone
           /\ \A id \in Id : recent'[id] # None => recent'[id].node = recent[id].node
           /\ fresh' = {recent[id].node : id \in picked}
           /\ Cardinality(picked) = MaxRumorNum \/ picked = Recent!RecentIds \ gone
           /\ \A id \in gone : ~(recent[id].counter < max)
           /\ \A id \in Recent!RecentIds \ gone :
                recent'[id].counter = recent[id].counter + (IF id \in picked THEN 1 ELSE 0)
           /\ MaxRumorNum - Cardinality(fresh') \in Nat
           /\ stable' = {node \in {recent[id].node : id \in gone} : node.status # Failed}
    BY <1>1, <2>2, RecentFetchStep
  <2> QED BY <2>1, <2>3
<1>3. PICK picked \in SUBSET (Recent!RecentIds \ gone) :
           /\ fresh' = {recent[id].node : id \in picked}
           /\ \A id \in Recent!RecentIds \ gone :
                recent'[id].counter = recent[id].counter + (IF id \in picked THEN 1 ELSE 0)
  BY <1>2
<1>4. ASSUME NEW id \in Id, InRecent(id)'
      PROVE  \/ carried'[id] >= SpreadLimit[Cardinality(Id)]
             \/ carried'[id] + Unsent(id)' >= recent'[id].counter
  <2>1. InRecent(id) /\ id \in Recent!RecentIds \ gone /\ recent'[id].node = recent[id].node
    BY <1>2, <1>4 DEF InRecent, Recent!RecentIds
  <2>2. View'[id] = View[id]
    <3>1. ViewIs /\ ViewIs'
      BY ViewCases, PTL
    <3> QED BY <1>4, <2>1, <3>1 DEF ViewIs
  <2>3. carried'[id] = carried[id] /\ carried[id] \in Nat
    BY <1>1, <1>4, <2>2, CarriedStep DEF Sends, SpreadInv, InRecent
  <2>4. id \in picked => Unsent(id)' = 1
    BY <1>1, <1>3, <2>1 DEF Unsent
  <2>5. Unsent(id)' \in Nat /\ Unsent(id) = 0
    BY <1>1 DEF Unsent
  <2>6. recent[id].counter \in Nat
    BY <2>1, RecentEntry
  <2>7. recent'[id].counter = recent[id].counter + (IF id \in picked THEN 1 ELSE 0)
    BY <1>3, <2>1
  <2>8. \/ carried[id] >= SpreadLimit[Cardinality(Id)]
        \/ carried[id] >= recent[id].counter
    BY <2>1, <2>3, <2>5 DEF SpreadInv
  <2>9. CASE id \in picked
    BY <2>3, <2>4, <2>6, <2>7, <2>8, <2>9
  <2>10. CASE id \notin picked
    BY <2>3, <2>5, <2>6, <2>7, <2>8, <2>10
  <2> QED BY <2>9, <2>10
<1>5. ASSUME NEW id \in Id, InRecent(id), ~InRecent(id)'
      PROVE  carried[id] >= SpreadLimit[Size]
  <2>1. id \in gone /\ id \in Recent!RecentIds
    BY <1>2, <1>5 DEF InRecent
  <2>2. ~(recent[id].counter < SpreadLimit[Size])
    BY <1>2, <2>1
  <2>3. /\ Size \in 1 .. Cardinality(Id) /\ Cardinality(Id) \in 1 .. Cardinality(Id)
        /\ Size <= Cardinality(Id)
    <3> DEFINE all == Recent!RecentIds \cup Members!MemberIds
    <3>1. Recent!RecentIds \subseteq Id /\ Members!MemberIds \subseteq Id /\ all \subseteq Id
      BY DEF Recent!RecentIds, Members!MemberIds
    <3>2. /\ IsFiniteSet(Recent!RecentIds) /\ IsFiniteSet(Members!MemberIds) /\ IsFiniteSet(all)
          /\ Cardinality(all) <= Cardinality(Id)
          /\ Cardinality(Recent!RecentIds) \in Nat /\ Cardinality(Members!MemberIds) \in Nat
          /\ Cardinality(all) \in Nat /\ Cardinality(Id) \in Nat
      BY <3>1, GossipNetAssumption, FS_Subset, FS_CardinalityType
    <3>3. Recent!RecentIds \cap Members!MemberIds = {}
      BY DEF Recent!RecentIds, Members!MemberIds, IInv, OnePlace, InMembers, InRecent
    <3>4. Cardinality(all) = Cardinality(Recent!RecentIds) + Cardinality(Members!MemberIds)
      BY <3>2, <3>3, DisjointUnion
    <3>5. Cardinality(Recent!RecentIds) # 0
      BY <2>1, <3>2, FS_EmptySet
    <3> HIDE DEF all
    <3>6. Size = Cardinality(Members!MemberIds) + Cardinality(Recent!RecentIds)
      BY DEF Size
    <3> QED BY <3>2, <3>4, <3>5, <3>6
  <2>4. SpreadLimit[Size] <= SpreadLimit[Cardinality(Id)]
    BY <2>3, SpreadAssumption
  <2>5. SpreadLimit[Size] \in Nat /\ SpreadLimit[Cardinality(Id)] \in Nat
    <3>1. Size \in 0 .. Cardinality(Id)
      BY <2>3
    <3> QED BY <3>1, GossipNetAssumption, LimitType
  <2>6. carried[id] \in Nat /\ recent[id].counter \in Nat /\ Unsent(id) = 0
    BY <1>1, <1>5, RecentEntry DEF SpreadInv, Unsent
  <2>7. \/ carried[id] >= SpreadLimit[Cardinality(Id)]
        \/ carried[id] >= recent[id].counter
    BY <1>5, <2>6 DEF SpreadInv
  <2> QED BY <2>2, <2>4, <2>5, <2>6, <2>7
<1> QED BY <1>4, <1>5

\* The message carries each of its rumors once.
LEMMA SendSpread ==
  ASSUME IInv, IInv', RumorsInv, SpreadInv, HNext, Send
  PROVE  \A id \in Id : InRecent(id)' =>
              \/ carried'[id] >= SpreadLimit[Cardinality(Id)]
              \/ carried'[id] + Unsent(id)' >= recent'[id].counter
<1>1. /\ building /\ building' = FALSE /\ recent' = recent /\ sent = None
      /\ sent' # None /\ sent'.fresh = fresh
  <2>1. building /\ building' = FALSE /\ recent' = recent /\ sent = None /\ sent' = Message
    BY DEF Send, RumorsInv, Idle
  <2>2. PICK got : got = Members!Fetched(Wanted)
    OBVIOUS
  <2>3. \A id \in Members!MemberIds : members[id].id = id /\ members[id] \in Node
    BY DEF Members!MemberIds, IInv, TypeOK, OnePlace, InMembers
  <2>4. got \in Seq({members[id] : id \in Members!MemberIds})
    <3>1. PICK count : count = IF Wanted > Len(order) THEN Len(order) ELSE Wanted
      OBVIOUS
    <3> QED BY <2>2, <2>3, <3>1, FetchedFacts DEF MembersInv, IInv, TypeOK
  <2>5. got \in Seq(Node)
    BY <2>3, <2>4
  <2>6. Message = [fresh |-> fresh, filler |-> got] /\ fresh \in SUBSET Node
    BY <2>2 DEF Message, IInv, TypeOK
  <2>7. Message # None /\ Message.fresh = fresh
    BY <2>5, <2>6, GossipNetAssumption
  <2> QED BY <2>1, <2>7
<1>2. ASSUME NEW id \in Id, InRecent(id)'
      PROVE  \/ carried'[id] >= SpreadLimit[Cardinality(Id)]
             \/ carried'[id] + Unsent(id)' >= recent'[id].counter
  <2>1. InRecent(id)
    BY <1>1, <1>2 DEF InRecent
  <2>2. View'[id] = View[id] /\ View[id] = recent[id].node
    <3>1. ViewIs /\ ViewIs'
      BY ViewCases, PTL
    <3> QED BY <1>1, <1>2, <2>1, <3>1 DEF ViewIs
  <2>3. Unsent(id)' = 0 /\ Unsent(id) = IF Sends(id) THEN 1 ELSE 0
    BY <1>1, <2>2 DEF Unsent, Sends
  <2>4. carried'[id] = IF Sends(id) /\ carried[id] < SpreadLimit[Cardinality(Id)]
                       THEN carried[id] + 1 ELSE carried[id]
    BY <1>2, <2>2, CarriedStep DEF SpreadInv, InRecent
  <2>5. /\ carried[id] \in Nat /\ recent[id].counter \in Nat
        /\ SpreadLimit[Cardinality(Id)] \in Nat /\ recent'[id].counter = recent[id].counter
    BY <1>1, <2>1, RecentEntry, LimitType DEF SpreadInv
  <2>6. \/ carried[id] >= SpreadLimit[Cardinality(Id)]
        \/ carried[id] + Unsent(id) >= recent[id].counter
    BY <2>1 DEF SpreadInv
  <2>7. CASE Sends(id)
    BY <2>3, <2>4, <2>5, <2>6, <2>7
  <2>8. CASE ~Sends(id)
    BY <2>3, <2>4, <2>5, <2>6, <2>8
  <2> QED BY <2>7, <2>8
<1> QED BY <1>2

\* Of the other steps only news touches the counters, and resets them.
LEMMA OtherSpread ==
  ASSUME IInv, IInv', RumorsInv, SpreadInv, HNext,
         (\E rumors \in Batches : Update(rumors)) \/ UpdateRumor \/ AddStable
  PROVE  \A id \in Id : /\ InRecent(id) => InRecent(id)'
                        /\ InRecent(id)' =>
                             \/ carried'[id] >= SpreadLimit[Cardinality(Id)]
                             \/ carried'[id] + Unsent(id)' >= recent'[id].counter
<1>1. sent' \in {sent, None} /\ building' = building /\ fresh' = fresh
  BY DEF Update, UpdateRumor, AddStable, Recent!Add
<1>2. ASSUME NEW id \in Id
      PROVE  \/ recent'[id] = recent[id]
             \/ InRecent(id)' /\ recent'[id].counter = 0
  <2>1. CASE (\E rumors \in Batches : Update(rumors)) \/ AddStable
    BY <2>1 DEF Update, AddStable
  <2>2. CASE UpdateRumor
    <3>1. CASE ~Members!Adopts(Head(todo))
      BY <2>2, <3>1 DEF UpdateRumor
    <3>2. CASE Members!Adopts(Head(todo))
      <4>1. Head(todo) \in Node /\ recent \in [Id -> Recent!Entry \cup {None}]
        BY <2>2, HeadTailProperties DEF UpdateRumor, IInv, TypeOK
      <4>2. Recent!Add(Head(todo))
        BY <2>2, <3>2 DEF UpdateRumor
      <4>3. \/ recent'[id] = recent[id]
            \/ recent'[id] = [node |-> Head(todo), counter |-> 0]
        BY <4>1, <4>2, RecentAddStep
      <4>4. [node |-> Head(todo), counter |-> 0] # None
        BY <4>1, GossipNetAssumption
      <4> QED BY <4>3, <4>4 DEF InRecent
    <3> QED BY <3>1, <3>2
  <2> QED BY <2>1, <2>2
<1>3. ASSUME NEW id \in Id, InRecent(id)'
      PROVE  \/ carried'[id] >= SpreadLimit[Cardinality(Id)]
             \/ carried'[id] + Unsent(id)' >= recent'[id].counter
  <2>1. CASE recent'[id] = recent[id]
    <3>1. InRecent(id) /\ Unsent(id)' = Unsent(id)
      BY <1>1, <1>3, <2>1 DEF InRecent, Unsent
    <3> QED BY <1>1, <1>3, <2>1, <3>1, QuietSpread
  <2>2. CASE recent'[id].counter = 0
    <3>1. carried'[id] \in Nat /\ Unsent(id)' \in Nat
      BY CarriedStep DEF SpreadInv, Unsent
    <3> QED BY <2>2, <3>1
  <2> QED BY <1>2, <2>1, <2>2
<1> QED BY <1>2, <1>3 DEF InRecent

LEMMA StepSpread ==
  ASSUME IInv, IInv', RumorsInv, SpreadInv, [HNext]_hvars
  PROVE  /\ SpreadInv'
         /\ [\A id \in Id : InRecent(id) /\ ~InRecent(id)' =>
                carried[id] >= SpreadLimit[Size]]_hvars
<1>1. CASE HNext
  <2>1. carried' \in [Id -> Nat]
    BY <1>1, CarriedStep DEF SpreadInv
  <2>2. CASE BuildRumors
    BY <1>1, <2>1, <2>2, BuildRumorsSpread DEF SpreadInv
  <2>3. CASE Send
    <3>1. recent' = recent
      BY <2>3 DEF Send
    <3> QED BY <1>1, <2>1, <2>3, <3>1, SendSpread DEF SpreadInv, InRecent
  <2>4. CASE (\E rumors \in Batches : Update(rumors)) \/ UpdateRumor \/ AddStable
    BY <1>1, <2>1, <2>4, OtherSpread DEF SpreadInv
  <2> QED BY <1>1, <2>2, <2>3, <2>4 DEF HNext, Next
<1>2. CASE UNCHANGED hvars
  BY <1>2 DEF hvars, vars, SpreadInv, InRecent, Unsent
<1> QED BY <1>1, <1>2

\* No news leaves the recently updated members before that many messages have
\* carried it, whatever other news comes in between.
THEOREM SpreadEnough == HSpec => SpreadBeforeStable
<1>1. HInit => Init /\ SpreadInv
  BY DEF HInit, SpreadInv, Init, Recent!Init, InRecent
<1>2. [HNext]_hvars => [Next]_vars
  BY DEF HNext, hvars
<1> QED
  BY <1>1, <1>2, InitInv, StepInv, InitMessages, StepMessages, StepSpread, PTL
  DEF HSpec, SpreadBeforeStable
==============================================================================
