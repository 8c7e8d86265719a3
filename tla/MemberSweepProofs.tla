-------------------------- MODULE MemberSweepProofs --------------------------
(***************************************************************************)
(* Proofs about MemberSet's round robin: whatever is erased from, or       *)
(* inserted into, the table between two calls, a sweep misses nobody, and  *)
(* no call hands out a member twice.                                       *)
(***************************************************************************)
EXTENDS MemberSweep, FiniteSetTheorems, SequenceTheorems, TLAPS

\* The members that are still owed a turn lie ahead of the iterator.
OwedAhead ==
  \A i \in 1 .. Len(order) : order[i] \in owed => \E j \in 1 .. i : order[j] = iter

IInv ==
  /\ TypeOK
  /\ IsFiniteSet(MemberIds)
  /\ \A id \in MemberIds : members[id].id = id
  /\ OwedAhead

------------------------------------------------------------------------------
(* Sequences without repetition, and the round robin through one.          *)

\* A walk of k steps from start through L elements that begins anew at the end.
LEMMA WalkPosition ==
  ASSUME NEW L \in Nat, NEW start \in 1 .. L, NEW k \in 1 .. L
  PROVE  ((start + k - 2) % L) + 1 = IF start + k - 1 <= L THEN start + k - 1
                                     ELSE start + k - 1 - L
<1> DEFINE x == start + k - 2
<1>1. x \in Nat /\ L > 0 /\ x < 2 * L
  OBVIOUS
<1>2. CASE x < L
  <2>1. x % L = x
    BY <1>1, <1>2
  <2> QED BY <1>2, <2>1
<1>3. CASE ~(x < L)
  <2>1. x % L = x - L
    BY <1>1, <1>3
  <2> QED BY <1>3, <2>1
<1> QED BY <1>2, <1>3

\* Removing the i-th element shifts the later ones down by one.
LEMMA RemoveAtProperties ==
  ASSUME NEW S, NEW s \in Seq(S), NEW i \in 1 .. Len(s)
  PROVE  /\ RemoveAt(s, i) \in Seq(S)
         /\ Len(RemoveAt(s, i)) = Len(s) - 1
         /\ \A j \in 1 .. Len(s) - 1 :
              RemoveAt(s, i)[j] = IF j < i THEN s[j] ELSE s[j + 1]
<1> DEFINE front == SubSeq(s, 1, i - 1)
           back  == SubSeq(s, i + 1, Len(s))
<1>1. /\ front \in Seq(S) /\ Len(front) = i - 1
      /\ \A j \in 1 .. i - 1 : front[j] = s[j]
  BY SubSeqProperties, LenProperties, ElementOfSeq
<1>2. /\ back \in Seq(S) /\ Len(back) = Len(s) - i
      /\ \A j \in 1 .. Len(s) - i : back[j] = s[j + i]
  BY SubSeqProperties, LenProperties, ElementOfSeq
<1> HIDE DEF front, back
<1>3. /\ front \o back \in Seq(S)
      /\ Len(front \o back) = Len(front) + Len(back)
      /\ \A j \in 1 .. Len(front) + Len(back) :
           (front \o back)[j] = IF j <= Len(front) THEN front[j] ELSE back[j - Len(front)]
  BY <1>1, <1>2, ConcatProperties
<1>4. Len(s) \in Nat /\ i \in Int /\ i >= 1 /\ i <= Len(s)
  BY LenProperties
<1>5. Len(front) + Len(back) = Len(s) - 1
  BY <1>1, <1>2, <1>4
<1>6. ASSUME NEW j \in 1 .. Len(s) - 1
      PROVE  (front \o back)[j] = IF j < i THEN s[j] ELSE s[j + 1]
  <2>1. CASE j < i
    BY <2>1, <1>1, <1>3, <1>4, <1>5
  <2>2. CASE ~(j < i)
    <3>1. j - (i - 1) \in 1 .. Len(s) - i /\ (j - (i - 1)) + i = j + 1
      BY <2>2, <1>4
    <3>2. (front \o back)[j] = back[j - (i - 1)]
      BY <2>2, <1>1, <1>3, <1>4, <1>5
    <3> QED BY <2>2, <3>1, <3>2, <1>2
  <2> QED BY <2>1, <2>2
<1>7. RemoveAt(s, i) = front \o back
  BY DEF RemoveAt, front, back
<1> QED BY <1>3, <1>5, <1>6, <1>7

\* Removing an element of a sequence without repetition removes it altogether.
LEMMA EraseDistinct ==
  ASSUME NEW S, NEW s \in Seq(S), NEW p \in 1 .. Len(s), NEW t, t = RemoveAt(s, p),
         \A i, j \in 1 .. Len(s) : s[i] = s[j] => i = j
  PROVE  /\ \A i, j \in 1 .. Len(s) - 1 : t[i] = t[j] => i = j
         /\ ToSet(t) = ToSet(s) \ {s[p]}
<1>1. /\ t \in Seq(S) /\ Len(t) = Len(s) - 1
      /\ \A j \in 1 .. Len(s) - 1 : t[j] = IF j < p THEN s[j] ELSE s[j + 1]
  BY RemoveAtProperties
<1>2. /\ Len(s) \in Nat /\ p \in Nat /\ DOMAIN s = 1 .. Len(s)
      /\ DOMAIN t = 1 .. Len(s) - 1
  BY <1>1, LenProperties
<1>3. ASSUME NEW i \in 1 .. Len(s) - 1, NEW j \in 1 .. Len(s) - 1, t[i] = t[j]
      PROVE  i = j
  <2>1. /\ i \in 1 .. Len(s) /\ i + 1 \in 1 .. Len(s)
        /\ j \in 1 .. Len(s) /\ j + 1 \in 1 .. Len(s)
    BY <1>2
  <2>2. (IF i < p THEN i ELSE i + 1) = (IF j < p THEN j ELSE j + 1)
    BY <1>1, <1>3, <2>1
  <2> QED BY <1>2, <2>1, <2>2
<1>4. ASSUME NEW x \in ToSet(t)  PROVE x \in ToSet(s) \ {s[p]}
  <2>1. PICK j \in 1 .. Len(s) - 1 : x = t[j]
    BY <1>2 DEF ToSet
  <2>2. PICK k \in 1 .. Len(s) : x = s[k] /\ k # p
    BY <2>1, <1>1, <1>2
  <2> QED BY <2>2, <1>2 DEF ToSet
<1>5. ASSUME NEW x \in ToSet(s) \ {s[p]}  PROVE x \in ToSet(t)
  <2>1. PICK k \in 1 .. Len(s) : x = s[k] /\ k # p
    BY <1>2 DEF ToSet
  <2>2. CASE k < p
    <3>1. k \in 1 .. Len(s) - 1
      BY <2>1, <2>2, <1>2
    <3>2. t[k] = x
      BY <2>1, <2>2, <3>1, <1>1
    <3> QED BY <3>1, <3>2, <1>2 DEF ToSet
  <2>3. CASE k > p
    <3>1. k - 1 \in 1 .. Len(s) - 1 /\ t[k - 1] = x
      BY <2>1, <2>3, <1>1, <1>2
    <3> QED BY <3>1, <1>2 DEF ToSet
  <2> QED BY <2>1, <2>2, <2>3, <1>2
<1> QED BY <1>3, <1>4, <1>5

\* Any arrangement of a finite set lists all of it: an injection between finite
\* sets of the same size is onto.
LEMMA ArrangementProperties ==
  ASSUME NEW S, IsFiniteSet(S), NEW s \in SetToSeqs(S)
  PROVE  /\ s \in Seq(S) /\ Len(s) = Cardinality(S) /\ Len(s) \in Nat
         /\ DOMAIN s = 1 .. Len(s)
         /\ \A i, j \in 1 .. Len(s) : s[i] = s[j] => i = j
         /\ ToSet(s) = S
<1>1. s \in [1 .. Cardinality(S) -> S]
      /\ \A i, j \in 1 .. Cardinality(S) : s[i] = s[j] => i = j
  BY DEF SetToSeqs
<1>2. Cardinality(S) \in Nat
  BY FS_CardinalityType
<1>3. s \in Seq(S) /\ DOMAIN s = 1 .. Cardinality(S)
  BY <1>1, <1>2, SeqDef
<1>4. Len(s) = Cardinality(S)
  BY <1>2, <1>3, LenProperties
<1>5. s \in Injection(1 .. Cardinality(S), S)
  BY <1>1 DEF Injection, IsInjective
<1>6. Cardinality(1 .. Cardinality(S)) = Cardinality(S)
  BY <1>2, FS_Interval
<1>7. s \in Surjection(1 .. Cardinality(S), S)
  BY <1>5, <1>6, FS_Injection
<1>8. ToSet(s) = S
  BY <1>1, <1>3, <1>7 DEF ToSet, Surjection
<1> QED BY <1>1, <1>2, <1>3, <1>4, <1>8

\* A sequence without repetition is an arrangement of its elements.
LEMMA DistinctIsArrangement ==
  ASSUME NEW T, NEW s \in Seq(T),
         \A i, j \in 1 .. Len(s) : s[i] = s[j] => i = j
  PROVE  /\ IsFiniteSet(ToSet(s)) /\ Cardinality(ToSet(s)) = Len(s)
         /\ s \in SetToSeqs(ToSet(s))
<1>1. Len(s) \in Nat /\ s \in [1 .. Len(s) -> T] /\ DOMAIN s = 1 .. Len(s)
  BY LenProperties
<1>2. s \in [1 .. Len(s) -> ToSet(s)]
  BY <1>1 DEF ToSet
<1>3. s \in Bijection(1 .. Len(s), ToSet(s))
  BY <1>1, <1>2 DEF Bijection, Injection, IsInjective, Surjection, ToSet
<1>4. ExistsBijection(1 .. Len(s), ToSet(s))
  BY <1>3 DEF ExistsBijection
<1>5. IsFiniteSet(1 .. Len(s)) /\ Cardinality(1 .. Len(s)) = Len(s)
  BY <1>1, FS_Interval
<1>6. IsFiniteSet(ToSet(s)) /\ Cardinality(ToSet(s)) = Len(s)
  BY <1>4, <1>5, FS_Bijection
<1>7. s \in SetToSeqs(ToSet(s))
  BY <1>2, <1>6 DEF SetToSeqs
<1> QED BY <1>6, <1>7

------------------------------------------------------------------------------
(* The iteration order and the walk through it.                            *)

OrderIs ==
  /\ order \in Seq(Id) /\ Len(order) \in Nat /\ DOMAIN order = 1 .. Len(order)
  /\ \A i, j \in 1 .. Len(order) : order[i] = order[j] => i = j
  /\ ToSet(order) = MemberIds

\* order lists the members, once each.
LEMMA OrderFacts == IInv => OrderIs
<1> SUFFICES ASSUME IInv PROVE OrderIs
  OBVIOUS
<1>1. order \in SetToSeqs(MemberIds) /\ IsFiniteSet(MemberIds)
  BY DEF IInv, TypeOK
<1>2. MemberIds \subseteq Id
  BY DEF MemberIds
<1>3. /\ order \in Seq(MemberIds) /\ Len(order) \in Nat /\ DOMAIN order = 1 .. Len(order)
      /\ \A i, j \in 1 .. Len(order) : order[i] = order[j] => i = j
      /\ ToSet(order) = MemberIds
  BY <1>1, ArrangementProperties
<1>4. order \in Seq(Id)
  BY <1>2, <1>3, SeqMonotonic
<1> QED BY <1>3, <1>4 DEF OrderIs

\* Conversely, a listing of the members gives order its type.
LEMMA OrderType ==
  ASSUME OrderIs PROVE order \in SetToSeqs(MemberIds) /\ IsFiniteSet(MemberIds)
BY DistinctIsArrangement DEF OrderIs

\* A member has one position.
LEMMA PositionProperties ==
  ASSUME OrderIs, NEW id \in MemberIds
  PROVE  Position(id) \in 1 .. Len(order) /\ order[Position(id)] = id
<1>1. PICK i \in DOMAIN order : order[i] = id
  BY DEF OrderIs, ToSet
<1>2. Position(id) \in DOMAIN order /\ order[Position(id)] = id
  BY <1>1 DEF Position
<1> QED BY <1>2 DEF OrderIs

\* _fetch walks on from the iterator and begins anew, once, behind the last element.
LEMMA WalkFacts ==
  ASSUME IInv, OrderIs, NEW k \in 1 .. Len(order), NEW start,
         start = IF iter = End THEN 1 ELSE Position(iter)
  PROVE  /\ start \in 1 .. Len(order)
         /\ FetchPosition(k) = IF start + k - 1 <= Len(order) THEN start + k - 1
                               ELSE start + k - 1 - Len(order)
<1>1. start \in 1 .. Len(order)
  <2>1. CASE iter = End
    BY <2>1 DEF OrderIs
  <2>2. CASE iter # End
    BY <2>2, PositionProperties DEF IInv, TypeOK
  <2> QED BY <2>1, <2>2
<1>2. FetchPosition(k) = ((start + k - 2) % Len(order)) + 1
  BY DEF FetchPosition
<1>3. Len(order) \in Nat
  BY DEF OrderIs
<1> QED BY <1>1, <1>2, <1>3, WalkPosition

\* A call that hands out fewer members than there are begins anew at most once.
LEMMA WrapFacts ==
  ASSUME IInv, OrderIs, NEW num \in 1 .. Len(order), NEW start,
         start = IF iter = End THEN 1 ELSE Position(iter)
  PROVE  Wraps(num) = IF iter = End THEN {1}
                      ELSE IF start + num - 1 <= Len(order) THEN {}
                      ELSE {Len(order) + 2 - start}
<1>1. start \in 1 .. Len(order) /\ Len(order) \in Nat
  BY WalkFacts DEF OrderIs
<1>2. \A k \in 1 .. num : k \in 1 .. Len(order)
  BY <1>1
<1>3. \A k \in 1 .. num :
        FetchPosition(k) = IF start + k - 1 <= Len(order) THEN start + k - 1
                           ELSE start + k - 1 - Len(order)
  BY <1>2, WalkFacts
<1>4. CASE iter = End
  <2>1. \A k \in 1 .. num : k # 1 => FetchPosition(k) # 1
    BY <1>1, <1>3, <1>4
  <2>2. 1 \in 1 .. num
    BY <1>1
  <2> QED BY <1>4, <2>1, <2>2 DEF Wraps
<1>5. CASE iter # End
  <2>1. ASSUME NEW k \in 1 .. num, k # 1
        PROVE  FetchPosition(k) = 1 <=> k = Len(order) + 2 - start
    <3>1. k \in Int /\ k > 1 /\ k <= Len(order)
      BY <1>1, <2>1
    <3>2. PICK f : /\ f = FetchPosition(k)
                   /\ f = IF start + k - 1 <= Len(order) THEN start + k - 1
                          ELSE start + k - 1 - Len(order)
      BY <1>3
    <3>3. f = 1 <=> k = Len(order) + 2 - start
      BY <1>1, <3>1, <3>2
    <3> QED BY <3>2, <3>3
  <2>2. Len(order) + 2 - start # 1
    BY <1>1
  <2>3. Wraps(num) = {k \in 1 .. num : k = Len(order) + 2 - start}
    BY <1>5, <2>1, <2>2 DEF Wraps
  <2>4. CASE start + num - 1 <= Len(order)
    <3>1. \A k \in 1 .. num : k # Len(order) + 2 - start
      BY <1>1, <2>4
    <3> QED BY <1>5, <2>3, <2>4, <3>1
  <2>5. CASE ~(start + num - 1 <= Len(order))
    <3>1. Len(order) + 2 - start \in 1 .. num
      BY <1>1, <2>5
    <3> QED BY <1>5, <2>3, <2>5, <3>1
  <2> QED BY <2>4, <2>5
<1> QED BY <1>4, <1>5

------------------------------------------------------------------------------
(* Every step keeps the invariant.                                         *)

LEMMA InitInv == SweepInit => IInv
<1> SUFFICES ASSUME SweepInit PROVE IInv
  OBVIOUS
<1>1. /\ members \in [Id -> Node \cup {None}] /\ MemberIds = {}
      /\ order = << >> /\ iter = End /\ owed = {}
  BY DEF SweepInit, Init, MemberIds
<1>2. OrderIs
  BY <1>1, LenProperties DEF OrderIs, ToSet
<1>3. order \in SetToSeqs(MemberIds) /\ IsFiniteSet(MemberIds)
  BY <1>2, OrderType
<1> QED BY <1>1, <1>3 DEF IInv, TypeOK, OwedAhead

\* What keeps the listing keeps the types of the two parts of it.
LEMMA KeptOrder ==
  ASSUME OrderIs' PROVE (order \in SetToSeqs(MemberIds) /\ IsFiniteSet(MemberIds))'
BY OrderType, PTL

\* try_update may erase any element, the one under the iterator included.
LEMMA UpdatedInv ==
  ASSUME IInv, NEW node \in Node, Updated(node)
  PROVE  IInv'
<1>1. OrderIs
  BY OrderFacts
<1>2. node.id \in Id /\ TryUpdate(node)
  BY DEF Node, Updated
<1>3. CASE ~(members[node.id] # None /\ Older(members[node.id], node))
  <2>1. UNCHANGED <<members, order, iter>>
    BY <1>2, <1>3 DEF TryUpdate
  <2>2. owed' = owed
    BY <2>1 DEF Updated, IInv, TypeOK, MemberIds
  <2> QED BY <2>1, <2>2 DEF IInv, TypeOK, OwedAhead, MemberIds
<1>4. CASE members[node.id] # None /\ Older(members[node.id], node)
  <2>1. PICK id \in MemberIds : id = node.id
    BY <1>2, <1>4 DEF MemberIds
  <2>2. PICK p \in 1 .. Len(order) : p = Position(id) /\ order[p] = id
    BY <1>1, PositionProperties
  <2>3. /\ members' = [members EXCEPT ![id] = None]
        /\ order' = RemoveAt(order, p)
        /\ iter' = IF iter = id THEN After(p) ELSE iter
        /\ owed' = {other \in owed : members'[other] # None}
    BY <1>2, <1>4, <2>1, <2>2 DEF TryUpdate, IterAfterErase, Updated
  <2>4. /\ id \in Id /\ members \in [Id -> Node \cup {None}]
        /\ \A other \in Id : members'[other] = IF other = id THEN None ELSE members[other]
    BY <1>2, <2>1, <2>3 DEF IInv, TypeOK
  <2>5. MemberIds' = MemberIds \ {id} /\ owed' = owed \ {id}
    <3>1. MemberIds' = MemberIds \ {id}
      BY <2>4 DEF MemberIds
    <3>2. \A other \in owed : members'[other] # None <=> other # id
      BY <2>4 DEF IInv, TypeOK, MemberIds
    <3>3. owed' = owed \ {id}
      BY <2>3, <3>2
    <3> QED BY <3>1, <3>3
  <2>6. /\ Len(order) \in Nat /\ p \in Nat /\ p >= 1 /\ p <= Len(order)
        /\ order \in Seq(Id)
    BY <1>1 DEF OrderIs
  <2>7. /\ order' \in Seq(Id) /\ Len(order') = Len(order) - 1
        /\ \A j \in 1 .. Len(order) - 1 :
             order'[j] = IF j < p THEN order[j] ELSE order[j + 1]
    BY <2>3, <2>6, RemoveAtProperties
  <2>8. /\ \A i, j \in 1 .. Len(order) - 1 : order'[i] = order'[j] => i = j
        /\ ToSet(order') = ToSet(order) \ {id}
    BY <1>1, <2>2, <2>3, <2>6, EraseDistinct DEF OrderIs
  <2>9. OrderIs'
    <3>1. DOMAIN order' = 1 .. Len(order') /\ Len(order') \in Nat
      BY <2>7, LenProperties
    <3> QED BY <1>1, <2>5, <2>7, <2>8, <3>1 DEF OrderIs
  <2>10. iter' \in MemberIds' \cup {End}
    <3>1. CASE iter # id
      BY <2>3, <2>5, <3>1 DEF IInv, TypeOK
    <3>2. CASE iter = id /\ p = Len(order)
      BY <2>3, <3>2 DEF After
    <3>3. CASE iter = id /\ p # Len(order)
      <4>1. p \in 1 .. Len(order) - 1 /\ iter' = order[p + 1] /\ order'[p] = order[p + 1]
        BY <2>3, <2>6, <2>7, <3>3 DEF After
      <4>2. iter' \in ToSet(order')
        BY <2>7, <2>9, <4>1 DEF ToSet, OrderIs
      <4> QED BY <2>9, <4>2 DEF OrderIs
    <3> QED BY <3>1, <3>2, <3>3
  <2>11. OwedAhead'
    <3>1. SUFFICES ASSUME NEW i \in 1 .. Len(order'), order'[i] \in owed'
                   PROVE  \E j \in 1 .. i : order'[j] = iter'
      BY DEF OwedAhead
    <3>2. i \in Nat /\ i >= 1 /\ i <= Len(order) - 1
      BY <2>6, <2>7
    <3>3. PICK k \in 1 .. Len(order) : /\ k = (IF i < p THEN i ELSE i + 1)
                                       /\ k # p /\ order[k] = order'[i]
      BY <2>6, <2>7, <3>2
    <3>4. PICK m \in 1 .. k : order[m] = iter
      BY <2>5, <3>1, <3>3 DEF IInv, OwedAhead
    <3>5. m \in Nat /\ m >= 1 /\ m <= Len(order) /\ m <= k
      BY <2>6, <3>3, <3>4
    <3>6. CASE m < p
      <4>1. m \in 1 .. i /\ m \in 1 .. Len(order) - 1
        BY <2>6, <3>2, <3>3, <3>5, <3>6
      <4>2. iter # id
        BY <1>1, <2>2, <3>4, <3>5, <3>6 DEF OrderIs
      <4> QED BY <2>3, <2>7, <3>4, <3>6, <4>1, <4>2
    <3>7. CASE m > p
      <4>1. m - 1 \in 1 .. i /\ m - 1 \in 1 .. Len(order) - 1
        BY <2>6, <3>2, <3>3, <3>5, <3>7
      <4>2. iter # id
        BY <1>1, <2>2, <3>4, <3>5, <3>7 DEF OrderIs
      <4>3. order'[m - 1] = order[m]
        BY <2>6, <2>7, <3>5, <3>7, <4>1
      <4> QED BY <2>3, <3>4, <4>1, <4>2, <4>3
    <3>8. CASE m = p
      <4>1. p \in 1 .. i /\ p \in 1 .. Len(order) - 1 /\ p # Len(order)
        BY <2>6, <3>2, <3>3, <3>5, <3>8
      <4>2. iter' = order[p + 1] /\ order'[p] = order[p + 1]
        BY <2>2, <2>3, <2>7, <3>4, <3>8, <4>1 DEF After
      <4> QED BY <4>1, <4>2
    <3> QED BY <2>6, <3>5, <3>6, <3>7, <3>8
  <2>12. \A other \in MemberIds' : members'[other].id = other
    BY <2>4, <2>5 DEF IInv, MemberIds
  <2>13. members' \in [Id -> Node \cup {None}] /\ owed' \subseteq MemberIds'
    BY <2>3, <2>4, <2>5 DEF IInv, TypeOK
  <2> QED BY <2>9, <2>10, <2>11, <2>12, <2>13, KeptOrder DEF IInv, TypeOK
<1> QED BY <1>3, <1>4

\* add may rehash the table, but then nobody is owed a turn any more.
LEMMA AddedInv ==
  ASSUME IInv, NEW node \in Node, Added(node)
  PROVE  IInv'
<1>1. OrderIs
  BY OrderFacts
<1>2. PICK id \in Id : id = node.id
  BY DEF Node
<1>3. /\ members[id] = None
      /\ members' = [members EXCEPT ![id] = node]
      /\ order' \in SetToSeqs(ToSet(order) \cup {id})
      /\ iter' = iter
      /\ owed' = IF \E i \in DOMAIN order' : RemoveAt(order', i) = order THEN owed ELSE {}
  BY <1>2 DEF Added, AddAsserted, Add
<1>4. /\ node # None /\ members \in [Id -> Node \cup {None}]
      /\ \A other \in Id : members'[other] = IF other = id THEN node ELSE members[other]
  BY <1>3, MemberSetAssumption DEF IInv, TypeOK
<1>5. MemberIds' = MemberIds \cup {id} /\ id \notin MemberIds
  BY <1>3, <1>4 DEF MemberIds
<1>6. MemberIds' = ToSet(order) \cup {id} /\ IsFiniteSet(MemberIds')
  BY <1>1, <1>5, FS_AddElement DEF OrderIs, IInv
<1>7. order' \in SetToSeqs(MemberIds')
  BY <1>3, <1>6
<1>8. OrderIs'
  <2>1. /\ order' \in Seq(MemberIds') /\ Len(order') \in Nat
        /\ DOMAIN order' = 1 .. Len(order')
        /\ \A i, j \in 1 .. Len(order') : order'[i] = order'[j] => i = j
        /\ ToSet(order') = MemberIds'
    BY <1>6, <1>7, ArrangementProperties
  <2>2. MemberIds' \subseteq Id
    BY DEF MemberIds
  <2>3. order' \in Seq(Id)
    BY <2>1, <2>2, SeqMonotonic
  <2> QED BY <2>1, <2>3 DEF OrderIs
<1>9. OwedAhead'
  <2>1. SUFFICES ASSUME NEW i \in 1 .. Len(order'), order'[i] \in owed'
                 PROVE  \E j \in 1 .. i : order'[j] = iter'
    BY DEF OwedAhead
  <2>2. PICK q \in 1 .. Len(order') : RemoveAt(order', q) = order
    BY <1>3, <1>8, <2>1 DEF OrderIs
  <2>3. owed' = owed
    BY <1>3, <1>8, <2>2 DEF OrderIs
  <2>4. /\ order' \in Seq(Id) /\ Len(order') \in Nat /\ q \in Nat /\ q >= 1
        /\ i \in Nat /\ i >= 1 /\ i <= Len(order') /\ q <= Len(order')
    BY <1>8, <2>1, <2>2 DEF OrderIs
  <2>5. /\ Len(order) = Len(order') - 1
        /\ \A j \in 1 .. Len(order') - 1 :
             order[j] = IF j < q THEN order'[j] ELSE order'[j + 1]
    BY <2>2, <2>4, RemoveAtProperties
  <2>6. ToSet(order) = ToSet(order') \ {order'[q]}
    BY <1>8, <2>2, <2>4, EraseDistinct DEF OrderIs
  <2>7. order'[i] \in ToSet(order)
    BY <1>1, <2>1, <2>3 DEF IInv, TypeOK, OrderIs
  <2>8. i # q
    BY <2>6, <2>7
  <2>9. PICK k \in 1 .. Len(order) : /\ k = (IF i < q THEN i ELSE i - 1)
                                     /\ order[k] = order'[i]
    BY <2>4, <2>5, <2>8
  <2>10. PICK m \in 1 .. k : order[m] = iter
    BY <2>1, <2>3, <2>9 DEF IInv, OwedAhead
  <2>11. m \in Nat /\ m >= 1 /\ m <= Len(order) /\ m <= k /\ k \in Nat
    BY <2>4, <2>5, <2>9, <2>10
  <2>12. CASE m < q
    <3>1. m \in 1 .. i /\ order'[m] = order[m]
      BY <2>4, <2>5, <2>9, <2>11, <2>12
    <3> QED BY <1>3, <2>10, <3>1
  <2>13. CASE ~(m < q)
    <3>1. m + 1 \in 1 .. i /\ order'[m + 1] = order[m]
      BY <2>4, <2>5, <2>8, <2>9, <2>11, <2>13
    <3> QED BY <1>3, <2>10, <3>1
  <2> QED BY <2>12, <2>13
<1>10. \A other \in MemberIds' : members'[other].id = other
  BY <1>2, <1>4, <1>5 DEF IInv, MemberIds
<1>11. members' \in [Id -> Node \cup {None}]
  BY <1>3 DEF IInv, TypeOK
<1>12. iter' \in MemberIds' \cup {End} /\ owed' \subseteq MemberIds'
  BY <1>3, <1>5 DEF IInv, TypeOK
<1> QED BY <1>6, <1>7, <1>9, <1>10, <1>11, <1>12 DEF IInv, TypeOK

\* fetch hands out what lies between the old place of the iterator and the new.
LEMMA FetchesInv ==
  ASSUME IInv, NEW num \in 0 .. MaxFetch, Fetches(num)
  PROVE  IInv'
<1>1. OrderIs
  BY OrderFacts
<1>2. /\ members' = members /\ order' = order /\ Len(order) \in Nat
      /\ MemberIds' = MemberIds
  BY <1>1 DEF Fetches, Fetch, OrderIs, MemberIds
<1>3. CASE num = 0 \/ num > Len(order)
  <2>1. iter' = iter /\ owed' = owed
    BY <1>3 DEF Fetches, Fetch
  <2> QED BY <1>2, <2>1 DEF IInv, TypeOK, OwedAhead
<1>4. CASE num \in 1 .. Len(order) - 1
  <2>1. PICK start : start = IF iter = End THEN 1 ELSE Position(iter)
    OBVIOUS
  <2>2. PICK at : at = [k \in 1 .. Len(order) |-> FetchPosition(k)]
    OBVIOUS
  <2>3. /\ start \in 1 .. Len(order)
        /\ \A k \in 1 .. Len(order) :
             at[k] = IF start + k - 1 <= Len(order) THEN start + k - 1
                     ELSE start + k - 1 - Len(order)
    BY <1>1, <1>2, <1>4, <2>1, <2>2, WalkFacts
  <2>4. num \in 1 .. Len(order) /\ num # 0 /\ ~(num > Len(order))
    BY <1>2, <1>4
  <2>5. at[num] \in 1 .. Len(order)
    BY <1>2, <2>3, <2>4
  <2>6. iter' = IF at[num] = Len(order) THEN End ELSE order[at[num] + 1]
    BY <2>2, <2>4 DEF Fetches, Fetch, After
  <2>7. iter' \in MemberIds' \cup {End}
    <3>1. CASE at[num] = Len(order)
      BY <2>6, <3>1
    <3>2. CASE at[num] # Len(order)
      <4>1. at[num] + 1 \in 1 .. Len(order)
        BY <1>2, <2>5, <3>2
      <4> QED BY <1>1, <1>2, <2>6, <3>2, <4>1 DEF OrderIs, ToSet
    <3> QED BY <3>1, <3>2
  <2>8. owed' = IF Wraps(num) = {} THEN owed \ Handed(1, num)
                ELSE MemberIds \ Handed(Max(Wraps(num)), num)
    BY <2>4 DEF Fetches
  <2>9. Wraps(num) = IF iter = End THEN {1}
                     ELSE IF start + num - 1 <= Len(order) THEN {}
                     ELSE {Len(order) + 2 - start}
    BY <1>1, <2>1, <2>4, WrapFacts
  <2>10. \A x : Max({x}) = x
    BY DEF Max
  <2>11. owed' \subseteq MemberIds'
    BY <1>2, <2>8 DEF IInv, TypeOK
  <2>12. \A j, k \in 1 .. num : \A l \in j .. k : order[at[l]] \in Handed(j, k)
    BY <1>2, <2>2, <2>4 DEF Handed
  <2>13. OwedAhead'
    <3>1. SUFFICES ASSUME NEW i \in 1 .. Len(order), order[i] \in owed'
                   PROVE  \E j \in 1 .. i : order[j] = iter'
      BY <1>2 DEF OwedAhead
    <3>2. SUFFICES i > at[num]
      <4>1. at[num] + 1 \in 1 .. i /\ at[num] # Len(order)
        BY <1>2, <2>5, <3>1, <3>2
      <4> QED BY <2>6, <4>1
    <3>3. CASE iter = End
      <4>1. start = 1 /\ at[num] = num /\ order[i] \notin Handed(1, num)
        <5>1. start = 1 /\ start + num - 1 <= Len(order)
          BY <1>2, <1>4, <2>1, <3>3
        <5>2. at[num] = num
          BY <1>2, <2>3, <2>4, <5>1
        <5>3. order[i] \notin Handed(1, num)
          BY <2>8, <2>9, <2>10, <3>1, <3>3
        <5> QED BY <5>1, <5>2, <5>3
      <4>2. ~(i <= num)
        <5>1. SUFFICES ASSUME i <= num PROVE FALSE
          OBVIOUS
        <5>2. i \in 1 .. num /\ at[i] = i /\ 1 \in 1 .. num /\ num \in 1 .. num
          BY <1>2, <2>3, <2>4, <4>1, <5>1
        <5> QED BY <2>12, <4>1, <5>2
      <4> QED BY <1>2, <2>4, <4>1, <4>2
    <3>4. CASE iter # End /\ start + num - 1 <= Len(order)
      <4>1. /\ at[num] = start + num - 1
            /\ order[i] \in owed /\ order[i] \notin Handed(1, num)
        BY <2>3, <2>4, <2>8, <2>9, <3>1, <3>4
      <4>2. i >= start
        <5>1. PICK j \in 1 .. i : order[j] = iter
          BY <4>1 DEF IInv, OwedAhead
        <5>2. order[start] = iter /\ iter \in MemberIds
          BY <1>1, <2>1, <3>4, PositionProperties DEF IInv, TypeOK
        <5>3. j = start
          BY <1>1, <1>2, <2>3, <5>1, <5>2 DEF OrderIs
        <5> QED BY <5>1, <5>3
      <4>3. ~(i <= start + num - 1)
        <5>1. SUFFICES ASSUME i <= start + num - 1 PROVE FALSE
          OBVIOUS
        <5>2. i - start + 1 \in 1 .. num /\ i - start + 1 \in 1 .. Len(order)
          BY <1>2, <2>3, <2>4, <4>2, <5>1
        <5>3. at[i - start + 1] = i
          <6>1. PICK k \in 1 .. Len(order) : k = i - start + 1
            BY <5>2
          <6>2. start + k - 1 = i
            BY <1>2, <2>3, <6>1
          <6> QED BY <2>3, <6>1, <6>2
        <5>4. 1 \in 1 .. num /\ num \in 1 .. num
          BY <2>4
        <5> QED BY <2>12, <4>1, <5>2, <5>3, <5>4
      <4> QED BY <1>2, <2>3, <2>4, <4>1, <4>3
    <3>5. CASE iter # End /\ ~(start + num - 1 <= Len(order))
      <4>1. PICK w \in 1 .. num : w = Len(order) + 2 - start
        <5>1. start \in Int /\ start <= Len(order) /\ num \in Int /\ start + num - 1 > Len(order)
          BY <1>2, <2>3, <2>4, <3>5
        <5>2. Len(order) + 2 - start \in 1 .. num
          BY <1>2, <5>1
        <5> QED BY <5>2
      <4>2. /\ at[num] = start + num - 1 - Len(order)
            /\ order[i] \notin Handed(w, num)
        BY <2>3, <2>4, <2>8, <2>9, <2>10, <3>1, <3>5, <4>1
      <4>3. ~(i <= at[num])
        <5>1. SUFFICES ASSUME i <= at[num] PROVE FALSE
          OBVIOUS
        <5>2. w + i - 1 \in w .. num /\ w + i - 1 \in 1 .. Len(order)
          BY <1>2, <2>3, <2>4, <4>1, <4>2, <5>1
        <5>3. at[w + i - 1] = i
          <6>1. PICK k \in 1 .. Len(order) : k = w + i - 1
            BY <5>2
          <6>2. start + k - 1 = i + Len(order) /\ ~(i + Len(order) <= Len(order))
            BY <1>2, <2>3, <4>1, <6>1
          <6>3. start + k - 1 - Len(order) = i
            BY <1>2, <2>3, <6>1, <6>2
          <6>4. ~(start + k - 1 <= Len(order))
            BY <6>2
          <6>5. at[k] = start + k - 1 - Len(order)
            BY <2>3, <6>4
          <6> QED BY <6>1, <6>3, <6>5
        <5>4. num \in 1 .. num
          BY <2>4
        <5> QED BY <2>12, <4>1, <4>2, <5>2, <5>3, <5>4
      <4> QED BY <2>5, <4>3
    <3> QED BY <3>3, <3>4, <3>5
  <2> QED BY <1>2, <2>7, <2>11, <2>13 DEF IInv, TypeOK
<1>5. num \in 1 .. Len(order) - 1 \/ num = 0 \/ num > Len(order)
  BY <1>2 DEF Fetches, FetchAsserted
<1> QED BY <1>3, <1>4, <1>5

THEOREM SweepInvariant == Spec => []IInv
<1>1. ASSUME IInv, UNCHANGED vars
      PROVE  IInv'
  BY <1>1 DEF IInv, TypeOK, OwedAhead, MemberIds, vars
<1>2. ASSUME IInv, [Next]_vars
      PROVE  IInv'
  BY <1>1, <1>2, UpdatedInv, AddedInv, FetchesInv DEF Next
<1> QED BY <1>2, InitInv, PTL DEF Spec

\* The table, its iteration order and the iterator agree, whatever is erased
\* under the iterator and however an insertion rearranges the elements.
THEOREM SweepTypes == Spec => []TypeOK
BY SweepInvariant, PTL DEF IInv

\* No member is handed out twice for one message, however the walk wraps.
THEOREM HandedOutOnce == Spec => []FetchedOnce
<1>1. ASSUME IInv
      PROVE  FetchedOnce
  <2>1. OrderIs
    BY <1>1, OrderFacts
  <2>2. SUFFICES ASSUME NEW num \in 1 .. Len(order)
                 PROVE  Cardinality(ToSet(Fetched(num))) = num
    BY DEF FetchedOnce
  <2>3. Len(order) \in Nat /\ num \in Nat /\ num <= Len(order)
    BY <2>1 DEF OrderIs
  <2>4. PICK got : /\ got = Fetched(num)
                   /\ got = [k \in 1 .. num |-> members[order[FetchPosition(k)]]]
    <3>1. ~(num > Len(order))
      BY <2>3
    <3> QED BY <3>1 DEF Fetched
  <2>5. PICK start : start = IF iter = End THEN 1 ELSE Position(iter)
    OBVIOUS
  <2>6. /\ start \in 1 .. Len(order)
        /\ \A k \in 1 .. num :
             FetchPosition(k) = IF start + k - 1 <= Len(order) THEN start + k - 1
                                ELSE start + k - 1 - Len(order)
    BY <1>1, <2>1, <2>3, <2>5, WalkFacts
  <2>7. ASSUME NEW k \in 1 .. num
        PROVE  /\ FetchPosition(k) \in 1 .. Len(order)
               /\ order[FetchPosition(k)] \in MemberIds
               /\ got[k].id = order[FetchPosition(k)]
    <3>1. FetchPosition(k) \in 1 .. Len(order)
      BY <2>3, <2>6
    <3>2. order[FetchPosition(k)] \in MemberIds
      BY <2>1, <3>1 DEF OrderIs, ToSet
    <3> QED BY <1>1, <2>4, <3>1, <3>2 DEF IInv
  <2>8. ASSUME NEW j \in 1 .. num, NEW k \in 1 .. num, got[j] = got[k]
        PROVE  j = k
    <3>1. FetchPosition(j) = FetchPosition(k)
      BY <2>1, <2>7, <2>8 DEF OrderIs
    <3> QED BY <2>3, <2>6, <3>1
  <2>9. got \in Seq({got[k] : k \in 1 .. num}) /\ Len(got) = num
    <3>1. got \in [1 .. num -> {got[k] : k \in 1 .. num}]
      BY <2>4
    <3> QED BY <2>3, <3>1, SeqDef, LenProperties
  <2> QED BY <2>4, <2>8, <2>9, DistinctIsArrangement
<1> QED BY <1>1, SweepInvariant, PTL

\* The round robin is fair: a sweep that ends has handed out every member that
\* was there when it began and still is, whatever was erased or inserted
\* meanwhile without a rehash.
THEOREM SweepMissesNobody == Spec => SweepComplete
<1>1. ASSUME IInv
      PROVE  \A num \in 1 .. Len(order), id \in owed :
               Fetches(num) /\ Wraps(num) # {} => id \in Handed(1, Max(Wraps(num)) - 1)
  <2>1. SUFFICES ASSUME NEW num \in 1 .. Len(order), NEW id \in owed, Wraps(num) # {}
                 PROVE  id \in Handed(1, Max(Wraps(num)) - 1)
    OBVIOUS
  <2>2. OrderIs
    BY <1>1, OrderFacts
  <2>3. PICK i \in 1 .. Len(order) : order[i] = id
    BY <1>1, <2>2 DEF IInv, TypeOK, OrderIs, ToSet
  <2>4. PICK j \in 1 .. i : order[j] = iter
    BY <1>1, <2>3 DEF IInv, OwedAhead
  <2>5. Len(order) \in Nat /\ j \in 1 .. Len(order) /\ iter \in MemberIds
    BY <2>2, <2>3, <2>4 DEF OrderIs, ToSet
  <2>6. iter # End
    BY <2>5, MemberSetAssumption DEF MemberIds
  <2>7. PICK start : start = Position(iter)
    OBVIOUS
  <2>8. start = j
    BY <2>2, <2>4, <2>5, <2>7, PositionProperties DEF OrderIs
  <2>9. Wraps(num) = {Len(order) + 2 - start}
    BY <1>1, <2>1, <2>2, <2>6, <2>7, WrapFacts
  <2>10. Max(Wraps(num)) = Len(order) + 2 - start
    BY <2>9 DEF Max
  <2>11. i - start + 1 \in 1 .. Len(order) /\ i - start + 1 \in 1 .. (Len(order) + 2 - start) - 1
    BY <2>4, <2>5, <2>8
  <2>12. FetchPosition(i - start + 1) = i
    <3>1. FetchPosition(i - start + 1) =
            IF start + (i - start + 1) - 1 <= Len(order) THEN start + (i - start + 1) - 1
            ELSE start + (i - start + 1) - 1 - Len(order)
      BY <1>1, <2>2, <2>6, <2>7, <2>11, WalkFacts
    <3> QED BY <2>5, <2>8, <3>1
  <2> QED BY <2>3, <2>10, <2>11, <2>12 DEF Handed
<1>2. ASSUME IInv
      PROVE  [\A num \in 1 .. Len(order), id \in owed :
                Fetches(num) /\ Wraps(num) # {} => id \in Handed(1, Max(Wraps(num)) - 1)]_vars
  BY <1>1, <1>2
<1> QED BY <1>2, SweepInvariant, PTL DEF SweepComplete
==============================================================================
