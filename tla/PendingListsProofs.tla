------------------------- MODULE PendingListsProofs --------------------------
(***************************************************************************)
(* Proofs that PendingLists loses no task, returns none twice and times    *)
(* out what is due, for every set of members and tasks, whatever the order *)
(* of its calls and the milliseconds they come in; with what the proofs of *)
(* other modules need too, about induction and about loops.                *)
(***************************************************************************)
EXTENDS PendingLists, Integers, FiniteSetTheorems, SequenceTheorems, TLAPS

\* An entry was not added in the future, and is filed under its task's id.
FiledInTime ==
  \A id \in Id : \A i \in 1 .. Len(task_index[id]) :
    /\ task_index[id][i].time <= now
    /\ task_index[id][i].task # Null => IdOf[task_index[id][i].task] = id

IInv == TypeOK /\ OneOwner /\ FiledInTime

------------------------------------------------------------------------------
(* Induction.  The provers instantiate no theorem about an operator, so    *)
(* that a property is given as a set.                                      *)

\* A nonempty set of naturals has a least element: the sets 0 .. n - 1 of its
\* elements n are finite, and the strict subset ordering is well-founded on those.
LEMMA LeastNatural ==
  ASSUME NEW T \in SUBSET Nat, T # {}
  PROVE  \E n \in T : \A m \in T : n <= m
<1> DEFINE below == {0 .. n - 1 : n \in T}
<1>1. below \subseteq FiniteSubsetsOf(Nat) /\ below # {}
  <2>1. ASSUME NEW n \in T PROVE 0 .. n - 1 \in SUBSET Nat /\ IsFiniteSet(0 .. n - 1)
    <3>1. 0 \in Int /\ n - 1 \in Int
      OBVIOUS
    <3> QED BY <3>1, FS_Interval
  <2> QED BY <2>1 DEF FiniteSubsetsOf
<1>2. IsWellFoundedOn(StrictSubsetOrdering(Nat), FiniteSubsetsOf(Nat))
  BY FS_StrictSubsetOrderingWellFounded
<1>3. PICK x \in below : \A y \in below : ~(<<y, x>> \in StrictSubsetOrdering(Nat))
  <2> HIDE DEF below
  <2> QED BY <1>1, <1>2, WFMin
<1>4. PICK n \in T : x = 0 .. n - 1
  OBVIOUS
<1>5. ASSUME NEW m \in T, m < n
      PROVE  FALSE
  <2>1. 0 .. m - 1 \in below
    OBVIOUS
  <2>2. 0 .. m - 1 \subseteq 0 .. n - 1 /\ 0 .. n - 1 \subseteq Nat
    BY <1>5
  <2>3. m \in 0 .. n - 1 /\ m \notin 0 .. m - 1
    BY <1>5
  <2>4. <<0 .. m - 1, 0 .. n - 1>> \in StrictSubsetOrdering(Nat)
    BY <2>2, <2>3 DEF StrictSubsetOrdering
  <2> QED BY <1>3, <1>4, <2>1, <2>4
<1> QED BY <1>5

\* Induction, with the property as the set of the naturals that have it.
LEMMA NatSetInduction ==
  ASSUME NEW T \in SUBSET Nat, 0 \in T, \A n \in T : n + 1 \in T
  PROVE  T = Nat
<1>1. SUFFICES ASSUME Nat \ T # {} PROVE FALSE
  OBVIOUS
<1>2. PICK n \in Nat \ T : \A m \in Nat \ T : n <= m
  <2>1. Nat \ T \in SUBSET Nat
    OBVIOUS
  <2> QED BY <1>1, <2>1, LeastNatural
<1>3. n # 0 /\ n - 1 \in Nat /\ ~(n <= n - 1)
  BY <1>2
<1>4. n - 1 \in T
  BY <1>2, <1>3
<1> QED BY <1>2, <1>3, <1>4

------------------------------------------------------------------------------
(* Loops.                                                                  *)

\* A loop that goes through 1 .. n with a value in X; step gives its value after
\* an iteration from the one before.
IsLoop(f, X, n, base, step) ==
  /\ f \in [0 .. n -> X] /\ f[0] = base
  /\ \A i \in 1 .. n : f[i] = step[<<f[i - 1], i>>]

\* There is such a function.
LEMMA LoopExists ==
  ASSUME NEW X, NEW n \in Nat, NEW base \in X, NEW step \in [X \X (1 .. n) -> X]
  PROVE  \E f : IsLoop(f, X, n, base, step)
<1> DEFINE Runs(f, m) == /\ f \in [0 .. m -> X] /\ f[0] = base
                         /\ \A i \in 1 .. m : f[i] = step[<<f[i - 1], i>>]
           T == {m \in Nat : m <= n => \E f : Runs(f, m)}
<1>1. 0 \in T
  <2>1. PICK f : f = [i \in 0 .. 0 |-> base]
    OBVIOUS
  <2>2. Runs(f, 0)
    BY <2>1
  <2> HIDE DEF Runs
  <2> QED BY <2>2
<1>2. ASSUME NEW m \in T PROVE m + 1 \in T
  <2>1. SUFFICES ASSUME m + 1 <= n PROVE \E f : Runs(f, m + 1)
    <3> HIDE DEF Runs
    <3> QED OBVIOUS
  <2>2. PICK f : Runs(f, m)
    <3> HIDE DEF Runs
    <3> QED BY <2>1
  <2>3. f \in [0 .. m -> X] /\ f[0] = base /\ \A i \in 1 .. m : f[i] = step[<<f[i - 1], i>>]
    BY <2>2
  <2>4. PICK next \in X : next = step[<<f[m], m + 1>>]
    <3>1. m \in 0 .. m /\ m + 1 \in 1 .. n
      BY <2>1
    <3>2. <<f[m], m + 1>> \in X \X (1 .. n)
      BY <2>3, <3>1
    <3> QED BY <3>2
  <2>5. PICK g : g = [i \in 0 .. m + 1 |-> IF i = m + 1 THEN next ELSE f[i]]
    OBVIOUS
  <2>6. \A i \in 0 .. m + 1 : i # m + 1 => i \in 0 .. m
    OBVIOUS
  <2>7. g \in [0 .. m + 1 -> X]
    BY <2>3, <2>5, <2>6
  <2>8. \A i \in 0 .. m : g[i] = f[i]
    BY <2>5
  <2>9. ASSUME NEW i \in 1 .. m + 1 PROVE g[i] = step[<<g[i - 1], i>>]
    <3>1. i - 1 \in 0 .. m
      OBVIOUS
    <3>2. g[i - 1] = f[i - 1]
      BY <2>8, <3>1
    <3>3. CASE i = m + 1
      <4>1. i - 1 = m /\ g[i] = next
        BY <2>5, <3>3
      <4> QED BY <2>4, <3>2, <3>3, <4>1
    <3>4. CASE i # m + 1
      <4>1. i \in 1 .. m /\ i \in 0 .. m
        BY <3>4
      <4> QED BY <2>3, <2>8, <3>2, <4>1
    <3> QED BY <3>3, <3>4
  <2>10. g[0] = base
    BY <2>3, <2>8
  <2> QED BY <2>7, <2>9, <2>10
<1>3. T \in SUBSET Nat
  OBVIOUS
<1> HIDE DEF T, Runs
<1>4. T = Nat
  BY <1>1, <1>2, <1>3, NatSetInduction
<1>5. \E f : Runs(f, n)
  BY <1>4 DEF T
<1> QED BY <1>5 DEF Runs, IsLoop

\* kept[i] is what a loop that copies the elements of s that are not in drop has
\* copied after the i-th.
Copies(kept, s, drop) ==
  kept = [i \in 0 .. Len(s) |->
            IF i = 0 THEN << >>
            ELSE IF s[i] \in drop THEN kept[i - 1] ELSE Append(kept[i - 1], s[i])]

\* That is well defined.
LEMMA CopyExists ==
  ASSUME NEW S, NEW s \in Seq(S), NEW drop
  PROVE  \E kept : Copies(kept, s, drop)
<1>1. Len(s) \in Nat /\ \A i \in 1 .. Len(s) : s[i] \in S
  BY LenProperties, ElementOfSeq
<1>2. PICK step : step = [p \in Seq(S) \X (1 .. Len(s)) |->
                            IF s[p[2]] \in drop THEN p[1] ELSE Append(p[1], s[p[2]])]
  OBVIOUS
<1>3. step \in [Seq(S) \X (1 .. Len(s)) -> Seq(S)]
  BY <1>1, <1>2, AppendProperties
<1>4. PICK f : IsLoop(f, Seq(S), Len(s), << >>, step)
  BY <1>1, <1>3, EmptySeq, LoopExists
<1>5. ASSUME NEW i \in 1 .. Len(s)
      PROVE  f[i] = IF s[i] \in drop THEN f[i - 1] ELSE Append(f[i - 1], s[i])
  <2>1. f[i - 1] \in Seq(S)
    BY <1>1, <1>4 DEF IsLoop
  <2> QED BY <1>2, <1>4, <2>1 DEF IsLoop
<1>6. \A i \in 0 .. Len(s) : i = 0 \/ i \in 1 .. Len(s)
  BY <1>1
<1> QED BY <1>4, <1>5, <1>6 DEF Copies, IsLoop

\* An element of the copy comes from a place of its own.
LEMMA CopyProperties ==
  ASSUME NEW S, NEW s \in Seq(S), NEW drop, NEW kept, Copies(kept, s, drop)
  PROVE  LET t == kept[Len(s)]
         IN  /\ t \in Seq(S) /\ Len(t) \in Nat
             /\ ToSet(t) = ToSet(s) \ drop
             /\ \E at \in [1 .. Len(t) -> 1 .. Len(s)] :
                  /\ \A j \in 1 .. Len(t) : t[j] = s[at[j]]
                  /\ \A j, k \in 1 .. Len(t) : at[j] = at[k] => j = k
<1> DEFINE From(n, at) ==
             LET t == kept[n]
             IN  /\ t \in Seq(S) /\ Len(t) \in Nat
                 /\ at \in [1 .. Len(t) -> 1 .. n]
                 /\ \A j \in 1 .. Len(t) : t[j] = s[at[j]] /\ s[at[j]] \notin drop
                 /\ \A j, k \in 1 .. Len(t) : at[j] = at[k] => j = k
                 /\ \A i \in 1 .. n : s[i] \notin drop => \E j \in 1 .. Len(t) : at[j] = i
           T == {n \in Nat : n <= Len(s) => \E at : From(n, at)}
<1>1. Len(s) \in Nat /\ DOMAIN s = 1 .. Len(s) /\ \A i \in 1 .. Len(s) : s[i] \in S
  BY LenProperties, ElementOfSeq
<1>2. 0 \in T
  <2>1. kept[0] = << >>
    BY <1>1 DEF Copies
  <2>2. Len(kept[0]) = 0 /\ kept[0] \in Seq(S)
    BY <2>1, EmptySeq
  <2>3. [j \in 1 .. 0 |-> j] \in [1 .. 0 -> 1 .. 0]
    OBVIOUS
  <2>4. From(0, [j \in 1 .. 0 |-> j])
    BY <2>2, <2>3
  <2> HIDE DEF From
  <2> QED BY <2>4
<1>3. ASSUME NEW n \in T PROVE n + 1 \in T
  <2>1. SUFFICES ASSUME n + 1 <= Len(s) PROVE \E at : From(n + 1, at)
    <3> HIDE DEF From
    <3> QED OBVIOUS
  <2>2. PICK at : From(n, at)
    <3> HIDE DEF From
    <3>1. n <= Len(s)
      BY <1>1, <2>1
    <3> QED BY <3>1
  <2>3. PICK t : t = kept[n]
    OBVIOUS
  <2>4. /\ t \in Seq(S) /\ Len(t) \in Nat
        /\ at \in [1 .. Len(t) -> 1 .. n]
        /\ \A j \in 1 .. Len(t) : t[j] = s[at[j]] /\ s[at[j]] \notin drop
        /\ \A j, k \in 1 .. Len(t) : at[j] = at[k] => j = k
        /\ \A i \in 1 .. n : s[i] \notin drop => \E j \in 1 .. Len(t) : at[j] = i
    BY <2>2, <2>3
  <2>5. n + 1 \in 1 .. Len(s) /\ s[n + 1] \in S
    BY <1>1, <2>1
  <2>6. kept[n + 1] = IF s[n + 1] \in drop THEN t ELSE Append(t, s[n + 1])
    <3>1. n + 1 \in 0 .. Len(s) /\ n + 1 # 0 /\ (n + 1) - 1 = n
      <4>1. n \in Nat
        OBVIOUS
      <4> HIDE DEF T
      <4> QED BY <1>1, <2>1, <4>1
    <3>2. kept[n + 1] = IF s[n + 1] \in drop THEN kept[(n + 1) - 1]
                        ELSE Append(kept[(n + 1) - 1], s[n + 1])
      BY <3>1 DEF Copies
    <3> QED BY <2>3, <3>1, <3>2
  <2>7. CASE s[n + 1] \in drop
    <3>1. at \in [1 .. Len(t) -> 1 .. n + 1]
      BY <2>4
    <3>2. \A i \in 1 .. n + 1 : s[i] \notin drop => i \in 1 .. n
      <4>1. SUFFICES ASSUME NEW i \in 1 .. n + 1, s[i] \notin drop PROVE i \in 1 .. n
        OBVIOUS
      <4>2. i # n + 1
        BY <2>7, <4>1
      <4> QED BY <4>2
    <3>3. From(n + 1, at)
      BY <2>4, <2>6, <2>7, <3>1, <3>2
    <3> HIDE DEF From
    <3> QED BY <3>3
  <2>8. CASE s[n + 1] \notin drop
    <3>1. PICK u : u = Append(t, s[n + 1])
      OBVIOUS
    <3>2. /\ u \in Seq(S) /\ Len(u) = Len(t) + 1
          /\ \A j \in 1 .. Len(t) : u[j] = t[j]
          /\ u[Len(t) + 1] = s[n + 1]
      BY <2>4, <2>5, <3>1, AppendProperties
    <3>3. PICK to : to = [j \in 1 .. Len(t) + 1 |-> IF j = Len(t) + 1 THEN n + 1 ELSE at[j]]
      OBVIOUS
    <3>4. /\ \A j \in 1 .. Len(t) + 1 : j # Len(t) + 1 => j \in 1 .. Len(t)
          /\ Len(t) + 1 \in 1 .. Len(t) + 1
          /\ \A j \in 1 .. Len(t) : j \in 1 .. Len(t) + 1 /\ j # Len(t) + 1
          /\ \A i \in 1 .. n : i \in 1 .. n + 1 /\ i # n + 1
          /\ \A i \in 1 .. n + 1 : i # n + 1 => i \in 1 .. n
          /\ n + 1 \in 1 .. n + 1
      BY <2>4
    <3>5. to \in [1 .. Len(t) + 1 -> 1 .. n + 1]
      BY <2>4, <3>3, <3>4
    <3>6. \A j \in 1 .. Len(t) + 1 : u[j] = s[to[j]] /\ s[to[j]] \notin drop
      BY <2>4, <2>8, <3>2, <3>3, <3>4
    <3>7. \A j, k \in 1 .. Len(t) + 1 : to[j] = to[k] => j = k
      <4>1. SUFFICES ASSUME NEW j \in 1 .. Len(t) + 1, NEW k \in 1 .. Len(t) + 1, to[j] = to[k]
                     PROVE  j = k
        OBVIOUS
      <4>2. CASE j = Len(t) + 1 /\ k # Len(t) + 1
        BY <2>4, <3>3, <3>4, <4>1, <4>2
      <4>3. CASE j # Len(t) + 1 /\ k = Len(t) + 1
        BY <2>4, <3>3, <3>4, <4>1, <4>3
      <4>4. CASE j # Len(t) + 1 /\ k # Len(t) + 1
        BY <2>4, <3>3, <3>4, <4>1, <4>4
      <4> QED BY <4>2, <4>3, <4>4
    <3>8. \A i \in 1 .. n + 1 : s[i] \notin drop => \E j \in 1 .. Len(t) + 1 : to[j] = i
      <4>1. SUFFICES ASSUME NEW i \in 1 .. n + 1, s[i] \notin drop
                     PROVE  \E j \in 1 .. Len(t) + 1 : to[j] = i
        OBVIOUS
      <4>2. CASE i = n + 1
        BY <3>3, <3>4, <4>2
      <4>3. CASE i # n + 1
        <5>1. PICK j \in 1 .. Len(t) : at[j] = i
          BY <2>4, <3>4, <4>1, <4>3
        <5> QED BY <3>3, <3>4, <5>1
      <4> QED BY <4>2, <4>3
    <3>9. kept[n + 1] = u /\ Len(u) \in Nat
      <4>1. kept[n + 1] = u
        BY <2>6, <2>8, <3>1
      <4>2. Len(u) \in Nat
        BY <2>4, <3>2
      <4> QED BY <4>1, <4>2
    <3>10. From(n + 1, to)
      BY <3>2, <3>5, <3>6, <3>7, <3>8, <3>9
    <3> HIDE DEF From
    <3> QED BY <3>10
  <2> QED BY <2>7, <2>8
<1>4. T = Nat
  <2> HIDE DEF T
  <2>1. T \in SUBSET Nat
    BY DEF T
  <2> QED BY <1>2, <1>3, <2>1, NatSetInduction
<1>5. PICK at : From(Len(s), at)
  <2> HIDE DEF From
  <2> QED BY <1>1, <1>4
<1>6. PICK t : t = kept[Len(s)]
  OBVIOUS
<1>7. /\ t \in Seq(S) /\ Len(t) \in Nat
      /\ at \in [1 .. Len(t) -> 1 .. Len(s)]
      /\ \A j \in 1 .. Len(t) : t[j] = s[at[j]] /\ s[at[j]] \notin drop
      /\ \A j, k \in 1 .. Len(t) : at[j] = at[k] => j = k
      /\ \A i \in 1 .. Len(s) : s[i] \notin drop => \E j \in 1 .. Len(t) : at[j] = i
  BY <1>5, <1>6
<1>8. ToSet(t) = ToSet(s) \ drop
  <2>1. DOMAIN t = 1 .. Len(t)
    BY <1>7, LenProperties
  <2>2. \A x \in ToSet(t) : x \in ToSet(s) \ drop
    BY <1>1, <1>7, <2>1 DEF ToSet
  <2>3. \A x \in ToSet(s) \ drop : x \in ToSet(t)
    <3>1. SUFFICES ASSUME NEW x \in ToSet(s) \ drop PROVE x \in ToSet(t)
      OBVIOUS
    <3>2. PICK i \in 1 .. Len(s) : x = s[i]
      BY <1>1, <3>1 DEF ToSet
    <3>3. PICK j \in 1 .. Len(t) : at[j] = i
      BY <1>7, <3>1, <3>2
    <3>4. x = t[j]
      BY <1>7, <3>2, <3>3
    <3> QED BY <2>1, <3>4 DEF ToSet
  <2> QED BY <2>2, <2>3
<1> QED BY <1>6, <1>7, <1>8
------------------------------------------------------------------------------
(* What timeout_tasks leaves of a list.                                    *)

\* The entries that have not expired, each from a place of its own.
LEMMA KeptProperties ==
  ASSUME NEW s \in Seq(Entry)
  PROVE  /\ Kept(s) \in Seq(Entry) /\ Len(Kept(s)) \in Nat
         /\ ToSet(Kept(s)) = {entry \in ToSet(s) : ~Expired(entry)}
         /\ \E at \in [1 .. Len(Kept(s)) -> 1 .. Len(s)] :
              /\ \A j \in 1 .. Len(Kept(s)) : Kept(s)[j] = s[at[j]]
              /\ \A j, k \in 1 .. Len(Kept(s)) : at[j] = at[k] => j = k
<1> DEFINE Step(f, i) == IF i = 0 THEN << >>
                         ELSE IF Expired(s[i]) THEN f[i - 1] ELSE Append(f[i - 1], s[i])
<1>1. PICK drop : drop = {entry \in Entry : Expired(entry)}
  OBVIOUS
<1>2. Len(s) \in Nat /\ DOMAIN s = 1 .. Len(s) /\ \A i \in 1 .. Len(s) : s[i] \in Entry
  BY LenProperties, ElementOfSeq
<1>3. \A f : \A i \in 0 .. Len(s) :
        Step(f, i) = IF i = 0 THEN << >>
                     ELSE IF s[i] \in drop THEN f[i - 1] ELSE Append(f[i - 1], s[i])
  <2>1. \A i \in 1 .. Len(s) : s[i] \in drop <=> Expired(s[i])
    BY <1>1, <1>2
  <2>2. \A i \in 0 .. Len(s) : i # 0 => i \in 1 .. Len(s)
    BY <1>2
  <2> QED BY <2>1, <2>2
<1> HIDE DEF Step
<1>4. \E f : f = [i \in 0 .. Len(s) |-> Step(f, i)]
  <2>1. PICK f : Copies(f, s, drop)
    BY CopyExists
  <2>2. f = [i \in 0 .. Len(s) |-> Step(f, i)]
    BY <1>3, <2>1 DEF Copies
  <2> QED BY <2>2
<1>5. PICK kept : /\ kept = [i \in 0 .. Len(s) |-> Step(kept, i)]
                  /\ Kept(s) = kept[Len(s)]
  <2>1. PICK kept : /\ kept = (CHOOSE f : f = [i \in 0 .. Len(s) |-> Step(f, i)])
                    /\ Kept(s) = kept[Len(s)]
    BY DEF Kept, Step
  <2>2. kept = [i \in 0 .. Len(s) |-> Step(kept, i)]
    BY <1>4, <2>1
  <2> QED BY <2>1, <2>2
<1>6. Copies(kept, s, drop)
  BY <1>3, <1>5 DEF Copies
<1>7. PICK t : t = kept[Len(s)]
  OBVIOUS
<1>8. /\ t \in Seq(Entry) /\ Len(t) \in Nat
      /\ ToSet(t) = ToSet(s) \ drop
      /\ \E at \in [1 .. Len(t) -> 1 .. Len(s)] :
           /\ \A j \in 1 .. Len(t) : t[j] = s[at[j]]
           /\ \A j, k \in 1 .. Len(t) : at[j] = at[k] => j = k
  BY <1>6, <1>7, CopyProperties
<1>9. ToSet(s) \ drop = {entry \in ToSet(s) : ~Expired(entry)}
  BY <1>1, <1>2 DEF ToSet
<1>10. Kept(s) = t
  BY <1>5, <1>7
<1> QED BY <1>8, <1>9, <1>10

------------------------------------------------------------------------------
(* Lists of entries.                                                       *)

\* ToSet and DOMAIN of a list, by its positions.
LEMMA ListFacts ==
  ASSUME TypeOK, NEW id \in Id
  PROVE  /\ task_index[id] \in Seq(Entry) /\ Len(task_index[id]) \in Nat
         /\ DOMAIN task_index[id] = 1 .. Len(task_index[id])
         /\ ToSet(task_index[id]) = {task_index[id][i] : i \in 1 .. Len(task_index[id])}
         /\ \A i \in 1 .. Len(task_index[id]) : task_index[id][i] \in Entry
         /\ \A entry \in ToSet(task_index[id]) :
              entry \in Entry /\ entry.task \in Task \cup {Null} /\ entry.time \in Time
<1>1. task_index[id] \in Seq(Entry)
  BY DEF TypeOK
<1>2. /\ Len(task_index[id]) \in Nat /\ DOMAIN task_index[id] = 1 .. Len(task_index[id])
      /\ \A i \in 1 .. Len(task_index[id]) : task_index[id][i] \in Entry
  BY <1>1, LenProperties, ElementOfSeq
<1>3. ToSet(task_index[id]) = {task_index[id][i] : i \in 1 .. Len(task_index[id])}
  BY <1>2 DEF ToSet
<1>4. \A entry \in Entry : entry.task \in Task \cup {Null} /\ entry.time \in Time
  BY DEF Entry
<1> QED BY <1>1, <1>2, <1>3, <1>4

\* A task waits when some entry of some list holds it.
LEMMA PendingIs ==
  ASSUME NEW task
  PROVE  task \in Pending <=>
           /\ task # Null
           /\ \E id \in Id : \E entry \in ToSet(task_index[id]) : entry.task = task
BY DEF Pending, Entries

\* The same of the next state.
LEMMA PendingIsNext ==
  ASSUME NEW task
  PROVE  task \in Pending' <=>
           /\ task # Null
           /\ \E id \in Id : \E entry \in ToSet(task_index'[id]) : entry.task = task
BY DEF Pending, Entries

LEMMA InitInv == Init => IInv
<1> SUFFICES ASSUME Init PROVE IInv
  OBVIOUS
<1>1. \A id \in Id : task_index[id] = << >>
  BY DEF Init
<1>2. /\ << >> \in Seq(Entry) /\ Len(<< >>) = 0 /\ ToSet(<< >>) = {}
      /\ DOMAIN << >> = {}
  BY EmptySeq DEF ToSet
<1>3. TypeOK
  <2>1. now \in Time
    BY PendingAssumption DEF Init, Time
  <2> QED BY <1>1, <1>2, <2>1 DEF Init, TypeOK
<1>4. OneOwner
  <2>1. Pending = {}
    BY <1>1, <1>2 DEF Pending, Entries
  <2> QED BY <1>1, <1>2, <2>1 DEF Init, OneOwner
<1>5. FiledInTime
  BY <1>1, <1>2 DEF FiledInTime
<1> QED BY <1>3, <1>4, <1>5 DEF IInv

LEMMA TickInv ==
  ASSUME IInv, Tick
  PROVE  IInv'
<1>1. /\ now < MaxTime /\ now' = now + 1 /\ now \in Time
      /\ UNCHANGED <<task_index, timeout_index, results, added, returned, checks>>
  BY DEF Tick, IInv, TypeOK
<1>2. now' \in Time /\ \A t \in Time : t <= now => t <= now'
  BY <1>1, PendingAssumption DEF Time
<1>3. TypeOK'
  BY <1>1, <1>2 DEF IInv, TypeOK
<1>4. OneOwner'
  BY <1>1 DEF IInv, OneOwner, Pending, Entries
<1>5. FiledInTime'
  <2>1. \A id \in Id : \A i \in 1 .. Len(task_index[id]) : task_index[id][i].time \in Time
    BY ListFacts DEF IInv, Entry
  <2> QED BY <1>1, <1>2, <2>1 DEF IInv, FiledInTime
<1> QED BY <1>3, <1>4, <1>5 DEF IInv

\* add appends an entry to its member's list.
LEMMA AddInv ==
  ASSUME IInv, NEW task \in Task, Add(task)
  PROVE  IInv'
<1>1. TypeOK /\ now \in Time /\ task # Null
  BY PendingAssumption DEF IInv, TypeOK
<1>2. PICK id \in Id : id = IdOf[task]
  BY PendingAssumption
<1>3. PICK new : new = [task |-> task, time |-> now]
  OBVIOUS
<1>4. /\ task \notin added
      /\ task_index' = [task_index EXCEPT ![id] = Append(@, new)]
      /\ timeout_index' = [timeout_index EXCEPT ![now] = @ \cup {id}]
      /\ added' = added \cup {task} /\ results' = {}
      /\ UNCHANGED <<now, returned, checks>>
  BY <1>2, <1>3 DEF Add, Listed
<1>5. new \in Entry
  BY <1>1, <1>3 DEF Entry
<1>6. /\ task_index'[id] = Append(task_index[id], new)
      /\ \A other \in Id : other # id => task_index'[other] = task_index[other]
  BY <1>1, <1>4 DEF TypeOK
<1>7. PICK n \in Nat : n = Len(task_index[id])
  BY <1>1, ListFacts
<1>8. /\ task_index'[id] \in Seq(Entry) /\ Len(task_index'[id]) = n + 1
      /\ DOMAIN task_index'[id] = 1 .. n + 1
      /\ \A i \in 1 .. n : task_index'[id][i] = task_index[id][i]
      /\ task_index'[id][n + 1] = new
  <2>1. task_index[id] \in Seq(Entry)
    BY <1>1, ListFacts
  <2> QED BY <1>5, <1>6, <1>7, <2>1, AppendProperties, LenProperties
<1>9. ToSet(task_index'[id]) = ToSet(task_index[id]) \cup {new}
  <2>1. ToSet(task_index[id]) = {task_index[id][i] : i \in 1 .. n}
    BY <1>1, <1>7, ListFacts
  <2>2. ToSet(task_index'[id]) = {task_index'[id][i] : i \in 1 .. n + 1}
    BY <1>8 DEF ToSet
  <2>3. \A i \in 1 .. n + 1 : i \in 1 .. n \/ i = n + 1
    OBVIOUS
  <2>4. \A i \in 1 .. n : i \in 1 .. n + 1
    OBVIOUS
  <2>5. n + 1 \in 1 .. n + 1
    OBVIOUS
  <2> QED BY <1>8, <2>1, <2>2, <2>3, <2>4, <2>5
<1>10. TypeOK'
  <2>1. task_index' \in [Id -> Seq(Entry)] /\ timeout_index' \in [Time -> SUBSET Id]
    BY <1>1, <1>4, <1>6, <1>8 DEF TypeOK
  <2>2. \A t \in Time : timeout_index[t] \subseteq timeout_index'[t] /\ id \in timeout_index'[now]
    BY <1>1, <1>4 DEF TypeOK
  <2>3. ASSUME NEW other \in Id, NEW entry \in ToSet(task_index'[other])
        PROVE  other \in timeout_index'[entry.time] \/ entry.time \in checks'
    <3>1. CASE entry \in ToSet(task_index[other])
      <4>1. entry.time \in Time
        BY <1>1, <3>1, ListFacts
      <4> QED BY <1>1, <1>4, <2>2, <3>1, <4>1 DEF TypeOK
    <3>2. CASE entry \notin ToSet(task_index[other])
      <4>1. other = id /\ entry = new
        BY <1>6, <1>9, <2>3, <3>2
      <4> QED BY <1>1, <1>3, <2>2, <4>1
    <3> QED BY <3>1, <3>2
  <2>4. now' \in Time /\ results' \subseteq Task \cup {Null} /\ added' \subseteq Task
        /\ returned' \subseteq Task /\ checks' \subseteq Time
    BY <1>1, <1>4 DEF TypeOK
  <2> QED BY <2>1, <2>3, <2>4 DEF TypeOK
<1>11. task \notin Pending /\ task \notin returned
  BY <1>4 DEF IInv, OneOwner
<1>12. Pending' = Pending \cup {task}
  <2>1. ASSUME NEW other \in Pending PROVE other \in Pending'
    <3>1. PICK i \in Id : \E entry \in ToSet(task_index[i]) : entry.task = other
      BY PendingIs
    <3>2. \E entry \in ToSet(task_index'[i]) : entry.task = other
      BY <1>6, <1>9, <3>1
    <3> QED BY <2>1, <3>2, PendingIs, PendingIsNext
  <2>2. task \in Pending'
    BY <1>1, <1>3, <1>9, PendingIsNext
  <2>3. ASSUME NEW other \in Pending' PROVE other \in Pending \cup {task}
    <3>1. PICK i \in Id : \E entry \in ToSet(task_index'[i]) : entry.task = other
      BY PendingIsNext
    <3>2. \/ \E entry \in ToSet(task_index[i]) : entry.task = other
          \/ other = task
      <4>1. PICK entry \in ToSet(task_index'[i]) : entry.task = other
        BY <3>1
      <4>2. entry \in ToSet(task_index[i]) \/ entry = new
        BY <1>6, <1>9
      <4> QED BY <1>3, <4>1, <4>2
    <3> QED BY <2>3, <3>2, PendingIs, PendingIsNext
  <2> QED BY <2>1, <2>2, <2>3
<1>13. OneOwner'
  <2>1. \A j \in 1 .. n : task_index[id][j].task # task
    <3>1. \A j \in 1 .. n : task_index[id][j] \in ToSet(task_index[id])
      BY <1>1, <1>7, ListFacts
    <3> QED BY <1>1, <1>11, <3>1, PendingIs
  <2>2. ASSUME NEW i \in 1 .. n + 1, NEW j \in 1 .. n + 1,
               task_index'[id][i].task = task_index'[id][j].task
        PROVE  i = j \/ task_index'[id][i].task = Null
    <3>1. CASE i \in 1 .. n /\ j \in 1 .. n
      <4>1. task_index[id][i].task = task_index[id][j].task
        BY <1>8, <2>2, <3>1
      <4> QED BY <1>1, <1>7, <1>8, <3>1, <4>1, ListFacts DEF IInv, OneOwner
    <3>2. CASE i \in 1 .. n /\ j = n + 1
      BY <1>3, <1>8, <2>1, <2>2, <3>2
    <3>3. CASE i = n + 1 /\ j \in 1 .. n
      BY <1>3, <1>8, <2>1, <2>2, <3>3
    <3> QED BY <3>1, <3>2, <3>3
  <2>3. ASSUME NEW other \in Id, NEW i \in DOMAIN task_index'[other],
               NEW j \in DOMAIN task_index'[other],
               task_index'[other][i].task = task_index'[other][j].task
        PROVE  i = j \/ task_index'[other][i].task = Null
    <3>1. CASE other = id
      <4>1. i \in 1 .. n + 1 /\ j \in 1 .. n + 1
        BY <1>8, <2>3, <3>1
      <4> QED BY <2>2, <2>3, <3>1, <4>1
    <3>2. CASE other # id
      <4>1. task_index'[other] = task_index[other]
        BY <1>6, <3>2
      <4> QED BY <2>3, <4>1 DEF IInv, OneOwner
    <3> QED BY <3>1, <3>2
  <2>4. added' = Pending' \cup returned' /\ Pending' \cap returned' = {}
    BY <1>4, <1>11, <1>12 DEF IInv, OneOwner
  <2> QED BY <2>3, <2>4 DEF OneOwner
<1>14. FiledInTime'
  <2>1. ASSUME NEW other \in Id, NEW i \in 1 .. Len(task_index'[other])
        PROVE  /\ task_index'[other][i].time <= now'
               /\ task_index'[other][i].task # Null => IdOf[task_index'[other][i].task] = other
    <3>1. CASE other = id /\ i = n + 1
      <4>1. now <= now
        BY <1>1, PendingAssumption DEF Time
      <4> QED BY <1>2, <1>3, <1>4, <1>8, <3>1, <4>1
    <3>2. CASE ~(other = id /\ i = n + 1)
      <4>1. i \in 1 .. Len(task_index[other]) /\ task_index'[other][i] = task_index[other][i]
        BY <1>6, <1>7, <1>8, <3>2
      <4> QED BY <1>4, <4>1 DEF IInv, FiledInTime
    <3> QED BY <3>1, <3>2
  <2> QED BY <2>1 DEF FiledInTime
<1> QED BY <1>10, <1>13, <1>14 DEF IInv

\* fetch returns the tasks of one list and leaves its entries behind, empty.
LEMMA FetchInv ==
  ASSUME IInv, NEW id \in Id, Fetch(id)
  PROVE  IInv'
<1>1. TypeOK
  BY DEF IInv
<1>2. PICK s \in Seq(Entry) : s = task_index[id]
  BY <1>1, ListFacts
<1>3. PICK t : t = [i \in DOMAIN s |-> [s[i] EXCEPT !.task = Null]]
  OBVIOUS
<1>4. /\ results' = {entry.task : entry \in ToSet(s)}
      /\ task_index' = [task_index EXCEPT ![id] = t]
      /\ returned' = returned \cup (results' \ {Null})
      /\ UNCHANGED <<timeout_index, now, added, checks>>
  BY <1>2, <1>3 DEF Fetch, LeftBehind
<1>5. /\ task_index'[id] = t
      /\ \A other \in Id : other # id => task_index'[other] = task_index[other]
  BY <1>1, <1>4 DEF TypeOK
<1>6. PICK n \in Nat : n = Len(s) /\ DOMAIN s = 1 .. n /\ \A i \in 1 .. n : s[i] \in Entry
  BY <1>1, <1>2, ListFacts
<1>7. \A i \in 1 .. n : /\ t[i] \in Entry /\ t[i].task = Null /\ t[i].time = s[i].time
  BY <1>3, <1>6 DEF Entry
<1>8. t \in Seq(Entry) /\ Len(t) = n /\ DOMAIN t = 1 .. n
  <2>1. t \in [1 .. n -> Entry]
    BY <1>3, <1>6, <1>7
  <2> QED BY <2>1, SeqDef, LenProperties
<1>9. ToSet(t) = {t[i] : i \in 1 .. n} /\ ToSet(s) = {s[i] : i \in 1 .. n}
  BY <1>6, <1>8 DEF ToSet
<1>10. TypeOK'
  <2>1. task_index' \in [Id -> Seq(Entry)]
    BY <1>1, <1>4, <1>8 DEF TypeOK
  <2>2. results' \subseteq Task \cup {Null}
    <3>1. \A i \in 1 .. n : s[i].task \in Task \cup {Null}
      BY <1>6 DEF Entry
    <3> QED BY <1>4, <1>9, <3>1
  <2>3. returned' \subseteq Task
    BY <1>1, <1>4, <2>2 DEF TypeOK
  <2>4. ASSUME NEW other \in Id, NEW entry \in ToSet(task_index'[other])
        PROVE  other \in timeout_index[entry.time] \/ entry.time \in checks
    <3>1. CASE other = id
      <4>1. PICK i \in 1 .. n : entry = t[i]
        BY <1>5, <1>9, <2>4, <3>1
      <4>2. s[i] \in ToSet(task_index[id])
        BY <1>2, <1>9
      <4> QED BY <1>1, <1>7, <3>1, <4>1, <4>2 DEF TypeOK
    <3>2. CASE other # id
      BY <1>1, <1>5, <2>4, <3>2 DEF TypeOK
    <3> QED BY <3>1, <3>2
  <2> QED BY <1>1, <1>4, <2>1, <2>2, <2>3, <2>4 DEF TypeOK
<1>11. \A task : task \in Pending' <=> task \in Pending /\ task \notin results'
  <2>1. ASSUME NEW task, task \in Pending'
        PROVE  task \in Pending /\ task \notin results'
    <3>1. PICK other \in Id : \E entry \in ToSet(task_index'[other]) : entry.task = task
      BY <2>1, PendingIsNext
    <3>2. task # Null
      BY <2>1, PendingIsNext
    <3>3. other # id
      BY <1>5, <1>7, <1>9, <3>1, <3>2
    <3>4. PICK entry \in ToSet(task_index[other]) : entry.task = task
      BY <1>5, <3>1, <3>3
    <3>5. IdOf[task] = other
      <4>1. PICK i \in 1 .. Len(task_index[other]) : entry = task_index[other][i]
        BY <1>1, <3>4, ListFacts
      <4> QED BY <3>2, <3>4, <4>1 DEF IInv, FiledInTime
    <3>6. \A i \in 1 .. n : s[i].task # task
      BY <1>2, <1>6, <3>2, <3>3, <3>5 DEF IInv, FiledInTime
    <3>7. task \notin results'
      BY <1>4, <1>9, <3>6
    <3> QED BY <3>2, <3>4, <3>7, PendingIs
  <2>2. ASSUME NEW task, task \in Pending, task \notin results'
        PROVE  task \in Pending'
    <3>1. PICK other \in Id : \E entry \in ToSet(task_index[other]) : entry.task = task
      BY <2>2, PendingIs
    <3>2. other # id
      BY <1>2, <1>4, <2>2, <3>1
    <3> QED BY <1>5, <2>2, <3>1, <3>2, PendingIs, PendingIsNext
  <2> QED BY <2>1, <2>2
<1>12. OneOwner'
  <2>1. \A task \in results' : task # Null => task \in Pending
    BY <1>2, <1>4, PendingIs
  <2>2. added' = Pending' \cup returned' /\ Pending' \cap returned' = {}
    <3>1. Pending' = Pending \ results' /\ Null \notin Pending
      BY <1>11, PendingIs
    <3>2. results' \ {Null} \subseteq Pending
      BY <2>1
    <3>3. added = Pending \cup returned /\ Pending \cap returned = {}
      BY DEF IInv, OneOwner
    <3> QED BY <1>4, <3>1, <3>2, <3>3
  <2>3. \A other \in Id : \A i, j \in DOMAIN task_index'[other] :
          task_index'[other][i].task = task_index'[other][j].task =>
            i = j \/ task_index'[other][i].task = Null
    BY <1>5, <1>7, <1>8 DEF IInv, OneOwner
  <2> QED BY <2>2, <2>3 DEF OneOwner
<1>13. FiledInTime'
  <2>1. ASSUME NEW other \in Id, NEW i \in 1 .. Len(task_index'[other])
        PROVE  /\ task_index'[other][i].time <= now
               /\ task_index'[other][i].task # Null => IdOf[task_index'[other][i].task] = other
    <3>1. CASE other = id
      BY <1>2, <1>5, <1>6, <1>7, <1>8, <3>1 DEF IInv, FiledInTime
    <3>2. CASE other # id
      BY <1>5, <3>2 DEF IInv, FiledInTime
    <3> QED BY <3>1, <3>2
  <2> QED BY <1>4, <2>1 DEF FiledInTime
<1> QED BY <1>10, <1>12, <1>13 DEF IInv

------------------------------------------------------------------------------
(* timeout_tasks                                                           *)

\* The lists that are due keep what has not expired, the others everything.
LEMMA TimeoutFacts ==
  ASSUME TypeOK, TimeoutTasks, NEW id \in Id
  PROVE  /\ task_index'[id] \in Seq(Entry) /\ Len(task_index'[id]) \in Nat
         /\ ToSet(task_index'[id]) = {entry \in ToSet(task_index[id]) :
                                        id \in Due => ~Expired(entry)}
         /\ \E at \in [1 .. Len(task_index'[id]) -> 1 .. Len(task_index[id])] :
              /\ \A j \in 1 .. Len(task_index'[id]) :
                   task_index'[id][j] = task_index[id][at[j]]
              /\ \A j, k \in 1 .. Len(task_index'[id]) : at[j] = at[k] => j = k
<1>1. PICK s \in Seq(Entry) : s = task_index[id]
  BY ListFacts
<1>2. PICK t : t = task_index'[id]
  OBVIOUS
<1>3. t = IF id \in Due THEN Kept(s) ELSE s
  BY <1>1, <1>2 DEF TimeoutTasks
<1>4. /\ t \in Seq(Entry) /\ Len(t) \in Nat
      /\ ToSet(t) = {entry \in ToSet(s) : id \in Due => ~Expired(entry)}
      /\ \E at \in [1 .. Len(t) -> 1 .. Len(s)] :
           /\ \A j \in 1 .. Len(t) : t[j] = s[at[j]]
           /\ \A j, k \in 1 .. Len(t) : at[j] = at[k] => j = k
  <2>1. CASE id \in Due
    <3>1. t = Kept(s)
      BY <1>3, <2>1
    <3>2. {entry \in ToSet(s) : id \in Due => ~Expired(entry)} =
            {entry \in ToSet(s) : ~Expired(entry)}
      BY <2>1
    <3> QED BY <3>1, <3>2, KeptProperties
  <2>2. CASE id \notin Due
    <3>1. t = s /\ Len(s) \in Nat
      BY <1>3, <2>2, LenProperties
    <3>2. {entry \in ToSet(s) : id \in Due => ~Expired(entry)} = ToSet(s)
      BY <2>2
    <3>3. PICK at : at = [j \in 1 .. Len(s) |-> j]
      OBVIOUS
    <3>4. /\ at \in [1 .. Len(t) -> 1 .. Len(s)]
          /\ \A j \in 1 .. Len(t) : t[j] = s[at[j]]
          /\ \A j, k \in 1 .. Len(t) : at[j] = at[k] => j = k
      BY <3>1, <3>3
    <3> QED BY <3>1, <3>2, <3>4
  <2> QED BY <2>1, <2>2
<1> QED BY <1>1, <1>2, <1>4

\* What is left was added in the current millisecond, or in one of an earlier call.
LEMMA TimeoutLeaves ==
  ASSUME IInv, TimeoutTasks, NEW id \in Id, NEW entry \in ToSet(task_index'[id])
  PROVE  entry.time = now \/ entry.time \in checks
<1>1. TypeOK /\ now \in Time
  BY DEF IInv, TypeOK
<1>2. entry \in ToSet(task_index[id]) /\ (id \in Due => ~Expired(entry))
  BY <1>1, TimeoutFacts
<1>3. PICK i \in 1 .. Len(task_index[id]) : entry = task_index[id][i]
  BY <1>1, <1>2, ListFacts
<1>4. entry.time \in Time /\ entry.time <= now
  BY <1>1, <1>2, <1>3, ListFacts DEF IInv, FiledInTime
<1>5. entry.time \in Nat /\ now \in Nat
  BY <1>1, <1>4 DEF Time
<1>6. CASE id \in Due
  <2>1. ~(entry.time < now)
    BY <1>2, <1>6 DEF Expired
  <2> QED BY <1>4, <1>5, <2>1
<1>7. CASE id \notin Due
  <2>1. id \notin timeout_index[entry.time]
    <3>1. entry.time \in 0 .. now
      BY <1>4, <1>5
    <3> QED BY <1>7, <3>1 DEF Due
  <2> QED BY <1>1, <1>2, <2>1 DEF TypeOK
<1> QED BY <1>6, <1>7

\* Expired tasks are returned, all others stay.
LEMMA TimeoutInv ==
  ASSUME IInv, TimeoutTasks
  PROVE  IInv'
<1>1. TypeOK /\ now \in Time
  BY DEF IInv, TypeOK
<1>2. /\ results' = {entry.task : entry \in
                       {e \in UNION {ToSet(task_index[id]) : id \in Due} : Expired(e)}}
      /\ timeout_index' = [t \in Time |-> IF t <= now THEN {} ELSE timeout_index[t]]
      /\ returned' = returned \cup (results' \ {Null})
      /\ checks' = checks \cup {now}
      /\ now' = now /\ added' = added
  BY DEF TimeoutTasks
<1>3. Due \subseteq Id
  <2>1. \A t \in 0 .. now : t \in Time
    BY <1>1, PendingAssumption DEF Time
  <2> QED BY <1>1, <2>1 DEF Due, TypeOK
<1>4. \A task : task \in results' <=>
        \E id \in Due : \E entry \in ToSet(task_index[id]) : Expired(entry) /\ entry.task = task
  BY <1>2
<1>5. TypeOK'
  <2>1. task_index' \in [Id -> Seq(Entry)]
    <3>1. task_index' = [id \in Id |-> task_index'[id]]
      BY DEF TimeoutTasks
    <3> QED BY <1>1, <3>1, TimeoutFacts
  <2>2. timeout_index' \in [Time -> SUBSET Id]
    BY <1>1, <1>2 DEF TypeOK
  <2>3. results' \subseteq Task \cup {Null}
    BY <1>1, <1>3, <1>4, ListFacts
  <2>4. returned' \subseteq Task /\ checks' \subseteq Time
    BY <1>1, <1>2, <2>3 DEF TypeOK
  <2>5. \A id \in Id : \A entry \in ToSet(task_index'[id]) :
          id \in timeout_index'[entry.time] \/ entry.time \in checks'
    BY <1>2, TimeoutLeaves
  <2> QED BY <1>1, <1>2, <2>1, <2>2, <2>3, <2>4, <2>5 DEF TypeOK
<1>6. FiledInTime'
  <2>1. ASSUME NEW id \in Id, NEW j \in 1 .. Len(task_index'[id])
        PROVE  /\ task_index'[id][j].time <= now
               /\ task_index'[id][j].task # Null => IdOf[task_index'[id][j].task] = id
    <3>1. PICK i \in 1 .. Len(task_index[id]) : task_index'[id][j] = task_index[id][i]
      BY <1>1, TimeoutFacts
    <3> QED BY <3>1 DEF IInv, FiledInTime
  <2> QED BY <1>2, <2>1 DEF FiledInTime
<1>7. ASSUME NEW id \in Id, NEW e \in ToSet(task_index[id]),
             NEW other \in Id, NEW f \in ToSet(task_index[other]),
             e.task = f.task, e.task # Null
      PROVE  id = other /\ e = f
  <2>1. PICK i \in 1 .. Len(task_index[id]) : e = task_index[id][i]
    BY <1>1, ListFacts
  <2>2. PICK j \in 1 .. Len(task_index[other]) : f = task_index[other][j]
    BY <1>1, ListFacts
  <2>3. id = other
    BY <1>7, <2>1, <2>2 DEF IInv, FiledInTime
  <2>4. i \in DOMAIN task_index[id] /\ j \in DOMAIN task_index[id]
    BY <1>1, <2>1, <2>2, <2>3, ListFacts
  <2>5. i = j
    BY <1>7, <2>1, <2>2, <2>3, <2>4 DEF IInv, OneOwner
  <2> QED BY <2>1, <2>2, <2>3, <2>5
<1>8. \A task : task \in Pending' <=> task \in Pending /\ task \notin results'
  <2>1. ASSUME NEW task, task \in Pending'
        PROVE  task \in Pending /\ task \notin results'
    <3>1. task # Null
      BY <2>1, PendingIsNext
    <3>2. PICK id \in Id : \E e \in ToSet(task_index'[id]) : e.task = task
      BY <2>1, PendingIsNext
    <3>3. PICK entry \in ToSet(task_index[id]) :
            entry.task = task /\ (id \in Due => ~Expired(entry))
      BY <1>1, <3>2, TimeoutFacts
    <3>4. task \notin results'
      <4>1. SUFFICES ASSUME NEW other \in Due, NEW e \in ToSet(task_index[other]),
                            Expired(e), e.task = task
                     PROVE  FALSE
        BY <1>4
      <4>2. other = id /\ e = entry
        BY <1>3, <1>7, <3>1, <3>3, <4>1
      <4> QED BY <3>3, <4>1, <4>2
    <3> QED BY <3>1, <3>3, <3>4, PendingIs
  <2>2. ASSUME NEW task, task \in Pending, task \notin results'
        PROVE  task \in Pending'
    <3>1. task # Null
      BY <2>2, PendingIs
    <3>2. PICK id \in Id : \E e \in ToSet(task_index[id]) : e.task = task
      BY <2>2, PendingIs
    <3>3. PICK entry \in ToSet(task_index[id]) : entry.task = task
      BY <3>2
    <3>4. id \in Due => ~Expired(entry)
      BY <1>4, <2>2, <3>3
    <3>5. entry \in ToSet(task_index'[id])
      BY <1>1, <3>3, <3>4, TimeoutFacts
    <3> QED BY <3>1, <3>3, <3>5, PendingIsNext
  <2> QED BY <2>1, <2>2
<1>9. OneOwner'
  <2>1. \A task \in results' : task # Null => task \in Pending
    BY <1>3, <1>4, PendingIs
  <2>2. added' = Pending' \cup returned' /\ Pending' \cap returned' = {}
    <3>1. Pending' = Pending \ results' /\ Null \notin Pending
      BY <1>8, PendingIs
    <3>2. results' \ {Null} \subseteq Pending
      BY <2>1
    <3>3. added = Pending \cup returned /\ Pending \cap returned = {}
      BY DEF IInv, OneOwner
    <3> QED BY <1>2, <3>1, <3>2, <3>3
  <2>3. ASSUME NEW id \in Id, NEW i \in DOMAIN task_index'[id], NEW j \in DOMAIN task_index'[id],
               task_index'[id][i].task = task_index'[id][j].task
        PROVE  i = j \/ task_index'[id][i].task = Null
    <3>1. i \in 1 .. Len(task_index'[id]) /\ j \in 1 .. Len(task_index'[id])
      <4>1. task_index'[id] \in Seq(Entry)
        BY <1>1, TimeoutFacts
      <4> QED BY <4>1, LenProperties
    <3>2. PICK at \in [1 .. Len(task_index'[id]) -> 1 .. Len(task_index[id])] :
            /\ \A k \in 1 .. Len(task_index'[id]) : task_index'[id][k] = task_index[id][at[k]]
            /\ \A k, l \in 1 .. Len(task_index'[id]) : at[k] = at[l] => k = l
      BY <1>1, TimeoutFacts
    <3>3. at[i] \in DOMAIN task_index[id] /\ at[j] \in DOMAIN task_index[id]
      BY <1>1, <3>1, <3>2, ListFacts
    <3>4. at[i] = at[j] \/ task_index[id][at[i]].task = Null
      BY <2>3, <3>1, <3>2, <3>3 DEF IInv, OneOwner
    <3> QED BY <3>1, <3>2, <3>4
  <2> QED BY <2>2, <2>3 DEF OneOwner
<1> QED BY <1>5, <1>6, <1>9 DEF IInv

------------------------------------------------------------------------------
LEMMA StutterInv ==
  ASSUME IInv, UNCHANGED vars
  PROVE  IInv'
BY DEF IInv, TypeOK, OneOwner, FiledInTime, Pending, Entries, vars

\* The parts of the inductive invariant hold together in every state.
THEOREM PendingInvariant == Spec => []IInv
<1>1. ASSUME IInv, [Next]_vars
      PROVE  IInv'
  BY <1>1, StutterInv, TickInv, AddInv, FetchInv, TimeoutInv DEF Next, DoTask
<1> QED BY <1>1, InitInv, PTL DEF Spec

\* The two indexes agree: no entry falls out of the sight of timeout_tasks, unless
\* by a call in the millisecond that it was added in.
THEOREM IndexesAgree == Spec => []TypeOK
BY PendingInvariant, PTL DEF IInv

\* A task waits in the index, once, or has been returned: none is lost and none
\* returned twice, whatever mix of fetch and timeout_tasks takes the entries.
THEOREM TasksOwnedOnce == Spec => []OneOwner
BY PendingInvariant, PTL DEF IInv

\* timeout_tasks leaves nothing that was added in an earlier millisecond, if it was
\* not called in that millisecond.
THEOREM TimeoutsComplete == Spec => TimesOut
<1>1. ASSUME IInv, TimeoutTasks
      PROVE  \A entry \in Entries' : entry.time = now \/ entry.time \in checks
  BY <1>1, TimeoutLeaves DEF Entries
<1>2. ASSUME IInv
      PROVE  [TimeoutTasks => \A entry \in Entries' :
                entry.time = now \/ entry.time \in checks]_vars
  BY <1>1, <1>2
<1> QED BY <1>2, PendingInvariant, PTL DEF TimesOut
==============================================================================
