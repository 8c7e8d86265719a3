------------------------------ MODULE RespProofs ------------------------------
(***************************************************************************)
(* Proofs that parsing goes through a datagram from its front to its end,  *)
(* that a cut never shortens a request and that one request which arrives  *)
(* whole is understood, for all requests, datagrams and sizes.             *)
(***************************************************************************)
EXTENDS Wire, Integers, FiniteSetTheorems, SequenceTheorems, TLAPS

\* For what is proved there about induction and loops, of no list in particular.
Loops == INSTANCE PendingListsProofs
           WITH Id <- {}, Task <- {}, IdOf <- [task \in {} |-> task], Null <- 0, MaxTime <- 0,
                task_index <- {}, timeout_index <- {}, now <- 0, results <- {},
                added <- {}, returned <- {}, checks <- {}

LEMMA LoopsAssumption == [task \in {} |-> task] \in [{} -> {}] /\ 0 \notin {} /\ 0 \in Nat
OBVIOUS

\* What is left to parse is a part of what was sent: its bytes from p on, up to
\* the L-th, where the datagram was cut off.
Slice(W, p, L) == [i \in 1 .. L - p |-> W[p + i]]

LEMMA SliceProperties ==
  ASSUME NEW S, NEW W \in Seq(S), NEW L \in 0 .. Len(W), NEW p \in 0 .. L
  PROVE  /\ p \in Nat /\ L \in Nat /\ Len(W) \in Nat
         /\ Slice(W, p, L) \in Seq(S) /\ Len(Slice(W, p, L)) = L - p
         /\ \A i \in 1 .. L - p : Slice(W, p, L)[i] = W[p + i] /\ W[p + i] \in S
<1>1. Len(W) \in Nat
  BY LenProperties
<1>2. L \in Nat /\ p \in Nat /\ L - p \in Nat
  BY <1>1
<1>3. \A i \in 1 .. L - p : W[p + i] \in S
  <2>1. \A i \in 1 .. L - p : p + i \in 1 .. Len(W)
    BY <1>1, <1>2
  <2> QED BY <2>1, ElementOfSeq
<1>4. Slice(W, p, L) \in [1 .. L - p -> S]
  BY <1>3 DEF Slice
<1>5. Slice(W, p, L) \in Seq(S)
  BY <1>2, <1>4, SeqDef
<1>6. Len(Slice(W, p, L)) = L - p
  BY <1>2, <1>4, <1>5, LenProperties
<1> QED BY <1>1, <1>2, <1>3, <1>5, <1>6 DEF Slice

\* Two sequences are the same slice.
LEMMA IsSlice ==
  ASSUME NEW S, NEW W \in Seq(S), NEW L \in 0 .. Len(W), NEW p \in 0 .. L,
         NEW s \in Seq(S), Len(s) = L - p, \A i \in 1 .. L - p : s[i] = W[p + i]
  PROVE  s = Slice(W, p, L)
<1>1. PICK t \in Seq(S) : t = Slice(W, p, L)
  BY SliceProperties
<1>2. Len(t) = L - p /\ \A i \in 1 .. L - p : t[i] = W[p + i]
  <2>1. /\ Len(Slice(W, p, L)) = L - p
        /\ \A i \in 1 .. L - p : Slice(W, p, L)[i] = W[p + i]
    BY SliceProperties
  <2> QED BY <1>1, <2>1, Zenon
<1>3. s = t
  BY <1>2, SeqEqual
<1> QED BY <1>1, <1>3

\* A sequence is a slice of itself.
LEMMA WholeSlice ==
  ASSUME NEW S, NEW W \in Seq(S)
  PROVE  Len(W) \in Nat /\ W = Slice(W, 0, Len(W))
<1>1. Len(W) \in Nat
  BY LenProperties
<1>2. /\ Len(W) \in 0 .. Len(W) /\ 0 \in 0 .. Len(W) /\ Len(W) = Len(W) - 0
      /\ \A i \in 1 .. Len(W) - 0 : W[i] = W[0 + i]
  BY <1>1
<1> QED BY <1>1, <1>2, IsSlice

\* remove_prefix makes a later slice of a slice.
LEMMA RestOfSlice ==
  ASSUME NEW S, NEW W \in Seq(S), NEW L \in 0 .. Len(W), NEW p \in 0 .. L, NEW n \in 0 .. L - p
  PROVE  p + n \in p .. L /\ Rest(Slice(W, p, L), n) = Slice(W, p + n, L)
<1>1. PICK buf \in Seq(S) : buf = Slice(W, p, L)
  BY SliceProperties
<1>2. /\ p \in Nat /\ L \in Nat /\ Len(buf) = L - p
      /\ \A i \in 1 .. L - p : buf[i] = W[p + i] /\ W[p + i] \in S
  BY <1>1, SliceProperties
<1>3. p + n \in p .. L /\ p + n \in 0 .. L /\ n \in Nat
  BY <1>2
<1>4. PICK rest : rest = SubSeq(buf, n + 1, L - p)
  OBVIOUS
<1>5. \A i \in n + 1 .. L - p : buf[i] \in S
  BY <1>2, <1>3
<1>6. /\ rest \in Seq(S)
      /\ Len(rest) = IF n + 1 <= L - p THEN (L - p) - (n + 1) + 1 ELSE 0
      /\ \A i \in 1 .. (L - p) - (n + 1) + 1 : rest[i] = buf[(n + 1) + i - 1]
  BY <1>2, <1>3, <1>4, <1>5, SubSeqProperties
<1>7. Len(rest) = L - (p + n)
  BY <1>2, <1>3, <1>6
<1>8. \A i \in 1 .. L - (p + n) : rest[i] = W[(p + n) + i]
  <2>1. \A i \in 1 .. L - (p + n) : /\ i \in 1 .. (L - p) - (n + 1) + 1
                                    /\ (n + 1) + i - 1 = n + i /\ n + i \in 1 .. L - p
                                    /\ p + (n + i) = (p + n) + i
    BY <1>2, <1>3
  <2> QED BY <1>2, <1>6, <2>1
<1>9. rest = Slice(W, p + n, L)
  BY <1>3, <1>6, <1>7, <1>8, IsSlice
<1> QED BY <1>1, <1>2, <1>3, <1>4, <1>9 DEF Rest

\* What is looked at from the front of a slice.
LEMMA FrontOfSlice ==
  ASSUME NEW S, NEW W \in Seq(S), NEW L \in 0 .. Len(W), NEW p \in 0 .. L,
         NEW m \in 0 .. L - p, NEW n \in m .. L - p
  PROVE  SubSeq(Slice(W, p, L), m + 1, n) = Slice(W, p + m, p + n)
<1>1. PICK buf \in Seq(S) : buf = Slice(W, p, L)
  BY SliceProperties
<1>2. /\ p \in Nat /\ L \in Nat /\ Len(W) \in Nat /\ Len(buf) = L - p
      /\ \A i \in 1 .. L - p : buf[i] = W[p + i] /\ W[p + i] \in S
  BY <1>1, SliceProperties
<1>3. m \in Nat /\ n \in Nat /\ m <= n /\ p + n \in 0 .. Len(W) /\ p + m \in 0 .. p + n
  BY <1>2
<1>4. PICK part : part = SubSeq(buf, m + 1, n)
  OBVIOUS
<1>5. \A i \in m + 1 .. n : buf[i] \in S
  BY <1>2, <1>3
<1>6. /\ part \in Seq(S)
      /\ Len(part) = IF m + 1 <= n THEN n - (m + 1) + 1 ELSE 0
      /\ \A i \in 1 .. n - (m + 1) + 1 : part[i] = buf[(m + 1) + i - 1]
  BY <1>3, <1>4, <1>5, SubSeqProperties
<1>7. Len(part) = (p + n) - (p + m)
  BY <1>2, <1>3, <1>6
<1>8. \A i \in 1 .. (p + n) - (p + m) : part[i] = W[(p + m) + i]
  <2>1. \A i \in 1 .. (p + n) - (p + m) : /\ i \in 1 .. n - (m + 1) + 1
                                          /\ (m + 1) + i - 1 = m + i /\ m + i \in 1 .. L - p
                                          /\ p + (m + i) = (p + m) + i
    BY <1>2, <1>3
  <2> QED BY <1>2, <1>6, <2>1
<1>9. part = Slice(W, p + m, p + n)
  BY <1>3, <1>6, <1>7, <1>8, IsSlice
<1> QED BY <1>1, <1>4, <1>9

\* The first byte, and what follows it.
LEMMA HeadTailOfSlice ==
  ASSUME NEW S, NEW W \in Seq(S), NEW L \in 0 .. Len(W), NEW p \in 0 .. L
  PROVE  /\ Slice(W, p, L) = << >> <=> p = L
         /\ p < L => /\ Head(Slice(W, p, L)) = W[p + 1] /\ W[p + 1] \in S
                     /\ Tail(Slice(W, p, L)) = Slice(W, p + 1, L)
<1>1. PICK buf \in Seq(S) : buf = Slice(W, p, L)
  BY SliceProperties
<1>2. /\ p \in Nat /\ L \in Nat /\ Len(buf) = L - p
      /\ \A i \in 1 .. L - p : buf[i] = W[p + i] /\ W[p + i] \in S
  BY <1>1, SliceProperties
<1>3. buf = << >> <=> p = L
  BY <1>2, EmptySeq
<1>4. ASSUME p < L
      PROVE  /\ Head(buf) = W[p + 1] /\ W[p + 1] \in S
             /\ Tail(buf) = Slice(W, p + 1, L)
  <2>1. buf # << >> /\ 1 \in 1 .. L - p
    BY <1>2, <1>3, <1>4
  <2>2. /\ Tail(buf) \in Seq(S) /\ Len(Tail(buf)) = (L - p) - 1
        /\ \A i \in 1 .. Len(Tail(buf)) : Tail(buf)[i] = buf[i + 1]
    BY <1>2, <2>1, HeadTailProperties
  <2>3. Len(Tail(buf)) = L - (p + 1) /\ p + 1 \in 0 .. L
    BY <1>2, <1>4, <2>2
  <2>4. \A i \in 1 .. L - (p + 1) : i + 1 \in 1 .. L - p /\ p + (i + 1) = (p + 1) + i
    BY <1>2, <1>4
  <2>5. Tail(buf) = Slice(W, p + 1, L)
    <3>1. PICK rest \in Seq(S) : rest = Tail(buf)
      BY <2>2
    <3>2. Len(rest) = L - (p + 1) /\ \A i \in 1 .. L - (p + 1) : rest[i] = W[(p + 1) + i]
      BY <1>2, <2>2, <2>3, <2>4, <3>1
    <3> QED BY <2>3, <3>1, <3>2, IsSlice
  <2>6. Head(buf) = buf[1]
    BY <2>1
  <2> QED BY <1>2, <2>1, <2>5, <2>6
<1> QED BY <1>1, <1>3, <1>4

------------------------------------------------------------------------------
(* Numbers.                                                                *)

\* from_chars takes as many digits as there are.
LEMMA DigitsOfSlice ==
  ASSUME NEW S, NEW W \in Seq(S), NEW L \in 0 .. Len(W), NEW p \in 0 .. L
  PROVE  \E n \in 0 .. L - p :
           /\ Digits(Slice(W, p, L)) = Slice(W, p, p + n)
           /\ \A i \in 1 .. n : IsDigit(W[p + i])
           /\ n < L - p => ~IsDigit(W[p + n + 1])
<1>1. PICK buf \in Seq(S) : buf = Slice(W, p, L)
  BY SliceProperties
<1>2. /\ p \in Nat /\ L \in Nat /\ Len(buf) = L - p /\ L - p \in Nat
      /\ \A i \in 1 .. L - p : buf[i] = W[p + i]
  <2>1. /\ p \in Nat /\ L \in Nat /\ Len(buf) = L - p
        /\ \A i \in 1 .. L - p : buf[i] = W[p + i]
    BY <1>1, SliceProperties
  <2>2. L - p \in Nat
    BY <2>1
  <2> QED BY <2>1, <2>2
<1> DEFINE End(n) == /\ \A i \in 1 .. n : IsDigit(buf[i])
                     /\ n < Len(buf) => ~IsDigit(buf[n + 1])
           T == {n \in Nat : n <= L - p /\ (n < L - p => ~IsDigit(buf[n + 1]))}
<1>3. PICK n \in T : \A m \in T : n <= m
  <2>1. L - p \in T /\ T \in SUBSET Nat
    BY <1>2
  <2> HIDE DEF T
  <2> QED BY <2>1, LoopsAssumption, Loops!LeastNatural
<1>4. \A i \in 1 .. n : IsDigit(buf[i])
  <2>1. SUFFICES ASSUME NEW i \in 1 .. n, ~IsDigit(buf[i]) PROVE FALSE
    OBVIOUS
  <2>2. i - 1 \in Nat /\ i - 1 < n /\ (i - 1) + 1 = i /\ i - 1 <= L - p
    BY <1>2, <1>3
  <2>3. i - 1 \in T
    BY <2>1, <2>2
  <2> QED BY <1>3, <2>2, <2>3
<1>5. n \in 0 .. Len(buf) /\ End(n)
  BY <1>2, <1>3, <1>4
<1>6. PICK m \in 0 .. Len(buf) : End(m) /\ Digits(buf) = SubSeq(buf, 1, m)
  <2> HIDE DEF T
  <2>1. PICK m : m = CHOOSE k \in 0 .. Len(buf) : End(k)
    OBVIOUS
  <2>2. m \in 0 .. Len(buf) /\ End(m)
    BY <1>5, <2>1
  <2>3. Digits(buf) = SubSeq(buf, 1, m)
    BY <2>1 DEF Digits
  <2> QED BY <2>2, <2>3
<1>7. SubSeq(buf, 1, m) = Slice(W, p, p + m)
  <2>1. 0 \in 0 .. L - p /\ m \in 0 .. L - p /\ 0 + 1 = 1 /\ p + 0 = p
    BY <1>2
  <2>2. SubSeq(Slice(W, p, L), 0 + 1, m) = Slice(W, p + 0, p + m)
    BY <2>1, FrontOfSlice
  <2> QED BY <1>1, <2>1, <2>2
<1>8. /\ m \in 0 .. L - p /\ \A i \in 1 .. m : IsDigit(W[p + i])
      /\ m < L - p => ~IsDigit(W[p + m + 1])
  <2>1. /\ \A i \in 1 .. m : i \in 1 .. L - p
        /\ m < L - p => m + 1 \in 1 .. L - p /\ p + (m + 1) = p + m + 1
    BY <1>2
  <2> QED BY <1>2, <1>6, <2>1
<1> QED BY <1>1, <1>6, <1>7, <1>8

\* They are told by where they end.
LEMMA DigitsAre ==
  ASSUME NEW S, NEW W \in Seq(S), NEW L \in 0 .. Len(W), NEW p \in 0 .. L,
         NEW d \in 0 .. L - p, \A i \in 1 .. d : IsDigit(W[p + i]),
         d < L - p => ~IsDigit(W[p + d + 1])
  PROVE  Digits(Slice(W, p, L)) = Slice(W, p, p + d)
<1>1. p \in Nat /\ L \in Nat
  BY SliceProperties
<1>2. PICK n \in 0 .. L - p :
        /\ Digits(Slice(W, p, L)) = Slice(W, p, p + n)
        /\ \A i \in 1 .. n : IsDigit(W[p + i])
        /\ n < L - p => ~IsDigit(W[p + n + 1])
  BY DigitsOfSlice
<1>3. CASE n < d
  <2>1. n + 1 \in 1 .. d /\ p + (n + 1) = p + n + 1 /\ n < L - p
    BY <1>1, <1>3
  <2> QED BY <1>2, <2>1
<1>4. CASE d < n
  <2>1. d + 1 \in 1 .. n /\ p + (d + 1) = p + d + 1 /\ d < L - p
    BY <1>1, <1>4
  <2> QED BY <1>2, <2>1
<1> QED BY <1>2, <1>3, <1>4

\* The ten digits, and their values.
LEMMA DigitValues ==
  /\ \A i \in 1 .. 10 : Digit[i] \in STRING /\ IsDigit(Digit[i]) /\ DigitValue(Digit[i]) = i - 1
  /\ \A byte : IsDigit(byte) => DigitValue(byte) \in Nat
  /\ ~IsDigit("\r")
<1>1. \A i, j \in 1 .. 10 : Digit[i] = Digit[j] => i = j
  BY DEF Digit
<1>2. \A i \in 1 .. 10 : Digit[i] \in STRING /\ Digit[i] # "\r"
  <2>1. \A i \in 1 .. 10 : i \in DOMAIN Digit /\ Digit[i] # "\r"
    BY DEF Digit
  <2>2. ToSet(Digit) \subseteq STRING
    BY RespAssumption
  <2> QED BY <2>1, <2>2 DEF ToSet
<1>3. ASSUME NEW i \in 1 .. 10
      PROVE  IsDigit(Digit[i]) /\ DigitValue(Digit[i]) = i - 1
  BY <1>1 DEF IsDigit, DigitValue
<1>4. ASSUME NEW byte, IsDigit(byte)
      PROVE  DigitValue(byte) \in Nat
  <2>1. PICK i \in 1 .. 10 : Digit[i] = byte
    BY <1>4 DEF IsDigit
  <2> QED BY <1>3, <2>1
<1> QED BY <1>2, <1>3, <1>4 DEF IsDigit

\* v[i] is the value of the first i digits.
ValueOf(v, s) ==
  v = [i \in 0 .. Len(s) |-> IF i = 0 THEN 0 ELSE 10 * v[i - 1] + DigitValue(s[i])]

LEMMA ValueLoop ==
  ASSUME NEW s \in Seq(STRING), \A i \in 1 .. Len(s) : IsDigit(s[i])
  PROVE  \E v \in [0 .. Len(s) -> Nat] : ValueOf(v, s) /\ Value(s) = v[Len(s)]
<1>1. PICK n \in Nat : n = Len(s)
  BY LenProperties
<1>2. \A i \in 1 .. n : DigitValue(s[i]) \in Nat
  BY <1>1, DigitValues
<1>3. \E v : ValueOf(v, s)
  <2>1. PICK step : step = [p \in Nat \X (1 .. n) |-> 10 * p[1] + DigitValue(s[p[2]])]
    OBVIOUS
  <2>2. step \in [Nat \X (1 .. n) -> Nat]
    BY <1>2, <2>1
  <2>3. PICK v : Loops!IsLoop(v, Nat, n, 0, step)
    BY <2>2, LoopsAssumption, Loops!LoopExists
  <2>4. ASSUME NEW i \in 1 .. n PROVE v[i] = 10 * v[i - 1] + DigitValue(s[i])
    <3>1. v[i - 1] \in Nat
      BY <2>3 DEF Loops!IsLoop
    <3> QED BY <2>1, <2>3, <3>1 DEF Loops!IsLoop
  <2>5. \A i \in 0 .. n : i = 0 \/ i \in 1 .. n
    OBVIOUS
  <2>6. v = [i \in 0 .. n |-> IF i = 0 THEN 0 ELSE 10 * v[i - 1] + DigitValue(s[i])]
    BY <2>3, <2>4, <2>5 DEF Loops!IsLoop
  <2> QED BY <1>1, <2>6 DEF ValueOf
<1>4. PICK v : ValueOf(v, s) /\ Value(s) = v[Len(s)]
  <2>1. PICK v : v = (CHOOSE w : ValueOf(w, s)) /\ Value(s) = v[Len(s)]
    BY DEF Value, ValueOf
  <2> QED BY <1>3, <2>1
<1>5. /\ v[0] = 0 /\ \A i \in 1 .. n : v[i] = 10 * v[i - 1] + DigitValue(s[i])
      /\ v = [i \in 0 .. n |-> v[i]]
  <2>1. v = [i \in 0 .. n |-> IF i = 0 THEN 0 ELSE 10 * v[i - 1] + DigitValue(s[i])]
    BY <1>1, <1>4 DEF ValueOf
  <2>2. 0 \in 0 .. n /\ \A i \in 1 .. n : i \in 0 .. n /\ i # 0
    OBVIOUS
  <2>3. v = [i \in 0 .. n |-> v[i]]
    BY <2>1, Zenon
  <2>4. v[0] = 0 /\ \A i \in 1 .. n : v[i] = 10 * v[i - 1] + DigitValue(s[i])
    BY <2>1, <2>2
  <2> QED BY <2>3, <2>4
<1> DEFINE T == {m \in Nat : m <= n => v[m] \in Nat}
<1>6. 0 \in T /\ T \in SUBSET Nat
  BY <1>5
<1>7. ASSUME NEW m \in T PROVE m + 1 \in T
  <2>1. SUFFICES ASSUME m + 1 <= n PROVE v[m + 1] \in Nat
    OBVIOUS
  <2>2. v[m] \in Nat /\ m + 1 \in 1 .. n /\ (m + 1) - 1 = m
    BY <2>1
  <2>3. v[m + 1] = 10 * v[m] + DigitValue(s[m + 1]) /\ DigitValue(s[m + 1]) \in Nat
    BY <1>2, <1>5, <2>2
  <2> QED BY <2>2, <2>3
<1> HIDE DEF T
<1>8. T = Nat
  BY <1>6, <1>7, LoopsAssumption, Loops!NatSetInduction
<1>9. \A i \in 0 .. n : v[i] \in Nat
  <2>1. \A i \in 0 .. n : i \in T /\ i <= n
    BY <1>8
  <2> QED BY <2>1 DEF T
<1> QED BY <1>1, <1>4, <1>5, <1>9

\* One more digit.
LEMMA ValueAppend ==
  ASSUME NEW s \in Seq(STRING), \A i \in 1 .. Len(s) : IsDigit(s[i]),
         NEW x \in STRING, IsDigit(x)
  PROVE  Value(s) \in Nat /\ Value(Append(s, x)) = 10 * Value(s) + DigitValue(x)
<1>1. PICK n \in Nat : n = Len(s)
  BY LenProperties
<1>2. PICK t \in Seq(STRING) :
        /\ t = Append(s, x) /\ Len(t) = n + 1 /\ t[n + 1] = x
        /\ \A i \in 1 .. n : t[i] = s[i]
  <2>1. /\ Append(s, x) \in Seq(STRING) /\ Len(Append(s, x)) = n + 1
        /\ Append(s, x)[n + 1] = x
        /\ \A i \in 1 .. n : Append(s, x)[i] = s[i]
    <3>1. Append(s, x) \in Seq(STRING) /\ Len(Append(s, x)) = Len(s) + 1
      BY AppendProperties
    <3>2. Append(s, x)[Len(s) + 1] = x
      BY AppendProperties
    <3>3. \A i \in 1 .. Len(s) : Append(s, x)[i] = s[i]
      BY AppendProperties
    <3> QED BY <1>1, <3>1, <3>2, <3>3, Zenon
  <2> QED BY <2>1, Zenon
<1>3. \A i \in 1 .. n + 1 : i = n + 1 \/ i \in 1 .. n
  OBVIOUS
<1>4. \A i \in 1 .. Len(t) : IsDigit(t[i])
  BY <1>1, <1>2, <1>3
<1>5. PICK v \in [0 .. n -> Nat] : ValueOf(v, s) /\ Value(s) = v[n]
  BY <1>1, ValueLoop
<1>6. PICK u \in [0 .. n + 1 -> Nat] : ValueOf(u, t) /\ Value(t) = u[n + 1]
  BY <1>2, <1>4, ValueLoop
<1>7. /\ v[0] = 0 /\ \A i \in 1 .. n : v[i] = 10 * v[i - 1] + DigitValue(s[i])
      /\ u[0] = 0 /\ \A i \in 1 .. n + 1 : u[i] = 10 * u[i - 1] + DigitValue(t[i])
  <2>1. v = [i \in 0 .. n |-> IF i = 0 THEN 0 ELSE 10 * v[i - 1] + DigitValue(s[i])]
    BY <1>1, <1>5 DEF ValueOf
  <2>2. u = [i \in 0 .. n + 1 |-> IF i = 0 THEN 0 ELSE 10 * u[i - 1] + DigitValue(t[i])]
    BY <1>2, <1>6 DEF ValueOf
  <2>3. /\ \A i \in 1 .. n : i \in 0 .. n /\ i # 0
        /\ \A i \in 1 .. n + 1 : i \in 0 .. n + 1 /\ i # 0
    OBVIOUS
  <2> QED BY <2>1, <2>2, <2>3
<1> DEFINE T == {m \in Nat : m <= n => u[m] = v[m]}
<1>8. 0 \in T /\ T \in SUBSET Nat
  BY <1>7
<1>9. ASSUME NEW m \in T PROVE m + 1 \in T
  <2>1. SUFFICES ASSUME m + 1 <= n PROVE u[m + 1] = v[m + 1]
    OBVIOUS
  <2>2. u[m] = v[m] /\ m + 1 \in 1 .. n /\ m + 1 \in 1 .. n + 1 /\ (m + 1) - 1 = m
    BY <2>1
  <2>3. t[m + 1] = s[m + 1]
    BY <1>2, <2>2
  <2> QED BY <1>7, <2>2, <2>3
<1> HIDE DEF T
<1>10. T = Nat
  BY <1>8, <1>9, LoopsAssumption, Loops!NatSetInduction
<1>11. u[n] = v[n] /\ v[n] \in Nat
  <2>1. n \in T /\ n \in 0 .. n
    BY <1>10
  <2> QED BY <1>5, <2>1 DEF T
<1>12. u[n + 1] = 10 * u[n] + DigitValue(x)
  <2>1. n + 1 \in 1 .. n + 1 /\ (n + 1) - 1 = n
    OBVIOUS
  <2> QED BY <1>2, <1>7, <2>1
<1> QED BY <1>2, <1>5, <1>6, <1>11, <1>12

\* A step of to_string, and its results for the numbers up to m.
DecimalStep(f, n) == (IF n < 10 THEN << >> ELSE f[n \div 10]) \o <<Digit[(n % 10) + 1]>>

Decimals(f, m) == f \in [0 .. m -> Seq(STRING)] /\ \A n \in 0 .. m : f[n] = DecimalStep(f, n)

LEMMA DecimalStepType ==
  ASSUME NEW n \in Nat, NEW f, n < 10 \/ f[n \div 10] \in Seq(STRING)
  PROVE  /\ DecimalStep(f, n) \in Seq(STRING) /\ (n % 10) + 1 \in 1 .. 10
         /\ n \div 10 \in Nat /\ n = 10 * (n \div 10) + (n % 10) /\ (n >= 10 => n \div 10 < n)
<1>1. /\ (n % 10) + 1 \in 1 .. 10 /\ n \div 10 \in Nat
      /\ n = 10 * (n \div 10) + (n % 10) /\ (n >= 10 => n \div 10 < n)
  OBVIOUS
<1>2. <<Digit[(n % 10) + 1]>> \in Seq(STRING)
  BY <1>1, DigitValues
<1>3. (IF n < 10 THEN << >> ELSE f[n \div 10]) \in Seq(STRING)
  BY EmptySeq
<1> QED BY <1>1, <1>2, <1>3, ConcatProperties DEF DecimalStep

\* Recursion on a tenth is well defined.
LEMMA DecimalExists == \A n \in Nat : Decimal[n] \in Seq(STRING) /\ Decimal[n] = DecimalStep(Decimal, n)
<1>1. \A m \in Nat : \E f : Decimals(f, m)
  <2> DEFINE T == {m \in Nat : \E f : Decimals(f, m)}
  <2>1. 0 \in T
    <3>1. PICK f : f = [n \in 0 .. 0 |-> DecimalStep(<< >>, 0)]
      OBVIOUS
    <3>2. DecimalStep(<< >>, 0) \in Seq(STRING) /\ DecimalStep(<< >>, 0) = DecimalStep(f, 0)
      <4>1. DecimalStep(<< >>, 0) = DecimalStep(f, 0)
        BY DEF DecimalStep
      <4> QED BY <4>1, DecimalStepType
    <3>3. \A n \in 0 .. 0 : n = 0
      OBVIOUS
    <3>4. Decimals(f, 0)
      BY <3>1, <3>2, <3>3 DEF Decimals
    <3> QED BY <3>4
  <2>2. ASSUME NEW m \in T PROVE m + 1 \in T
    <3>1. PICK f : Decimals(f, m)
      OBVIOUS
    <3>2. m \in Nat
      OBVIOUS
    <3>3. PICK g : g = [n \in 0 .. m + 1 |-> IF n = m + 1 THEN DecimalStep(f, n) ELSE f[n]]
      OBVIOUS
    <3>4. \A n \in 0 .. m + 1 : /\ n \in Nat /\ (n = m + 1 \/ n \in 0 .. m)
                                /\ (n >= 10 => n \div 10 \in 0 .. m)
      BY <3>2
    <3>5. \A n \in 0 .. m : g[n] = f[n] /\ f[n] \in Seq(STRING)
      BY <3>1, <3>2, <3>3 DEF Decimals
    <3>6. ASSUME NEW n \in 0 .. m + 1
          PROVE  g[n] = DecimalStep(f, n) /\ g[n] = DecimalStep(g, n) /\ g[n] \in Seq(STRING)
      <4>1. n < 10 \/ (f[n \div 10] = g[n \div 10] /\ f[n \div 10] \in Seq(STRING))
        BY <3>4, <3>5
      <4>2. DecimalStep(f, n) = DecimalStep(g, n)
        BY <4>1 DEF DecimalStep
      <4>3. DecimalStep(f, n) \in Seq(STRING)
        BY <3>4, <4>1, DecimalStepType
      <4>4. g[n] = DecimalStep(f, n)
        BY <3>1, <3>3, <3>4 DEF Decimals
      <4> QED BY <4>2, <4>3, <4>4
    <3>7. g \in [0 .. m + 1 -> Seq(STRING)]
      <4>1. g = [n \in 0 .. m + 1 |-> g[n]]
        BY <3>3
      <4> QED BY <3>6, <4>1
    <3>8. Decimals(g, m + 1)
      BY <3>6, <3>7 DEF Decimals
    <3> QED BY <3>2, <3>8
  <2>3. T \in SUBSET Nat
    OBVIOUS
  <2> HIDE DEF T
  <2>4. T = Nat
    BY <2>1, <2>2, <2>3, LoopsAssumption, Loops!NatSetInduction
  <2> QED BY <2>4 DEF T
<1>2. ASSUME NEW m \in Nat, NEW k \in Nat, NEW f, NEW g, Decimals(f, m), Decimals(g, k)
      PROVE  \A n \in Nat : n <= m /\ n <= k => f[n] = g[n]
  <2> DEFINE T == {n \in Nat : n <= m /\ n <= k /\ f[n] # g[n]}
  <2>1. SUFFICES ASSUME T # {} PROVE FALSE
    OBVIOUS
  <2>2. PICK n \in T : \A j \in T : n <= j
    <3>1. T \in SUBSET Nat
      OBVIOUS
    <3> HIDE DEF T
    <3> QED BY <2>1, <3>1, LoopsAssumption, Loops!LeastNatural
  <2>3. n < 10 \/ (n \div 10 \in Nat /\ n \div 10 < n)
    OBVIOUS
  <2>4. n < 10 \/ f[n \div 10] = g[n \div 10]
    BY <2>2, <2>3
  <2>5. f[n] = DecimalStep(f, n) /\ g[n] = DecimalStep(g, n)
    BY <1>2 DEF Decimals
  <2>6. DecimalStep(f, n) = DecimalStep(g, n)
    BY <2>4 DEF DecimalStep
  <2> QED BY <2>5, <2>6
<1>3. PICK h : h = [n \in Nat |-> (CHOOSE f : Decimals(f, n))[n]]
  OBVIOUS
<1>4. ASSUME NEW n \in Nat
      PROVE  h[n] \in Seq(STRING) /\ h[n] = DecimalStep(h, n)
  <2>1. PICK f : Decimals(f, n) /\ h[n] = f[n]
    BY <1>1, <1>3
  <2>2. n < 10 \/ h[n \div 10] = f[n \div 10]
    <3>1. SUFFICES ASSUME n >= 10 PROVE h[n \div 10] = f[n \div 10]
      OBVIOUS
    <3>2. PICK k \in Nat : k = n \div 10 /\ k <= n
      BY <3>1
    <3>3. PICK g : Decimals(g, k) /\ h[k] = g[k]
      BY <1>1, <1>3
    <3>4. g[k] = f[k]
      BY <1>2, <2>1, <3>2, <3>3
    <3> QED BY <3>2, <3>3, <3>4
  <2>3. f[n] = DecimalStep(f, n) /\ f[n] \in Seq(STRING)
    BY <2>1 DEF Decimals
  <2>4. DecimalStep(f, n) = DecimalStep(h, n)
    BY <2>2 DEF DecimalStep
  <2> QED BY <2>1, <2>3, <2>4
<1> DEFINE IsDecimal(f) == f = [n \in Nat |-> DecimalStep(f, n)]
<1>5. IsDecimal(h)
  BY <1>3, <1>4
<1>6. PICK d : IsDecimal(d) /\ d = Decimal
  <2>1. Decimal = CHOOSE f : IsDecimal(f)
    BY DEF Decimal, DecimalStep
  <2> QED BY <1>5, <2>1
<1>7. \A n \in Nat : d[n] = DecimalStep(d, n)
  BY <1>6
<1> DEFINE Bad == {n \in Nat : d[n] \notin Seq(STRING)}
<1>8. Bad = {}
  <2>1. SUFFICES ASSUME Bad # {} PROVE FALSE
    OBVIOUS
  <2>2. PICK n \in Bad : \A j \in Bad : n <= j
    <3>1. Bad \in SUBSET Nat
      OBVIOUS
    <3> HIDE DEF Bad
    <3> QED BY <2>1, <3>1, LoopsAssumption, Loops!LeastNatural
  <2>3. n < 10 \/ (n \div 10 \in Nat /\ n \div 10 < n)
    OBVIOUS
  <2>4. n < 10 \/ d[n \div 10] \in Seq(STRING)
    BY <2>2, <2>3
  <2>5. DecimalStep(d, n) \in Seq(STRING)
    BY <2>4, DecimalStepType
  <2> QED BY <1>7, <2>5
<1> QED BY <1>6, <1>7, <1>8

\* to_string writes digits, at least one, whose value is the number.
LEMMA DecimalProperties ==
  \A n \in Nat : /\ Decimal[n] \in Seq(STRING) /\ Len(Decimal[n]) \in Nat /\ Len(Decimal[n]) >= 1
                 /\ \A i \in 1 .. Len(Decimal[n]) : IsDigit(Decimal[n][i])
                 /\ Value(Decimal[n]) = n
<1> DEFINE Right(n, s) == /\ s \in Seq(STRING) /\ Len(s) \in Nat /\ Len(s) >= 1
                          /\ \A i \in 1 .. Len(s) : IsDigit(s[i])
                          /\ Value(s) = n
           Bad == {n \in Nat : ~Right(n, Decimal[n])}
<1>1. SUFFICES ASSUME Bad # {} PROVE FALSE
  OBVIOUS
<1>2. PICK n \in Bad : \A j \in Bad : n <= j
  <2>1. Bad \in SUBSET Nat
    OBVIOUS
  <2> HIDE DEF Bad
  <2> QED BY <1>1, <2>1, LoopsAssumption, Loops!LeastNatural
<1>3. PICK tens, x : tens = n \div 10 /\ x = Digit[(n % 10) + 1]
  OBVIOUS
<1>4. /\ n \in Nat /\ tens \in Nat /\ n = 10 * tens + (n % 10) /\ (n >= 10 => tens < n)
      /\ (n < 10 => tens = 0) /\ (n % 10) + 1 \in 1 .. 10
  BY <1>3
<1>5. x \in STRING /\ IsDigit(x) /\ DigitValue(x) = n % 10
  BY <1>3, <1>4, DigitValues
<1>6. PICK s \in Seq(STRING) : /\ s = (IF n < 10 THEN << >> ELSE Decimal[tens])
                               /\ \A i \in 1 .. Len(s) : IsDigit(s[i])
                               /\ Value(s) = tens
  <2>1. CASE n < 10
    <3>1. PICK s \in Seq(STRING) : s = << >> /\ Len(s) = 0
      BY EmptySeq
    <3>2. \A i \in 1 .. Len(s) : IsDigit(s[i])
      BY <3>1
    <3>3. PICK v \in [0 .. Len(s) -> Nat] : ValueOf(v, s) /\ Value(s) = v[Len(s)]
      BY <3>2, ValueLoop
    <3>4. Value(s) = 0
      BY <3>1, <3>3 DEF ValueOf
    <3> QED BY <1>4, <2>1, <3>1, <3>2, <3>4
  <2>2. CASE ~(n < 10)
    <3>1. tens \notin Bad
      BY <1>2, <1>4, <2>2
    <3> QED BY <1>4, <2>2, <3>1
  <2> QED BY <2>1, <2>2
<1>7. PICK t \in Seq(STRING) :
        /\ t = s \o <<x>> /\ t = Append(s, x) /\ Len(t) = Len(s) + 1 /\ Len(s) \in Nat
        /\ t[Len(s) + 1] = x /\ \A i \in 1 .. Len(s) : t[i] = s[i]
  <2>1. /\ Append(s, x) \in Seq(STRING) /\ Len(Append(s, x)) = Len(s) + 1
        /\ Append(s, x)[Len(s) + 1] = x
        /\ \A i \in 1 .. Len(s) : Append(s, x)[i] = s[i]
    BY <1>5, AppendProperties
  <2>2. Append(s, x) = s \o <<x>> /\ Len(s) \in Nat
    BY <1>5, AppendIsConcat, LenProperties
  <2> QED BY <2>1, <2>2, Zenon
<1>8. Decimal[n] = t
  <2>1. Decimal[n] = DecimalStep(Decimal, n)
    BY <1>4, DecimalExists
  <2> QED BY <1>3, <1>6, <1>7, <2>1 DEF DecimalStep
<1>9. Value(t) = n
  <2>1. Value(t) = 10 * Value(s) + DigitValue(x)
    BY <1>5, <1>6, <1>7, ValueAppend
  <2>2. Value(t) = 10 * tens + (n % 10)
    BY <1>5, <1>6, <2>1
  <2> QED BY <1>4, <2>2
<1>10. \A i \in 1 .. Len(t) : IsDigit(t[i])
  <2>1. \A i \in 1 .. Len(s) + 1 : i = Len(s) + 1 \/ i \in 1 .. Len(s)
    BY <1>7
  <2> QED BY <1>5, <1>6, <1>7, <2>1
<1>11. Right(n, t)
  BY <1>7, <1>9, <1>10
<1> QED BY <1>2, <1>8, <1>11

------------------------------------------------------------------------------
(* The parsers of one number and of one string.                            *)

\* Some values, and how parsing fails.
LEMMA Failures ==
  /\ Incomplete \in Failure /\ Thrown \in Failure /\ Thrown # Incomplete
  /\ \A value \in Nat \cup Text \cup RespRequest \cup {"parsing", "none"} : value \notin Failure
BY RespAssumption DEF Failure

\* What is written is among what may be parsed.
LEMMA WrittenTypes ==
  /\ Wild \in Text /\ Seq(STRING) \subseteq Text /\ Seq(Seq(STRING)) \subseteq Seq(Text)
  /\ Request \subseteq RespRequest
<1>1. Wild \in Text /\ Seq(STRING) \subseteq Text
  BY DEF Text
<1>2. Seq(Seq(STRING)) \subseteq Seq(Text)
  <2>1. SUFFICES ASSUME NEW args \in Seq(Seq(STRING)) PROVE args \in Seq(Text)
    OBVIOUS
  <2>2. PICK k \in Nat : args \in [1 .. k -> Seq(STRING)]
    BY SeqDef
  <2>3. args \in [1 .. k -> Text]
    BY <1>1, <2>2
  <2> QED BY <2>3, SeqDef
<1>3. Request \subseteq RespRequest
  BY <1>1, <1>2 DEF Request, RespRequest
<1> QED BY <1>1, <1>2, <1>3

\* Parsing goes on, and does not go beyond the end.
Onward(W, p, L, rest) == \E q \in p .. L : rest = Slice(W, q, L)

LEMMA OnwardTrans ==
  ASSUME NEW W, NEW L \in Nat, NEW p \in 0 .. L, NEW q \in p .. L, NEW rest,
         Onward(W, q, L, rest)
  PROVE  Onward(W, p, L, rest)
BY DEF Onward

\* The line end is looked for in the two bytes after the n-th.
LEMMA LineEnd ==
  ASSUME NEW W \in Seq(STRING), NEW L \in 0 .. Len(W), NEW p \in 0 .. L, NEW n \in 0 .. L - p,
         n + 2 \in 0 .. L - p
  PROVE  SubSeq(Slice(W, p, L), n + 1, n + 2) = CRLF <=> W[p + n + 1] = "\r" /\ W[p + n + 2] = "\n"
<1>1. p \in Nat /\ L \in Nat /\ Len(W) \in Nat
  BY SliceProperties
<1>2. PICK end \in Seq(STRING) : /\ end = SubSeq(Slice(W, p, L), n + 1, n + 2) /\ Len(end) = 2
                                 /\ end[1] = W[p + n + 1] /\ end[2] = W[p + n + 2]
  <2>1. n \in 0 .. L - p /\ n + 2 \in n .. L - p
    BY <1>1
  <2>2. SubSeq(Slice(W, p, L), n + 1, n + 2) = Slice(W, p + n, p + (n + 2))
    BY <2>1, FrontOfSlice
  <2>3. PICK a, b : a = p + n /\ b = p + (n + 2)
    OBVIOUS
  <2>4. a \in 0 .. b /\ b \in 0 .. Len(W) /\ b - a = 2 /\ a + 1 = p + n + 1 /\ a + 2 = p + n + 2
    BY <1>1, <2>1, <2>3
  <2>5. /\ Slice(W, a, b) \in Seq(STRING) /\ Len(Slice(W, a, b)) = b - a
        /\ \A i \in 1 .. b - a : Slice(W, a, b)[i] = W[a + i]
    <3>1. a \in 0 .. b /\ b \in 0 .. Len(W)
      BY <2>4
    <3> QED BY <3>1, SliceProperties
  <2>6. 1 \in 1 .. b - a /\ 2 \in 1 .. b - a
    BY <2>4
  <2>7. /\ Len(Slice(W, a, b)) = 2
        /\ Slice(W, a, b)[1] = W[p + n + 1] /\ Slice(W, a, b)[2] = W[p + n + 2]
    BY <2>4, <2>5, <2>6, Zenon
  <2> QED BY <2>2, <2>3, <2>5, <2>7, Zenon
<1>3. CRLF \in Seq(STRING) /\ Len(CRLF) = 2 /\ CRLF[1] = "\r" /\ CRLF[2] = "\n"
  BY RespAssumption DEF CRLF
<1>4. ASSUME end[1] = "\r", end[2] = "\n" PROVE end = CRLF
  <2>1. \A i \in 1 .. 2 : i = 1 \/ i = 2
    OBVIOUS
  <2> QED BY <1>2, <1>3, <1>4, <2>1, SeqEqual
<1> QED BY <1>2, <1>3, <1>4

\* What is read of a number that has n digits from p on.
NumAfterIs(W, L, p, n, parsed) ==
  /\ Value(Slice(W, p, p + n)) \in Nat
  /\ \/ /\ parsed.value \in Failure /\ parsed.rest = Slice(W, p, L)
        /\ \/ n = 0 \/ Value(Slice(W, p, p + n)) > SizeMax \/ p + n + 2 > L
           \/ W[p + n + 1] # "\r" \/ W[p + n + 2] # "\n"
     \/ /\ parsed.value = Value(Slice(W, p, p + n)) /\ n > 0 /\ p + n + 2 \in p .. L
        /\ parsed.rest = Slice(W, p + n + 2, L)

\* The digits and the line end.
LEMMA NumAfterSlice ==
  ASSUME NEW W \in Seq(STRING), NEW L \in 0 .. Len(W), NEW p \in 0 .. L, NEW n \in 0 .. L - p,
         \A i \in 1 .. n : IsDigit(W[p + i]), NEW parsed,
         parsed = NumAfter(Slice(W, p, L), Slice(W, p, p + n))
  PROVE  NumAfterIs(W, L, p, n, parsed)
<1>1. p \in Nat /\ L \in Nat /\ Len(W) \in Nat /\ p + n \in 0 .. Len(W) /\ p \in 0 .. p + n
  <2>1. p \in Nat /\ L \in Nat /\ Len(W) \in Nat
    BY SliceProperties
  <2> QED BY <2>1
<1>2. PICK buf \in Seq(STRING) : buf = Slice(W, p, L) /\ Len(buf) = L - p
  <2>1. Slice(W, p, L) \in Seq(STRING) /\ Len(Slice(W, p, L)) = L - p
    BY SliceProperties
  <2> QED BY <2>1, Zenon
<1>3. PICK e : e = p + n /\ e \in 0 .. Len(W) /\ p \in 0 .. e /\ e - p = n
  BY <1>1
<1>4. PICK digits \in Seq(STRING) : /\ digits = Slice(W, p, p + n) /\ Len(digits) = n
                                    /\ \A i \in 1 .. n : IsDigit(digits[i])
  <2>1. /\ Slice(W, p, e) \in Seq(STRING) /\ Len(Slice(W, p, e)) = e - p
        /\ \A i \in 1 .. e - p : Slice(W, p, e)[i] = W[p + i]
    <3>1. e \in 0 .. Len(W) /\ p \in 0 .. e
      BY <1>3
    <3> QED BY <3>1, SliceProperties
  <2>2. \A i \in 1 .. n : i \in 1 .. e - p
    BY <1>3
  <2> QED BY <1>3, <2>1, <2>2
<1>5. Value(digits) \in Nat
  <2>1. PICK v \in [0 .. n -> Nat] : Value(digits) = v[n]
    BY <1>4, ValueLoop
  <2> QED BY <2>1
<1>6. digits = << >> <=> n = 0
  BY <1>4, EmptySeq
<1>7. parsed = NumAfter(buf, digits)
  BY <1>2, <1>4
<1> DEFINE Wrong == \/ n = 0 \/ Value(digits) > SizeMax \/ p + n + 2 > L
                    \/ W[p + n + 1] # "\r" \/ W[p + n + 2] # "\n"
           Reads == /\ parsed.value = Value(digits) /\ n > 0 /\ p + n + 2 \in p .. L
                    /\ parsed.rest = Slice(W, p + n + 2, L)
<1> SUFFICES (parsed.value \in Failure /\ parsed.rest = buf /\ Wrong) \/ Reads
  <2> HIDE DEF Wrong, Reads
  <2> SUFFICES ASSUME (parsed.value \in Failure /\ parsed.rest = buf /\ Wrong) \/ Reads
               PROVE  /\ Value(digits) \in Nat
                      /\ (parsed.value \in Failure /\ parsed.rest = Slice(W, p, L) /\ Wrong) \/ Reads
    BY <1>4 DEF Wrong, Reads, NumAfterIs
  <2> QED BY <1>2, <1>5
<1>8. CASE digits = << >> \/ Value(digits) > SizeMax
  <2>1. parsed = [value |-> Thrown, rest |-> buf]
    BY <1>7, <1>8 DEF NumAfter
  <2>2. parsed.value = Thrown /\ parsed.rest = buf
    BY <2>1
  <2> QED BY <1>6, <1>8, <2>2, Failures
<1>9. CASE ~(digits = << >> \/ Value(digits) > SizeMax) /\ n + 2 > L - p
  <2>1. parsed = [value |-> Incomplete, rest |-> buf]
    BY <1>2, <1>4, <1>7, <1>9 DEF NumAfter
  <2>2. p + n + 2 > L
    BY <1>1, <1>9
  <2>3. parsed.value = Incomplete /\ parsed.rest = buf
    BY <2>1
  <2> QED BY <2>2, <2>3, Failures
<1>10. CASE ~(digits = << >> \/ Value(digits) > SizeMax) /\ ~(n + 2 > L - p)
  <2>1. p + n + 2 \in p .. L /\ n \in 0 .. L - p /\ n + 2 \in n .. L - p /\ n + 2 \in 0 .. L - p
    BY <1>1, <1>10
  <2>2. SubSeq(buf, n + 1, n + 2) = CRLF <=> W[p + n + 1] = "\r" /\ W[p + n + 2] = "\n"
    BY <1>2, <2>1, LineEnd
  <2>3. CASE SubSeq(buf, n + 1, n + 2) # CRLF
    <3>1. parsed = [value |-> Thrown, rest |-> buf]
      BY <1>2, <1>4, <1>7, <1>10, <2>3 DEF NumAfter
    <3>2. parsed.value = Thrown /\ parsed.rest = buf
      BY <3>1
    <3> QED BY <2>2, <2>3, <3>2, Failures
  <2>4. CASE SubSeq(buf, n + 1, n + 2) = CRLF
    <3>1. parsed = [value |-> Value(digits), rest |-> Rest(buf, n + 2)]
      BY <1>2, <1>4, <1>7, <1>10, <2>4 DEF NumAfter
    <3>2. Rest(buf, n + 2) = Slice(W, p + (n + 2), L)
      BY <1>2, <2>1, RestOfSlice
    <3>3. p + (n + 2) = p + n + 2 /\ n > 0
      BY <1>1, <1>6, <1>10
    <3>4. parsed.value = Value(digits) /\ parsed.rest = Slice(W, p + n + 2, L)
      BY <3>1, <3>2, <3>3
    <3> QED BY <2>1, <3>3, <3>4
  <2> QED BY <2>3, <2>4
<1> QED BY <1>8, <1>9, <1>10

------------------------------------------------------------------------------
(* What was sent, part by part.                                            *)

\* W has E after its p-th byte.
Holds(W, p, E) == p + Len(E) <= Len(W) /\ \A i \in 1 .. Len(E) : W[p + i] = E[i]

LEMMA HoldsConcat ==
  ASSUME NEW S, NEW W \in Seq(S), NEW E \in Seq(S), NEW F \in Seq(S), NEW p \in Nat,
         Holds(W, p, E \o F)
  PROVE  /\ Len(E) \in Nat /\ Len(F) \in Nat /\ Len(E \o F) = Len(E) + Len(F)
         /\ Holds(W, p, E) /\ Holds(W, p + Len(E), F)
<1>1. Len(E) \in Nat /\ Len(F) \in Nat /\ Len(W) \in Nat
  BY LenProperties
<1>2. PICK t : t = E \o F
  OBVIOUS
<1>3. /\ Len(t) = Len(E) + Len(F)
      /\ \A i \in 1 .. Len(E) + Len(F) : t[i] = IF i <= Len(E) THEN E[i] ELSE F[i - Len(E)]
  BY <1>2, ConcatProperties
<1>4. p + Len(t) <= Len(W) /\ \A i \in 1 .. Len(t) : W[p + i] = t[i]
  BY <1>2 DEF Holds
<1>5. Holds(W, p, E)
  <2>1. \A i \in 1 .. Len(E) : i \in 1 .. Len(E) + Len(F) /\ i <= Len(E)
    BY <1>1
  <2> QED BY <1>1, <1>3, <1>4, <2>1 DEF Holds
<1>6. Holds(W, p + Len(E), F)
  <2>1. ASSUME NEW i \in 1 .. Len(F) PROVE W[(p + Len(E)) + i] = F[i]
    <3>1. /\ Len(E) + i \in 1 .. Len(E) + Len(F) /\ ~(Len(E) + i <= Len(E))
          /\ (Len(E) + i) - Len(E) = i /\ p + (Len(E) + i) = (p + Len(E)) + i
      BY <1>1
    <3> QED BY <1>3, <1>4, <3>1
  <2> QED BY <1>1, <1>3, <1>4, <2>1 DEF Holds
<1> QED BY <1>1, <1>2, <1>3, <1>5, <1>6

\* A part of a part.
LEMMA HoldsWithin ==
  ASSUME NEW S, NEW W \in Seq(S), NEW E \in Seq(S), NEW F \in Seq(S),
         NEW p \in Nat, NEW q \in Nat, Holds(W, p, E), Holds(E, q, F)
  PROVE  Holds(W, p + q, F)
<1>1. Len(W) \in Nat /\ Len(E) \in Nat /\ Len(F) \in Nat
  BY LenProperties
<1>2. ASSUME NEW i \in 1 .. Len(F) PROVE W[(p + q) + i] = F[i]
  <2>1. q + i \in 1 .. Len(E) /\ p + (q + i) = (p + q) + i
    BY <1>1 DEF Holds
  <2> QED BY <2>1 DEF Holds
<1> QED BY <1>1, <1>2 DEF Holds

\* A part is a slice.
LEMMA HoldsSlice ==
  ASSUME NEW S, NEW W \in Seq(S), NEW E \in Seq(S), NEW p \in Nat, Holds(W, p, E)
  PROVE  p + Len(E) \in p .. Len(W) /\ E = Slice(W, p, p + Len(E))
<1>1. Len(W) \in Nat /\ Len(E) \in Nat
  BY LenProperties
<1>2. PICK e : e = p + Len(E)
  OBVIOUS
<1>3. e \in 0 .. Len(W) /\ p \in 0 .. e /\ Len(E) = e - p /\ e \in p .. Len(W)
  BY <1>1, <1>2 DEF Holds
<1>4. \A i \in 1 .. e - p : E[i] = W[p + i]
  BY <1>3 DEF Holds
<1> QED BY <1>2, <1>3, <1>4, IsSlice

LEMMA SingleProperties ==
  ASSUME NEW S, NEW x \in S
  PROVE  <<x>> \in Seq(S) /\ Len(<<x>>) = 1 /\ <<x>>[1] = x
OBVIOUS

\* The mark, what it is the mark of, and the line end.
LineAt(W, p, c, str) ==
  /\ Len(str) \in Nat /\ p + Len(str) + 3 \in p .. Len(W)
  /\ W[p + 1] = c /\ \A i \in 1 .. Len(str) : W[(p + 1) + i] = str[i]
  /\ W[p + Len(str) + 2] = "\r" /\ W[p + Len(str) + 3] = "\n"

LEMMA LineForm ==
  ASSUME NEW W \in Seq(STRING), NEW p \in Nat, NEW c \in STRING, NEW str \in Seq(STRING),
         Holds(W, p, AppendString(c, str))
  PROVE  /\ AppendString(c, str) \in Seq(STRING)
         /\ Len(AppendString(c, str)) = Len(str) + 3
         /\ LineAt(W, p, c, str)
<1>1. CRLF \in Seq(STRING) /\ Len(CRLF) = 2 /\ CRLF[1] = "\r" /\ CRLF[2] = "\n"
  BY RespAssumption DEF CRLF
<1>2. <<c>> \in Seq(STRING) /\ Len(<<c>>) = 1 /\ <<c>>[1] = c
  BY SingleProperties
<1>3. PICK front \in Seq(STRING) : front = <<c>> \o str /\ Len(front) = 1 + Len(str)
  <2>1. PICK mark \in Seq(STRING) : mark = <<c>> /\ Len(mark) = 1
    BY <1>2
  <2>2. mark \o str \in Seq(STRING) /\ Len(mark \o str) = Len(mark) + Len(str)
    BY ConcatProperties
  <2> QED BY <2>1, <2>2
<1>4. AppendString(c, str) = front \o CRLF
  BY <1>3 DEF AppendString
<1>5. Len(str) \in Nat /\ Len(front) \in Nat /\ Len(W) \in Nat
  BY LenProperties
<1>6. /\ front \o CRLF \in Seq(STRING) /\ Len(front \o CRLF) = Len(front) + 2
      /\ Holds(W, p, front) /\ Holds(W, p + Len(front), CRLF)
  <2>1. front \o CRLF \in Seq(STRING) /\ Len(front \o CRLF) = Len(front) + Len(CRLF)
    BY <1>1, ConcatProperties
  <2>2. Holds(W, p, front) /\ Holds(W, p + Len(front), CRLF)
    BY <1>1, <1>4, HoldsConcat
  <2> QED BY <1>1, <2>1, <2>2
<1>7. Holds(W, p, <<c>>) /\ Holds(W, p + 1, str)
  BY <1>2, <1>3, <1>6, HoldsConcat
<1>8. /\ (p + Len(front)) + 1 = p + Len(str) + 2 /\ (p + Len(front)) + 2 = p + Len(str) + 3
      /\ 1 \in 1 .. 1 /\ 1 \in 1 .. 2 /\ 2 \in 1 .. 2
  BY <1>3, <1>5
<1>9. W[p + 1] = c /\ \A i \in 1 .. Len(str) : W[(p + 1) + i] = str[i]
  BY <1>2, <1>7, <1>8 DEF Holds
<1>10. /\ W[(p + Len(front)) + 1] = "\r" /\ W[(p + Len(front)) + 2] = "\n"
       /\ p + Len(front) + 2 <= Len(W)
  BY <1>1, <1>6, <1>8 DEF Holds
<1>11. Len(front \o CRLF) = Len(str) + 3 /\ p + Len(str) + 3 \in p .. Len(W)
  BY <1>3, <1>5, <1>6, <1>10
<1> QED BY <1>4, <1>5, <1>6, <1>8, <1>9, <1>10, <1>11 DEF LineAt

\* A number is parsed from its mark on.
LEMMA NumParsed ==
  ASSUME NEW W \in Seq(STRING), NEW L \in 0 .. Len(W), NEW p \in 0 .. L, NEW c, NEW parsed,
         parsed = ParseNum(c, Slice(W, p, L))
  PROVE  \E q \in p .. L : /\ parsed.rest = Slice(W, q, L)
                           /\ parsed.value \in Failure \/ (parsed.value \in Nat /\ q > p)
<1>1. p \in Nat /\ L \in Nat /\ Len(W) \in Nat
  BY SliceProperties
<1>2. PICK buf \in Seq(STRING) : buf = Slice(W, p, L) /\ Len(buf) = L - p
  BY SliceProperties
<1>3. /\ buf = << >> <=> p = L
      /\ p < L => Head(buf) = W[p + 1] /\ Tail(buf) = Slice(W, p + 1, L)
  <2>1. /\ Slice(W, p, L) = << >> <=> p = L
        /\ p < L => /\ Head(Slice(W, p, L)) = W[p + 1]
                    /\ Tail(Slice(W, p, L)) = Slice(W, p + 1, L)
    BY HeadTailOfSlice
  <2> QED BY <1>2, <2>1, Zenon
<1>4. CASE p = L \/ Head(buf) # c
  <2>1. parsed \in {[value |-> Incomplete, rest |-> buf], [value |-> Thrown, rest |-> buf]}
    BY <1>2, <1>3, <1>4 DEF ParseNum
  <2>2. parsed.value \in {Incomplete, Thrown} /\ parsed.rest = buf
    BY <2>1
  <2> QED BY <1>1, <1>2, <2>2, Failures
<1>5. CASE p + 1 = L /\ Head(buf) = c
  <2>1. parsed = [value |-> Incomplete, rest |-> << >>]
    BY <1>1, <1>2, <1>3, <1>5 DEF ParseNum
  <2>2. parsed.value = Incomplete /\ parsed.rest = << >>
    BY <2>1
  <2>3. L \in p .. L /\ L \in 0 .. L /\ Slice(W, L, L) = << >>
    BY <1>1, HeadTailOfSlice
  <2> QED BY <2>2, <2>3, Failures
<1>6. CASE p + 1 < L /\ Head(buf) = c
  <2>1. p + 1 \in 0 .. L /\ p < L /\ L - (p + 1) \in Nat
    BY <1>1, <1>6
  <2>2. PICK r : r = p + 1
    OBVIOUS
  <2>3. PICK n \in 0 .. L - r : /\ Digits(Slice(W, r, L)) = Slice(W, r, r + n)
                                /\ \A i \in 1 .. n : IsDigit(W[r + i])
    BY <2>1, <2>2, DigitsOfSlice
  <2>4. parsed = NumAfter(Slice(W, r, L), Slice(W, r, r + n))
    <3>1. L - p # 1 /\ Tail(buf) = Slice(W, r, L) /\ buf # << >>
      BY <1>1, <1>3, <1>6, <2>1, <2>2
    <3> QED BY <1>2, <1>6, <2>3, <3>1 DEF ParseNum
  <2>5. /\ Value(Slice(W, r, r + n)) \in Nat
        /\ \/ parsed.value \in Failure /\ parsed.rest = Slice(W, r, L)
           \/ /\ parsed.value = Value(Slice(W, r, r + n)) /\ r + n + 2 \in r .. L
              /\ parsed.rest = Slice(W, r + n + 2, L)
    <3>1. r \in 0 .. L
      BY <2>1, <2>2
    <3>2. NumAfterIs(W, L, r, n, parsed)
      BY <2>3, <2>4, <3>1, NumAfterSlice
    <3> QED BY <3>2 DEF NumAfterIs
  <2>6. r \in p .. L /\ r > p
    BY <1>1, <2>1, <2>2
  <2>7. CASE parsed.value \in Failure /\ parsed.rest = Slice(W, r, L)
    BY <2>6, <2>7
  <2>8. CASE /\ parsed.value = Value(Slice(W, r, r + n)) /\ r + n + 2 \in r .. L
             /\ parsed.rest = Slice(W, r + n + 2, L)
    <3>1. r + n + 2 \in p .. L /\ r + n + 2 > p
      BY <1>1, <2>3, <2>6, <2>8
    <3> QED BY <2>5, <2>8, <3>1
  <2> QED BY <2>5, <2>7, <2>8
<1> QED BY <1>1, <1>4, <1>5, <1>6

\* The number that was written is read, unless it is cut or too large.
LEMMA NumRead ==
  ASSUME NEW W \in Seq(STRING), NEW L \in 0 .. Len(W), NEW p \in 0 .. L, NEW c \in STRING,
         NEW n \in Nat, Holds(W, p, AppendString(c, Decimal[n])), NEW end,
         end = p + Len(Decimal[n]) + 3, NEW parsed, parsed = ParseNum(c, Slice(W, p, L))
  PROVE  /\ end \in p .. Len(W)
         /\ \/ parsed.value \in Failure /\ ~(end <= L /\ n <= SizeMax)
            \/ parsed.value = n /\ end <= L /\ parsed.rest = Slice(W, end, L)
<1>1. p \in Nat /\ L \in Nat /\ Len(W) \in Nat
  BY SliceProperties
<1>2. PICK dec \in Seq(STRING) : /\ dec = Decimal[n] /\ Len(dec) \in Nat /\ Len(dec) >= 1
                                 /\ \A i \in 1 .. Len(dec) : IsDigit(dec[i])
                                 /\ Value(dec) = n
  BY DecimalProperties
<1>3. PICK d \in Nat : d = Len(dec) /\ d >= 1
  BY <1>2
<1>4. /\ end \in p .. Len(W) /\ W[p + 1] = c /\ \A i \in 1 .. d : W[(p + 1) + i] = dec[i]
      /\ W[p + d + 2] = "\r" /\ W[p + d + 3] = "\n" /\ end = p + d + 3
  <2>1. Holds(W, p, AppendString(c, dec)) /\ end = p + d + 3
    BY <1>2, <1>3
  <2>2. /\ p + d + 3 \in p .. Len(W) /\ W[p + 1] = c
        /\ \A i \in 1 .. d : W[(p + 1) + i] = dec[i]
        /\ W[p + d + 2] = "\r" /\ W[p + d + 3] = "\n"
    <3>1. LineAt(W, p, c, dec)
      BY <1>1, <2>1, LineForm
    <3> QED BY <1>3, <3>1 DEF LineAt
  <2> QED BY <2>1, <2>2
<1>5. CASE p + 1 < L
  <2>1. PICK r : r = p + 1
    OBVIOUS
  <2>2. /\ r \in 0 .. L /\ r \in Nat /\ r < L /\ p < L /\ r + d + 1 = p + d + 2
        /\ r + d + 2 = p + d + 3
    BY <1>1, <1>3, <1>5, <2>1
  <2>3. parsed = NumAfter(Slice(W, r, L), Digits(Slice(W, r, L)))
    <3>1. /\ Slice(W, p, L) # << >> /\ Head(Slice(W, p, L)) = c
          /\ Tail(Slice(W, p, L)) = Slice(W, r, L) /\ Len(Slice(W, p, L)) = L - p
      <4>1. Slice(W, p, L) # << >> /\ Head(Slice(W, p, L)) = c /\ Tail(Slice(W, p, L)) = Slice(W, p + 1, L)
        <5>1. p < L => /\ Head(Slice(W, p, L)) = W[p + 1]
                      /\ Tail(Slice(W, p, L)) = Slice(W, p + 1, L)
          BY HeadTailOfSlice
        <5>2. Slice(W, p, L) = << >> <=> p = L
          BY HeadTailOfSlice
        <5> QED BY <1>1, <1>4, <2>2, <5>1, <5>2
      <4> QED BY <2>1, <4>1, SliceProperties
    <3>2. L - p # 1
      BY <1>1, <1>5
    <3> QED BY <3>1, <3>2 DEF ParseNum
  <2>4. CASE d <= L - r
    <3>1. d \in 0 .. L - r /\ r + d \in r .. Len(W)
      BY <1>1, <1>3, <2>2, <2>4
    <3>2. \A i \in 1 .. d : IsDigit(W[r + i])
      BY <1>2, <1>3, <1>4, <2>1
    <3>3. Digits(Slice(W, r, L)) = Slice(W, r, r + d)
      <4>1. ~IsDigit(W[r + d + 1])
        BY <1>4, <2>2, DigitValues
      <4> QED BY <2>2, <3>1, <3>2, <4>1, DigitsAre
    <3>4. Slice(W, r, r + d) = dec
      <4>1. PICK e : e = r + d
        OBVIOUS
      <4>2. e \in 0 .. Len(W) /\ r \in 0 .. e /\ e - r = d
        BY <1>1, <2>2, <3>1, <4>1
      <4>3. Len(dec) = e - r /\ \A i \in 1 .. e - r : dec[i] = W[r + i]
        BY <1>3, <1>4, <2>1, <4>2, Zenon
      <4>4. dec = Slice(W, r, e)
        BY <4>2, <4>3, IsSlice
      <4> QED BY <4>1, <4>4, Zenon
    <3>5. \/ /\ parsed.value \in Failure
             /\ \/ d = 0 \/ n > SizeMax \/ r + d + 2 > L
                \/ W[r + d + 1] # "\r" \/ W[r + d + 2] # "\n"
          \/ /\ parsed.value = n /\ r + d + 2 \in r .. L
             /\ parsed.rest = Slice(W, r + d + 2, L)
      <4>1. parsed = NumAfter(Slice(W, r, L), Slice(W, r, r + d)) /\ Value(Slice(W, r, r + d)) = n
        BY <1>2, <2>3, <3>3, <3>4
      <4>2. d \in 0 .. L - r /\ r \in 0 .. L
        BY <2>2, <3>1
      <4>3. NumAfterIs(W, L, r, d, parsed)
        BY <3>2, <4>1, <4>2, NumAfterSlice
      <4> QED BY <4>1, <4>3 DEF NumAfterIs
    <3>6. CASE /\ parsed.value \in Failure
               /\ \/ d = 0 \/ n > SizeMax \/ r + d + 2 > L
                  \/ W[r + d + 1] # "\r" \/ W[r + d + 2] # "\n"
      <4>1. n > SizeMax \/ end > L
        BY <1>3, <1>4, <2>2, <3>6
      <4>2. ~(end <= L /\ n <= SizeMax)
        BY <1>1, <1>4, <4>1, RespAssumption
      <4> QED BY <1>4, <3>6, <4>2
    <3>7. CASE /\ parsed.value = n /\ r + d + 2 \in r .. L
               /\ parsed.rest = Slice(W, r + d + 2, L)
      <4>1. end = r + d + 2 /\ end <= L
        BY <1>1, <1>3, <1>4, <2>1, <2>2, <3>7
      <4> QED BY <1>4, <3>7, <4>1
    <3> QED BY <3>5, <3>6, <3>7
  <2>5. CASE ~(d <= L - r)
    <3>1. PICK m \in 0 .. L - r : /\ Digits(Slice(W, r, L)) = Slice(W, r, r + m)
                                  /\ \A i \in 1 .. m : IsDigit(W[r + i])
      BY <2>2, DigitsOfSlice
    <3>2. L - r \in Nat /\ m < d /\ \A i \in 1 .. d : IsDigit(W[r + i])
      BY <1>1, <1>2, <1>3, <1>4, <2>1, <2>2, <2>5
    <3>3. \/ parsed.value \in Failure
          \/ parsed.value = Value(Slice(W, r, r + m)) /\ r + m + 2 \in r .. L
      <4>1. parsed = NumAfter(Slice(W, r, L), Slice(W, r, r + m)) /\ r \in 0 .. L
        BY <2>2, <2>3, <3>1
      <4>2. NumAfterIs(W, L, r, m, parsed)
        BY <3>1, <4>1, NumAfterSlice
      <4> QED BY <4>2 DEF NumAfterIs
    <3>4. parsed.value \in Failure
      <4>1. SUFFICES ASSUME r + m + 2 \in r .. L, parsed.value \notin Failure PROVE FALSE
        BY <3>3
      <4>2. m + 1 \in 1 .. d /\ r + (m + 1) = r + m + 1 /\ n \in Nat
        BY <2>2, <3>1, <3>2
      <4>3. parsed = NumAfter(Slice(W, r, L), Slice(W, r, r + m))
        BY <2>3, <3>1
      <4>4. m = L - r
        <5>1. PICK k \in 0 .. L - r : /\ Digits(Slice(W, r, L)) = Slice(W, r, r + k)
                                      /\ k < L - r => ~IsDigit(W[r + k + 1])
          BY <2>2, DigitsOfSlice
        <5>2. k = L - r
          <6>1. SUFFICES ASSUME k < L - r PROVE FALSE
            BY <3>2, <5>1
          <6>2. k + 1 \in 1 .. d /\ r + (k + 1) = r + k + 1
            BY <2>2, <3>2, <5>1, <6>1, <2>5, <1>3
          <6> QED BY <3>2, <5>1, <6>1, <6>2
        <5>3. Len(Slice(W, r, r + k)) = k /\ Len(Slice(W, r, r + m)) = m
          <6>1. ASSUME NEW j \in 0 .. L - r PROVE Len(Slice(W, r, r + j)) = j
            <7>1. PICK e : e = r + j
              OBVIOUS
            <7>2. e \in 0 .. Len(W) /\ r \in 0 .. e /\ e - r = j
              BY <1>1, <2>2, <7>1
            <7> QED BY <7>1, <7>2, SliceProperties
          <6> QED BY <3>1, <5>1, <6>1
        <5> QED BY <3>1, <5>1, <5>2, <5>3
      <4> QED BY <1>1, <2>2, <4>1, <4>4
    <3>5. ~(end <= L)
      BY <1>1, <1>3, <1>4, <2>1, <2>5
    <3> QED BY <1>4, <3>4, <3>5
  <2> QED BY <2>4, <2>5
<1>6. CASE ~(p + 1 < L)
  <2>1. ~(end <= L)
    BY <1>1, <1>3, <1>4, <1>6
  <2>2. parsed.value \in Failure
    <3>1. /\ Slice(W, p, L) = << >> <=> p = L
          /\ p < L => Head(Slice(W, p, L)) = c /\ Len(Slice(W, p, L)) = L - p
      <4>1. /\ Slice(W, p, L) = << >> <=> p = L
            /\ p < L => Head(Slice(W, p, L)) = c
        <5>1. /\ Slice(W, p, L) = << >> <=> p = L
              /\ p < L => Head(Slice(W, p, L)) = W[p + 1]
          BY HeadTailOfSlice
        <5> QED BY <1>4, <5>1
      <4>2. Len(Slice(W, p, L)) = L - p
        BY SliceProperties
      <4> QED BY <4>1, <4>2, Zenon
    <3>2. p = L \/ (p < L /\ L - p = 1)
      BY <1>1, <1>6
    <3>3. parsed \in {[value |-> Incomplete, rest |-> Slice(W, p, L)], [value |-> Incomplete, rest |-> << >>]}
      BY <3>1, <3>2 DEF ParseNum
    <3>4. parsed.value = Incomplete
      BY <3>3
    <3> QED BY <3>4, Failures
  <2> QED BY <1>4, <2>1, <2>2
<1> QED BY <1>5, <1>6

------------------------------------------------------------------------------
(* Strings.                                                                *)

\* What is read of a string of len bytes, or of one so long that its end wraps
\* around to the line end of its length.
StringAfterIs(W, L, p, len, parsed) ==
  \/ /\ parsed.value \in Failure /\ parsed.rest = Slice(W, p, L)
     /\ p + len + 2 > L \/ len + 2 > SizeMax \/ W[p + len + 1] # "\r" \/ W[p + len + 2] # "\n"
  \/ parsed.value = Wild /\ parsed.rest = Slice(W, p, L) /\ len + 2 > SizeMax
  \/ /\ parsed.value = Slice(W, p, p + len) /\ p + len + 2 \in p .. L
     /\ parsed.rest = Slice(W, p + len + 2, L)

\* len + 2 may wrap around, and nothing of the datagram is passed over then.
LEMMA StringAfterSlice ==
  ASSUME NEW W \in Seq(STRING), NEW L \in 0 .. Len(W), NEW p \in 0 .. L, NEW len \in Nat,
         NEW parsed, parsed = StringAfter(len, Slice(W, p, L))
  PROVE  StringAfterIs(W, L, p, len, parsed)
<1>1. p \in Nat /\ L \in Nat /\ Len(W) \in Nat
  BY SliceProperties
<1>2. PICK buf \in Seq(STRING) : buf = Slice(W, p, L) /\ Len(buf) = L - p
  BY SliceProperties
<1>3. PICK need \in Nat : /\ need = (len + 2) % (SizeMax + 1)
                          /\ len + 2 <= SizeMax => need = len + 2
                          /\ need <= SizeMax
  <2>1. SizeMax + 1 \in Nat \ {0} /\ len + 2 \in Nat /\ SizeMax \in Nat
    BY RespAssumption
  <2>2. (len + 2) % (SizeMax + 1) \in 0 .. SizeMax
    BY <2>1
  <2>3. len + 2 <= SizeMax => (len + 2) % (SizeMax + 1) = len + 2
    BY <2>1
  <2> QED BY <2>2, <2>3
<1>4. CASE L - p < need
  <2>1. parsed = [value |-> Incomplete, rest |-> buf]
    BY <1>2, <1>3, <1>4 DEF StringAfter
  <2>2. parsed.value \in Failure /\ parsed.rest = buf
    BY <2>1, Failures
  <2>3. p + len + 2 > L \/ len + 2 > SizeMax
    <3>1. SUFFICES ASSUME len + 2 <= SizeMax PROVE p + len + 2 > L
      BY RespAssumption
    <3>2. L - p < len + 2
      BY <1>3, <1>4, <3>1
    <3> QED BY <1>1, <3>2
  <2> QED BY <1>2, <2>2, <2>3 DEF StringAfterIs
<1>5. CASE ~(L - p < need) /\ len + 2 > SizeMax
  <2>1. parsed = [value |-> IF len = SizeMax THEN Thrown ELSE Wild, rest |-> buf]
    BY <1>2, <1>3, <1>5 DEF StringAfter
  <2>2. parsed.value \in Failure \cup {Wild} /\ parsed.rest = buf
    BY <2>1, Failures
  <2> QED BY <1>2, <1>5, <2>2 DEF StringAfterIs
<1>6. CASE ~(L - p < need) /\ ~(len + 2 > SizeMax)
  <2>1. need = len + 2 /\ L - p \in Nat
    BY <1>1, <1>3, <1>6, RespAssumption
  <2>2. /\ len \in 0 .. L - p /\ len + 2 \in 0 .. L - p /\ p + len + 2 \in p .. L
        /\ 0 \in 0 .. L - p /\ len \in 0 .. L - p
    BY <1>1, <1>6, <2>1
  <2>3. SubSeq(buf, len + 1, len + 2) = CRLF <=> W[p + len + 1] = "\r" /\ W[p + len + 2] = "\n"
    BY <1>2, <2>2, LineEnd
  <2>4. CASE SubSeq(buf, len + 1, len + 2) # CRLF
    <3>1. parsed = [value |-> Thrown, rest |-> buf]
      BY <1>2, <1>3, <1>6, <2>4 DEF StringAfter
    <3>2. parsed.value \in Failure /\ parsed.rest = buf
      BY <3>1, Failures
    <3> QED BY <1>2, <2>3, <2>4, <3>2 DEF StringAfterIs
  <2>5. CASE SubSeq(buf, len + 1, len + 2) = CRLF
    <3>1. parsed = [value |-> SubSeq(buf, 1, len), rest |-> Rest(buf, len + 2)]
      BY <1>2, <1>3, <1>6, <2>5 DEF StringAfter
    <3>2. Rest(buf, len + 2) = Slice(W, p + (len + 2), L)
      BY <1>2, <2>2, RestOfSlice
    <3>3. SubSeq(buf, 1, len) = Slice(W, p, p + len)
      <4>1. SubSeq(Slice(W, p, L), 0 + 1, len) = Slice(W, p + 0, p + len)
        BY <2>2, FrontOfSlice
      <4>2. 0 + 1 = 1 /\ p + 0 = p
        BY <1>1
      <4> QED BY <1>2, <4>1, <4>2
    <3>4. p + (len + 2) = p + len + 2
      BY <1>1
    <3>5. parsed.value = Slice(W, p, p + len) /\ parsed.rest = Slice(W, p + len + 2, L)
      BY <3>1, <3>2, <3>3, <3>4
    <3> QED BY <2>2, <3>5 DEF StringAfterIs
  <2> QED BY <2>4, <2>5
<1> QED BY <1>4, <1>5, <1>6

\* A parser of one part goes on when it succeeds.
PartParsed(W, L, p, parsed, Type) ==
  \E q \in p .. L : /\ parsed.rest = Slice(W, q, L)
                    /\ parsed.value \in Failure \/ (parsed.value \in Type /\ q > p)

LEMMA ArgvParsed ==
  ASSUME NEW W \in Seq(STRING), NEW L \in 0 .. Len(W), NEW p \in 0 .. L, NEW parsed,
         parsed = ParseArgv(Slice(W, p, L))
  PROVE  PartParsed(W, L, p, parsed, Text)
<1>1. p \in Nat /\ L \in Nat /\ Len(W) \in Nat
  BY SliceProperties
<1>2. PICK num : num = ParseNum("$", Slice(W, p, L))
  OBVIOUS
<1>3. PICK q \in p .. L : /\ num.rest = Slice(W, q, L)
                          /\ num.value \in Failure \/ (num.value \in Nat /\ q > p)
  BY <1>2, NumParsed
<1>4. parsed = ArgvAfter(num)
  BY <1>2 DEF ParseArgv
<1>5. CASE num.value \in Failure
  <2>1. parsed = num
    BY <1>4, <1>5 DEF ArgvAfter
  <2> QED BY <1>3, <1>5, <2>1 DEF PartParsed
<1>6. CASE num.value \notin Failure
  <2>1. q > p /\ q \in 0 .. L
    BY <1>1, <1>3, <1>6
  <2>2. PICK len \in Nat : len = num.value
    BY <1>3, <1>6
  <2>3. parsed = StringAfter(len, Slice(W, q, L))
    BY <1>3, <1>4, <1>6, <2>2 DEF ArgvAfter
  <2>4. StringAfterIs(W, L, q, len, parsed)
    BY <2>1, <2>3, StringAfterSlice
  <2>5. CASE parsed.value \in Failure /\ parsed.rest = Slice(W, q, L)
    BY <1>3, <2>5 DEF PartParsed
  <2>6. CASE /\ parsed.value = Slice(W, q, q + len) /\ q + len + 2 \in q .. L
             /\ parsed.rest = Slice(W, q + len + 2, L)
    <3>1. PICK e : e = q + len
      OBVIOUS
    <3>2. e \in 0 .. Len(W) /\ q \in 0 .. e /\ q + len + 2 \in p .. L /\ q + len + 2 > p
      BY <1>1, <2>1, <2>2, <2>6, <3>1
    <3>3. Slice(W, q, e) \in Text
      BY <3>2, SliceProperties, WrittenTypes
    <3> QED BY <2>6, <3>1, <3>2, <3>3 DEF PartParsed
  <2>7. CASE parsed.value = Wild /\ parsed.rest = Slice(W, q, L)
    BY <1>3, <2>1, <2>7, WrittenTypes DEF PartParsed
  <2> QED BY <2>4, <2>5, <2>6, <2>7 DEF StringAfterIs
<1> QED BY <1>5, <1>6

\* Where there is no string.
LEMMA ArgvMissing ==
  ASSUME NEW W \in Seq(STRING), NEW L \in 0 .. Len(W), NEW p \in 0 .. L, NEW parsed,
         parsed = ParseArgv(Slice(W, p, L))
  PROVE  /\ p = L => parsed.value = Incomplete /\ parsed.rest = Slice(W, p, L)
         /\ p < L /\ W[p + 1] # "$" => parsed.value = Thrown
<1>1. PICK num : num = ParseNum("$", Slice(W, p, L))
  OBVIOUS
<1>2. parsed = ArgvAfter(num)
  BY <1>1 DEF ParseArgv
<1>3. /\ Slice(W, p, L) = << >> <=> p = L
      /\ p < L => Head(Slice(W, p, L)) = W[p + 1]
  BY HeadTailOfSlice
<1>4. CASE p = L
  <2>1. num = [value |-> Incomplete, rest |-> Slice(W, p, L)]
    BY <1>1, <1>3, <1>4 DEF ParseNum
  <2>2. num.value = Incomplete /\ num.rest = Slice(W, p, L)
    BY <2>1
  <2>3. parsed = num
    BY <1>2, <2>2, Failures DEF ArgvAfter
  <2>4. L \in Nat
    BY SliceProperties
  <2> QED BY <1>4, <2>2, <2>3, <2>4
<1>5. CASE p < L /\ W[p + 1] # "$"
  <2>1. p # L
    BY <1>5, SliceProperties
  <2>2. num = [value |-> Thrown, rest |-> Slice(W, p, L)]
    BY <1>1, <1>3, <1>5, <2>1 DEF ParseNum
  <2>3. num.value = Thrown
    BY <2>2
  <2>4. parsed = num
    BY <1>2, <2>3, Failures DEF ArgvAfter
  <2> QED BY <1>5, <2>1, <2>3, <2>4
<1> QED BY <1>4, <1>5

\* A bulk string is its length and what it is the length of.
BulkAt(W, p, str, line) ==
  /\ Len(str) \in Nat /\ AppendBulkString(str) \in Seq(STRING)
  /\ Len(AppendBulkString(str)) = Len(Decimal[Len(str)]) + Len(str) + 5
  /\ Len(line) = Len(Decimal[Len(str)]) + 3
  /\ Holds(W, p, line) /\ Holds(W, p + Len(line), str)
  /\ Holds(W, p + Len(line) + Len(str), CRLF)

LEMMA BulkForm ==
  ASSUME NEW W \in Seq(STRING), NEW p \in Nat, NEW str \in Seq(STRING),
         Holds(W, p, AppendBulkString(str)), NEW line, line = AppendString("$", Decimal[Len(str)])
  PROVE  BulkAt(W, p, str, line)
<1>1. /\ "$" \in STRING
      /\ CRLF \in Seq(STRING) /\ Len(CRLF) = 2
  BY RespAssumption DEF CRLF
<1>2. Len(str) \in Nat /\ Len(W) \in Nat
  BY LenProperties
<1>3. PICK dec \in Seq(STRING) : dec = Decimal[Len(str)] /\ Len(dec) \in Nat
  BY <1>2, DecimalProperties
<1>4. line \in Seq(STRING) /\ Len(line) = Len(dec) + 3
  <2>1. PICK mark \in Seq(STRING) : mark = <<"$">> /\ Len(mark) = 1
    BY <1>1, SingleProperties
  <2>2. PICK front \in Seq(STRING) : front = mark \o dec /\ Len(front) = 1 + Len(dec)
    <3>1. mark \o dec \in Seq(STRING) /\ Len(mark \o dec) = Len(mark) + Len(dec)
      BY ConcatProperties
    <3> QED BY <2>1, <3>1, Zenon
  <2>3. front \o CRLF \in Seq(STRING) /\ Len(front \o CRLF) = Len(front) + Len(CRLF)
    BY <1>1, ConcatProperties
  <2>4. line = front \o CRLF
    BY <1>3, <2>1, <2>2 DEF AppendString
  <2>5. line \in Seq(STRING) /\ Len(line) = Len(front) + Len(CRLF)
    BY <2>3, <2>4, Zenon
  <2> QED BY <1>1, <1>3, <2>2, <2>5
<1>5. PICK both \in Seq(STRING) : both = line \o str /\ Len(both) = Len(line) + Len(str)
  BY <1>4, ConcatProperties
<1>6. AppendBulkString(str) = both \o CRLF
  BY <1>3, <1>5 DEF AppendBulkString, AppendString
<1>7. both \o CRLF \in Seq(STRING) /\ Len(both \o CRLF) = Len(both) + Len(CRLF)
  BY <1>1, ConcatProperties
<1>8. Holds(W, p, both) /\ Holds(W, p + Len(both), CRLF)
  BY <1>1, <1>6, HoldsConcat
<1>9. /\ AppendBulkString(str) \in Seq(STRING)
       /\ Len(AppendBulkString(str)) = Len(dec) + Len(str) + 5
  <2>1. /\ AppendBulkString(str) \in Seq(STRING)
        /\ Len(AppendBulkString(str)) = Len(both) + Len(CRLF)
    BY <1>6, <1>7, Zenon
  <2> QED BY <1>1, <1>2, <1>3, <1>4, <1>5, <2>1
<1>10. Holds(W, p, line) /\ Holds(W, p + Len(line), str)
  BY <1>4, <1>5, <1>8, HoldsConcat
<1>11. p + Len(both) = p + Len(line) + Len(str)
  BY <1>2, <1>3, <1>4, <1>5
<1>12. Holds(W, p + Len(line) + Len(str), CRLF)
  BY <1>8, <1>11, Zenon
<1> QED BY <1>2, <1>3, <1>4, <1>9, <1>10, <1>12 DEF BulkAt

\* The string that was written is read, unless it is cut.
LEMMA ArgvRead ==
  ASSUME NEW W \in Seq(STRING), NEW L \in 0 .. Len(W), Len(W) <= SizeMax, NEW p \in 0 .. L,
         NEW str \in Seq(STRING), Holds(W, p, AppendBulkString(str)), NEW end,
         end = p + Len(AppendBulkString(str)), NEW parsed, parsed = ParseArgv(Slice(W, p, L))
  PROVE  \/ parsed.value \in Failure /\ end > L
         \/ parsed.value = str /\ end \in p .. L /\ parsed.rest = Slice(W, end, L)
<1>1. p \in Nat /\ L \in Nat /\ Len(W) \in Nat /\ Len(str) \in Nat
  BY SliceProperties, LenProperties
<1>2. PICK line : line = AppendString("$", Decimal[Len(str)])
  OBVIOUS
<1>3. PICK dec \in Nat : dec = Len(Decimal[Len(str)])
  BY <1>1, DecimalProperties
<1>4. /\ Len(AppendBulkString(str)) = dec + Len(str) + 5 /\ Len(line) = dec + 3
      /\ Holds(W, p, line) /\ Holds(W, p + Len(line), str)
      /\ Holds(W, p + Len(line) + Len(str), CRLF)
  <2>1. BulkAt(W, p, str, line)
    BY <1>1, <1>2, BulkForm
  <2> QED BY <1>3, <2>1 DEF BulkAt
<1>5. PICK r \in Nat : r = p + dec + 3 /\ end = r + Len(str) + 2
  BY <1>1, <1>3, <1>4
<1>6. PICK num : num = ParseNum("$", Slice(W, p, L))
  OBVIOUS
<1>7. /\ r \in p .. Len(W)
      /\ \/ num.value \in Failure /\ ~(r <= L /\ Len(str) <= SizeMax)
         \/ num.value = Len(str) /\ r <= L /\ num.rest = Slice(W, r, L)
  <2>1. "$" \in STRING
    BY RespAssumption
  <2>2. r = p + Len(Decimal[Len(str)]) + 3
    BY <1>3, <1>5
  <2>3. PICK n \in Nat : n = Len(str)
    BY <1>1
  <2>4. Holds(W, p, AppendString("$", Decimal[n])) /\ r = p + Len(Decimal[n]) + 3
    BY <1>2, <1>4, <2>2, <2>3, Zenon
  <2>5. /\ r \in p .. Len(W)
        /\ \/ num.value \in Failure /\ ~(r <= L /\ n <= SizeMax)
           \/ num.value = n /\ r <= L /\ num.rest = Slice(W, r, L)
    BY <1>6, <2>1, <2>4, NumRead
  <2> QED BY <2>3, <2>5, Zenon
<1>8. parsed = ArgvAfter(num)
  BY <1>6 DEF ParseArgv
<1>9. CASE num.value \in Failure /\ ~(r <= L /\ Len(str) <= SizeMax)
  <2>1. parsed = num
    BY <1>8, <1>9 DEF ArgvAfter
  <2>2. end > L
    BY <1>1, <1>5, <1>9, RespAssumption
  <2> QED BY <1>9, <2>1, <2>2
<1>10. CASE num.value = Len(str) /\ r <= L /\ num.rest = Slice(W, r, L)
  <2>1. parsed = StringAfter(Len(str), Slice(W, r, L))
    BY <1>1, <1>8, <1>10, Failures DEF ArgvAfter
  <2>2. r \in 0 .. L
    BY <1>5, <1>10
  <2>3. StringAfterIs(W, L, r, Len(str), parsed)
    BY <1>1, <2>1, <2>2, StringAfterSlice
  <2>4. Slice(W, r, r + Len(str)) = str
    <3>1. Holds(W, r, str)
      <4>1. p + Len(line) = r
        BY <1>1, <1>4, <1>5
      <4> QED BY <1>4, <4>1
    <3> QED BY <3>1, HoldsSlice
  <2>5. /\ W[r + Len(str) + 1] = "\r" /\ W[r + Len(str) + 2] = "\n"
        /\ r + Len(str) + 2 <= Len(W)
    <3>1. Holds(W, r + Len(str), CRLF)
      <4>1. p + Len(line) + Len(str) = r + Len(str)
        BY <1>1, <1>4, <1>5
      <4> QED BY <1>4, <4>1
    <3>2. Len(CRLF) = 2 /\ CRLF[1] = "\r" /\ CRLF[2] = "\n" /\ 1 \in 1 .. 2 /\ 2 \in 1 .. 2
      BY DEF CRLF
    <3> QED BY <3>1, <3>2 DEF Holds
  <2>6. CASE parsed.value \in Failure /\ (r + Len(str) + 2 > L \/ Len(str) + 2 > SizeMax)
    <3>1. end > L
      BY <1>1, <1>5, <2>5, <2>6, RespAssumption
    <3> QED BY <2>6, <3>1
  <2>7. CASE /\ parsed.value = Slice(W, r, r + Len(str)) /\ r + Len(str) + 2 \in r .. L
             /\ parsed.rest = Slice(W, r + Len(str) + 2, L)
    <3>1. end \in p .. L
      BY <1>1, <1>5, <1>7, <2>7
    <3> QED BY <1>5, <2>4, <2>7, <3>1
  <2>8. ~(Len(str) + 2 > SizeMax)
    BY <1>1, <1>5, <2>5, RespAssumption
  <2> QED BY <2>3, <2>5, <2>6, <2>7, <2>8 DEF StringAfterIs
<1> QED BY <1>7, <1>9, <1>10

LEMMA BulkType ==
  \A str \in Seq(STRING) : /\ AppendBulkString(str) \in Seq(STRING)
                            /\ Len(AppendBulkString(str)) \in Nat
                            /\ Len(AppendBulkString(str)) >= 1
<1>1. "$" \in STRING /\ CRLF \in Seq(STRING)
  BY RespAssumption DEF CRLF
<1>2. SUFFICES ASSUME NEW str \in Seq(STRING)
               PROVE  /\ AppendBulkString(str) \in Seq(STRING)
                      /\ Len(AppendBulkString(str)) \in Nat
                      /\ Len(AppendBulkString(str)) >= 1
  OBVIOUS
<1>3. PICK dec \in Seq(STRING) : dec = Decimal[Len(str)]
  BY LenProperties, DecimalProperties
<1>4. PICK mark \in Seq(STRING) : mark = <<"$">>
  BY <1>1, SingleProperties
<1>5. mark \o dec \o CRLF \o str \o CRLF \in Seq(STRING)
  BY <1>1, ConcatProperties
<1>6. PICK bulk \in Seq(STRING) : bulk = AppendBulkString(str)
  BY <1>3, <1>4, <1>5 DEF AppendBulkString
<1>7. Len(bulk) \in Nat /\ Holds(bulk, 0, bulk)
  BY LenProperties DEF Holds
<1>8. PICK line : line = AppendString("$", Decimal[Len(str)])
  OBVIOUS
<1>9. BulkAt(bulk, 0, str, line)
  BY <1>6, <1>7, <1>8, BulkForm
<1>10. Len(bulk) = Len(Decimal[Len(str)]) + Len(str) + 5 /\ Len(str) \in Nat
  BY <1>6, <1>9 DEF BulkAt
<1>11. Len(Decimal[Len(str)]) \in Nat
  BY <1>10, DecimalProperties
<1> QED BY <1>6, <1>7, <1>10, <1>11

------------------------------------------------------------------------------
(* Lists.                                                                  *)

\* P tells where each part of a list ends.
FlatAt(seqs, flat, P) ==
  /\ P \in [0 .. Len(seqs) -> Nat] /\ P[0] = 0 /\ P[Len(seqs)] = Len(flat)
  /\ \A i \in 1 .. Len(seqs) : P[i] = P[i - 1] + Len(seqs[i]) /\ Holds(flat, P[i - 1], seqs[i])

\* flat[i] are the first i parts.
Flattens(flat, seqs) ==
  flat = [i \in 1 .. Len(seqs) |-> IF i = 1 THEN seqs[i] ELSE flat[i - 1] \o seqs[i]]

LEMMA FlattenExists ==
  ASSUME NEW S, NEW seqs \in Seq(Seq(S)), seqs # << >>
  PROVE  \E flat \in [1 .. Len(seqs) -> Seq(S)] :
           /\ FlattenSeq(seqs) = flat[Len(seqs)] /\ flat[1] = seqs[1]
           /\ \A i \in 2 .. Len(seqs) : flat[i] = flat[i - 1] \o seqs[i]
<1>1. PICK n \in Nat : n = Len(seqs) /\ n >= 1
  BY LenProperties, EmptySeq
<1>2. \A i \in 1 .. n : seqs[i] \in Seq(S)
  BY <1>1, ElementOfSeq
<1>3. \E flat : Flattens(flat, seqs)
  <2>1. PICK step : step = [p \in Seq(S) \X (1 .. n) |-> p[1] \o seqs[p[2]]]
    OBVIOUS
  <2>2. step \in [Seq(S) \X (1 .. n) -> Seq(S)]
    <3>1. \A p \in Seq(S) \X (1 .. n) : p[1] \o seqs[p[2]] \in Seq(S)
      BY <1>2, ConcatProperties
    <3> QED BY <2>1, <3>1
  <2>3. << >> \in Seq(S)
    BY EmptySeq
  <2>4. PICK f : Loops!IsLoop(f, Seq(S), n, << >>, step)
    BY <2>2, <2>3, LoopsAssumption, Loops!LoopExists
  <2>5. ASSUME NEW i \in 1 .. n
        PROVE  f[i] \in Seq(S) /\ f[i - 1] \in Seq(S) /\ f[i] = f[i - 1] \o seqs[i]
    <3>1. f[i] \in Seq(S) /\ f[i - 1] \in Seq(S)
      BY <2>4 DEF Loops!IsLoop
    <3> QED BY <2>1, <2>4, <3>1 DEF Loops!IsLoop
  <2>6. f[1] = seqs[1]
    <3>1. 1 \in 1 .. n /\ f[1 - 1] = << >>
      BY <1>1, <2>4 DEF Loops!IsLoop
    <3>2. f[1] = << >> \o seqs[1] /\ seqs[1] \in Seq(S)
      BY <1>2, <2>5, <3>1
    <3> QED BY <3>2, ConcatEmptySeq
  <2>7. PICK flat : flat = [i \in 1 .. n |-> f[i]]
    OBVIOUS
  <2>8. \A i \in 1 .. n : f[i] = IF i = 1 THEN seqs[i] ELSE flat[i - 1] \o seqs[i]
    <3>1. \A i \in 1 .. n : i = 1 \/ i - 1 \in 1 .. n
      OBVIOUS
    <3>2. \A i \in 1 .. n : i = 1 \/ flat[i - 1] = f[i - 1]
      BY <2>7, <3>1
    <3>3. \A i \in 1 .. n : f[i] = f[i - 1] \o seqs[i]
      BY <2>5
    <3> QED BY <2>6, <3>2, <3>3
  <2>9. flat = [i \in 1 .. n |-> IF i = 1 THEN seqs[i] ELSE flat[i - 1] \o seqs[i]]
    BY <2>7, <2>8
  <2> QED BY <1>1, <2>9 DEF Flattens
<1>4. PICK flat : Flattens(flat, seqs) /\ FlattenSeq(seqs) = flat[n]
  <2>1. PICK flat : flat = (CHOOSE f : Flattens(f, seqs)) /\ FlattenSeq(seqs) = flat[Len(seqs)]
    <3>1. Len(seqs) # 0
      BY <1>1
    <3> QED BY <3>1, Zenon DEF FlattenSeq, Flattens
  <2> QED BY <1>1, <1>3, <2>1
<1>5. flat = [i \in 1 .. n |-> IF i = 1 THEN seqs[i] ELSE flat[i - 1] \o seqs[i]]
  BY <1>1, <1>4 DEF Flattens
<1>6. flat[1] = seqs[1] /\ \A i \in 2 .. n : flat[i] = flat[i - 1] \o seqs[i]
  <2>1. 1 \in 1 .. n /\ \A i \in 2 .. n : i \in 1 .. n /\ i # 1
    BY <1>1
  <2> QED BY <1>5, <2>1
<1> DEFINE T == {m \in Nat : m + 1 <= n => flat[m + 1] \in Seq(S)}
<1>7. 0 \in T /\ T \in SUBSET Nat
  BY <1>1, <1>2, <1>6
<1>8. ASSUME NEW m \in T PROVE m + 1 \in T
  <2>1. SUFFICES ASSUME (m + 1) + 1 <= n PROVE flat[(m + 1) + 1] \in Seq(S)
    OBVIOUS
  <2>2. /\ flat[m + 1] \in Seq(S) /\ (m + 1) + 1 \in 2 .. n /\ (m + 1) + 1 \in 1 .. n
        /\ ((m + 1) + 1) - 1 = m + 1
    BY <2>1
  <2>3. flat[(m + 1) + 1] = flat[m + 1] \o seqs[(m + 1) + 1] /\ seqs[(m + 1) + 1] \in Seq(S)
    BY <1>2, <1>6, <2>2
  <2> QED BY <2>2, <2>3, ConcatProperties
<1> HIDE DEF T
<1>9. T = Nat
  BY <1>7, <1>8, LoopsAssumption, Loops!NatSetInduction
<1>10. \A i \in 1 .. n : flat[i] \in Seq(S)
  <2>1. \A i \in 1 .. n : i - 1 \in T /\ (i - 1) + 1 = i /\ i <= n
    BY <1>9
  <2> QED BY <2>1 DEF T
<1>11. flat \in [1 .. n -> Seq(S)]
  <2>1. flat = [i \in 1 .. n |-> flat[i]]
    BY <1>5, Zenon
  <2> QED BY <1>10, <2>1
<1> QED BY <1>1, <1>4, <1>6, <1>11

\* The parts of a list follow each other.
LEMMA FlattenForm ==
  ASSUME NEW S, NEW seqs \in Seq(Seq(S))
  PROVE  /\ FlattenSeq(seqs) \in Seq(S)
         /\ \E P : FlatAt(seqs, FlattenSeq(seqs), P)
<1>1. PICK n \in Nat : n = Len(seqs)
  BY LenProperties
<1>2. CASE seqs = << >>
  <2>1. FlattenSeq(seqs) = << >> /\ n = 0 /\ Len(<< >>) = 0
    BY <1>1, <1>2 DEF FlattenSeq
  <2>2. PICK P : P = [i \in 0 .. 0 |-> 0]
    OBVIOUS
  <2>3. P \in [0 .. n -> Nat] /\ P[0] = 0 /\ P[n] = 0 /\ ~\E i \in 1 .. n : TRUE
    BY <2>1, <2>2
  <2>4. FlatAt(seqs, FlattenSeq(seqs), P)
    BY <1>1, <2>1, <2>3 DEF FlatAt
  <2> QED BY <2>1, <2>4, EmptySeq
<1>3. CASE seqs # << >>
  <2>1. PICK flat \in [1 .. n -> Seq(S)] :
          /\ FlattenSeq(seqs) = flat[n] /\ flat[1] = seqs[1]
          /\ \A i \in 2 .. n : flat[i] = flat[i - 1] \o seqs[i]
    BY <1>1, <1>3, FlattenExists
  <2>2. n >= 1 /\ \A i \in 1 .. n : seqs[i] \in Seq(S) /\ Len(seqs[i]) \in Nat /\ Len(flat[i]) \in Nat
    BY <1>1, <1>3, ElementOfSeq, EmptySeq, LenProperties
  <2>3. PICK P : P = [i \in 0 .. n |-> IF i = 0 THEN 0 ELSE Len(flat[i])]
    OBVIOUS
  <2>4. P \in [0 .. n -> Nat] /\ P[0] = 0 /\ \A i \in 1 .. n : P[i] = Len(flat[i])
    BY <2>2, <2>3
  <2>5. \A i \in 1 .. n : P[i] = P[i - 1] + Len(seqs[i])
    <3>1. SUFFICES ASSUME NEW i \in 1 .. n PROVE P[i] = P[i - 1] + Len(seqs[i])
      OBVIOUS
    <3>2. CASE i = 1
      BY <2>1, <2>2, <2>4, <3>2
    <3>3. CASE i # 1
      <4>1. i \in 2 .. n /\ i - 1 \in 1 .. n
        BY <3>3
      <4>2. flat[i] = flat[i - 1] \o seqs[i] /\ flat[i - 1] \in Seq(S) /\ seqs[i] \in Seq(S)
        BY <2>1, <2>2, <4>1
      <4>3. Len(flat[i]) = Len(flat[i - 1]) + Len(seqs[i])
        BY <4>2, ConcatProperties
      <4> QED BY <2>4, <4>1, <4>3
    <3> QED BY <3>2, <3>3
  <2> DEFINE T == {m \in Nat : m + 1 <= n =>
                                 \A i \in 1 .. m + 1 : Holds(flat[m + 1], P[i - 1], seqs[i])}
  <2>6. \A i \in 1 .. n : Holds(flat[i], 0, flat[i])
    BY <2>2 DEF Holds
  <2>7. 0 \in T /\ T \in SUBSET Nat
    <3>1. /\ 0 \in Nat /\ 1 \in 1 .. n /\ 0 + 1 = 1 /\ 1 - 1 = 0
          /\ \A i \in 1 .. 0 + 1 : i = 1
      BY <2>2
    <3>2. Holds(flat[1], P[0], seqs[1])
      BY <2>1, <2>4, <2>6, <3>1
    <3>3. \A i \in 1 .. 0 + 1 : Holds(flat[0 + 1], P[i - 1], seqs[i])
      BY <3>1, <3>2
    <3> QED BY <3>1, <3>3
  <2>8. ASSUME NEW m \in T PROVE m + 1 \in T
    <3>1. SUFFICES ASSUME (m + 1) + 1 <= n
                   PROVE  \A i \in 1 .. (m + 1) + 1 : Holds(flat[(m + 1) + 1], P[i - 1], seqs[i])
      OBVIOUS
    <3>2. PICK j, k : j = m + 1 /\ k = (m + 1) + 1
      OBVIOUS
    <3>3. /\ j \in 1 .. n /\ k \in 2 .. n /\ k \in 1 .. n /\ k - 1 = j
          /\ \A i \in 1 .. k : i = k \/ i \in 1 .. j
      BY <3>1, <3>2
    <3>4. \A i \in 1 .. j : Holds(flat[j], P[i - 1], seqs[i])
      BY <3>1, <3>2, <3>3
    <3>5. flat[k] = flat[j] \o seqs[k] /\ flat[j] \in Seq(S) /\ flat[k] \in Seq(S) /\ seqs[k] \in Seq(S)
      BY <2>1, <2>2, <3>3
    <3>6. Holds(flat[k], 0, flat[j]) /\ Holds(flat[k], 0 + Len(flat[j]), seqs[k])
      <4>1. Holds(flat[k], 0, flat[j] \o seqs[k])
        BY <2>6, <3>3, <3>5
      <4> QED BY <3>5, <4>1, HoldsConcat
    <3>7. 0 + Len(flat[j]) = P[k - 1]
      BY <2>2, <2>4, <3>3
    <3>8. ASSUME NEW i \in 1 .. j PROVE Holds(flat[k], P[i - 1], seqs[i])
      <4>1. i \in 1 .. n /\ i - 1 \in 0 .. n /\ Holds(flat[j], P[i - 1], seqs[i])
        BY <3>3, <3>4
      <4>2. P[i - 1] \in Nat /\ seqs[i] \in Seq(S) /\ 0 + P[i - 1] = P[i - 1]
        BY <2>2, <2>4, <4>1
      <4>3. Holds(flat[k], 0 + P[i - 1], seqs[i])
        BY <3>5, <3>6, <4>1, <4>2, HoldsWithin
      <4> QED BY <4>2, <4>3
    <3> QED BY <3>2, <3>3, <3>6, <3>7, <3>8
  <2> HIDE DEF T
  <2>9. T = Nat
    BY <2>7, <2>8, LoopsAssumption, Loops!NatSetInduction
  <2>10. \A i \in 1 .. n : Holds(flat[n], P[i - 1], seqs[i])
    <3>1. n - 1 \in T /\ (n - 1) + 1 = n
      BY <2>2, <2>9
    <3> QED BY <3>1 DEF T
  <2>11. P[n] = Len(flat[n]) /\ flat[n] \in Seq(S)
    BY <2>2, <2>4
  <2>12. FlatAt(seqs, FlattenSeq(seqs), P)
    BY <1>1, <2>1, <2>4, <2>5, <2>10, <2>11 DEF FlatAt
  <2> QED BY <2>1, <2>11, <2>12
<1> QED BY <1>2, <1>3

------------------------------------------------------------------------------
(* The arguments of a request.                                             *)

Found == [args : Seq(Text), rest : Seq(STRING), stop : {"none"} \cup Failure]

\* What is found when one more argument is looked for.
LEMMA WithArgvIs ==
  ASSUME NEW before \in Found, NEW argv, NEW found, found = WithArgv(before, argv)
  PROVE  /\ argv.value \in Failure =>
              found.args = before.args /\ found.rest = argv.rest /\ found.stop = argv.value
         /\ argv.value \notin Failure =>
              /\ found.args = Append(before.args, argv.value) /\ found.rest = argv.rest
              /\ found.stop = before.stop
         /\ argv.value \in Failure \cup Text /\ argv.rest \in Seq(STRING) => found \in Found
<1>1. before.args \in Seq(Text) /\ before.stop \in {"none"} \cup Failure
  BY DEF Found
<1>2. CASE argv.value \in Failure
  <2>1. found = [before EXCEPT !.rest = argv.rest, !.stop = argv.value]
    BY <1>2 DEF WithArgv
  <2>2. found = [args |-> before.args, rest |-> argv.rest, stop |-> argv.value]
    BY <2>1 DEF Found
  <2> QED BY <1>1, <1>2, <2>2 DEF Found
<1>3. CASE argv.value \notin Failure
  <2>1. found = [before EXCEPT !.rest = argv.rest, !.args = Append(@, argv.value)]
    BY <1>3 DEF WithArgv
  <2>2. found = [args |-> Append(before.args, argv.value), rest |-> argv.rest, stop |-> before.stop]
    BY <2>1 DEF Found
  <2>3. argv.value \in Text => Append(before.args, argv.value) \in Seq(Text)
    BY <1>1, AppendProperties
  <2> QED BY <1>1, <1>3, <2>2, <2>3 DEF Found
<1> QED BY <1>2, <1>3

LEMMA OneMoreType ==
  ASSUME NEW before \in Found
  PROVE  OneMore(before) \in Found
<1>1. CASE before.stop # "none"
  BY <1>1 DEF OneMore
<1>2. CASE before.stop = "none"
  <2>1. PICK argv : argv = ParseArgv(before.rest)
    OBVIOUS
  <2>2. PICK W \in Seq(STRING) : W = before.rest
    BY DEF Found
  <2>3. PICK L : L = Len(W) /\ L \in Nat
    BY LenProperties
  <2>4. W = Slice(W, 0, L)
    BY <2>3, WholeSlice
  <2>5. L \in 0 .. Len(W) /\ 0 \in 0 .. L
    BY <2>3
  <2>6. PartParsed(W, L, 0, argv, Text)
    BY <2>1, <2>2, <2>4, <2>5, ArgvParsed
  <2>7. PICK q \in 0 .. L : argv.rest = Slice(W, q, L) /\ argv.value \in Failure \cup Text
    BY <2>6 DEF PartParsed
  <2>8. argv.rest \in Seq(STRING)
    BY <2>5, <2>7, SliceProperties
  <2>9. OneMore(before) = WithArgv(before, argv)
    BY <1>2, <2>1 DEF OneMore
  <2> QED BY <2>7, <2>8, <2>9, WithArgvIs
<1> QED BY <1>1, <1>2

\* upto[i] is what has been found after i tries.
Tries(upto, buf, n) ==
  upto = [i \in 0 .. n |->
            IF i = 0 THEN [args |-> << >>, rest |-> buf, stop |-> "none"] ELSE OneMore(upto[i - 1])]

LEMMA TriesExist ==
  ASSUME NEW buf \in Seq(STRING), NEW n \in Nat
  PROVE  \E upto : /\ ParseArgvs(buf, n) = upto[n]
                   /\ upto[0] \in Found
                   /\ upto[0].args = << >> /\ upto[0].rest = buf /\ upto[0].stop = "none"
                   /\ \A i \in 1 .. n : upto[i] = OneMore(upto[i - 1])
<1>1. PICK base : base = [args |-> << >>, rest |-> buf, stop |-> "none"]
  OBVIOUS
<1>2. base \in Found /\ base.args = << >> /\ base.rest = buf /\ base.stop = "none"
  <2>1. << >> \in Seq(Text)
    BY EmptySeq
  <2> QED BY <1>1, <2>1 DEF Found
<1>3. \E upto : Tries(upto, buf, n)
  <2>1. PICK step : step = [p \in Found \X (1 .. n) |-> OneMore(p[1])]
    OBVIOUS
  <2>2. step \in [Found \X (1 .. n) -> Found]
    BY <2>1, OneMoreType
  <2>3. PICK f : Loops!IsLoop(f, Found, n, base, step)
    BY <1>2, <2>2, LoopsAssumption, Loops!LoopExists
  <2>4. ASSUME NEW i \in 1 .. n PROVE f[i] = OneMore(f[i - 1])
    <3>1. f[i - 1] \in Found
      BY <2>3 DEF Loops!IsLoop
    <3> QED BY <2>1, <2>3, <3>1 DEF Loops!IsLoop
  <2>5. \A i \in 0 .. n : i = 0 \/ i \in 1 .. n
    OBVIOUS
  <2>6. f = [i \in 0 .. n |-> IF i = 0 THEN base ELSE OneMore(f[i - 1])]
    BY <2>3, <2>4, <2>5 DEF Loops!IsLoop
  <2> QED BY <1>1, <2>6 DEF Tries
<1>4. PICK upto : Tries(upto, buf, n) /\ ParseArgvs(buf, n) = upto[n]
  <2>1. PICK upto : upto = (CHOOSE f : Tries(f, buf, n)) /\ ParseArgvs(buf, n) = upto[n]
    BY DEF ParseArgvs, Tries
  <2> QED BY <1>3, <2>1
<1>5. upto = [i \in 0 .. n |-> IF i = 0 THEN base ELSE OneMore(upto[i - 1])]
  BY <1>1, <1>4 DEF Tries
<1>6. upto[0] = base /\ \A i \in 1 .. n : upto[i] = OneMore(upto[i - 1])
  <2>1. 0 \in 0 .. n /\ \A i \in 1 .. n : i \in 0 .. n /\ i # 0
    OBVIOUS
  <2> QED BY <1>5, <2>1
<1> QED BY <1>2, <1>4, <1>6

\* The loop goes on, and does not go beyond the end.
LEMMA ArgvsParsed ==
  ASSUME NEW W \in Seq(STRING), NEW L \in 0 .. Len(W), NEW p \in 0 .. L, NEW n \in Nat,
         NEW found, found = ParseArgvs(Slice(W, p, L), n)
  PROVE  found \in Found /\ Onward(W, p, L, found.rest)
<1>1. p \in Nat /\ L \in Nat /\ Len(W) \in Nat
  BY SliceProperties
<1>2. PICK buf \in Seq(STRING) : buf = Slice(W, p, L)
  BY SliceProperties
<1>3. PICK upto : /\ ParseArgvs(buf, n) = upto[n]
                  /\ upto[0] \in Found /\ upto[0].rest = buf
                  /\ \A i \in 1 .. n : upto[i] = OneMore(upto[i - 1])
  BY TriesExist
<1> DEFINE T == {m \in Nat : m <= n => upto[m] \in Found /\ Onward(W, p, L, upto[m].rest)}
<1>4. 0 \in T /\ T \in SUBSET Nat
  <2>1. p \in p .. L
    BY <1>1
  <2>2. Onward(W, p, L, buf)
    BY <1>2, <2>1 DEF Onward
  <2> QED BY <1>3, <2>2
<1>5. ASSUME NEW m \in T PROVE m + 1 \in T
  <2>1. SUFFICES ASSUME m + 1 <= n
                 PROVE  upto[m + 1] \in Found /\ Onward(W, p, L, upto[m + 1].rest)
    OBVIOUS
  <2>2. PICK before, after : before = upto[m] /\ after = upto[m + 1]
    OBVIOUS
  <2>3. before \in Found /\ Onward(W, p, L, before.rest) /\ after = OneMore(before)
    <3>1. m <= n /\ m + 1 \in 1 .. n /\ (m + 1) - 1 = m
      BY <2>1
    <3> QED BY <1>3, <2>2, <3>1
  <2>4. after \in Found
    BY <2>3, OneMoreType
  <2>5. Onward(W, p, L, after.rest)
    <3>1. CASE before.stop # "none"
      BY <2>3, <3>1 DEF OneMore
    <3>2. CASE before.stop = "none"
      <4>1. PICK q \in p .. L : before.rest = Slice(W, q, L)
        BY <2>3 DEF Onward
      <4>2. PICK argv : argv = ParseArgv(Slice(W, q, L))
        OBVIOUS
      <4>3. after = WithArgv(before, argv)
        BY <2>3, <3>2, <4>1, <4>2 DEF OneMore
      <4>4. after.rest = argv.rest
        BY <2>3, <4>3, WithArgvIs
      <4>5. q \in 0 .. L
        BY <1>1
      <4>6. PartParsed(W, L, q, argv, Text)
        BY <4>2, <4>5, ArgvParsed
      <4>7. Onward(W, q, L, after.rest)
        BY <4>4, <4>6 DEF PartParsed, Onward
      <4> QED BY <1>1, <4>7, OnwardTrans
    <3> QED BY <3>1, <3>2
  <2> QED BY <2>2, <2>4, <2>5
<1> HIDE DEF T
<1>6. T = Nat
  BY <1>4, <1>5, LoopsAssumption, Loops!NatSetInduction
<1>7. n \in T
  BY <1>6
<1> QED BY <1>2, <1>3, <1>7 DEF T

\* Arguments that follow each other: Q tells where each ends.
ArgsAt(W, args, Q) ==
  /\ Q \in [0 .. Len(args) -> Nat]
  /\ \A i \in 1 .. Len(args) : /\ Q[i] = Q[i - 1] + Len(AppendBulkString(args[i]))
                               /\ Holds(W, Q[i - 1], AppendBulkString(args[i]))

\* Each argument takes a byte at least.
LEMMA ArgsGrow ==
  ASSUME NEW W, NEW args \in Seq(Seq(STRING)), NEW Q, ArgsAt(W, args, Q), NEW i \in 0 .. Len(args)
  PROVE  Q[i] + (Len(args) - i) <= Q[Len(args)]
<1>1. PICK k \in Nat : k = Len(args)
  BY LenProperties
<1>2. \A j \in 1 .. k : Q[j] \in Nat /\ Q[j - 1] \in Nat /\ Q[j - 1] + 1 <= Q[j]
  <2>1. SUFFICES ASSUME NEW j \in 1 .. k PROVE Q[j] \in Nat /\ Q[j - 1] \in Nat /\ Q[j - 1] + 1 <= Q[j]
    OBVIOUS
  <2>2. j \in 0 .. k /\ j - 1 \in 0 .. k
    BY <1>1
  <2>3. Q[j] \in Nat /\ Q[j - 1] \in Nat /\ Q[j] = Q[j - 1] + Len(AppendBulkString(args[j]))
    BY <1>1, <2>2 DEF ArgsAt
  <2>4. Len(AppendBulkString(args[j])) \in Nat /\ Len(AppendBulkString(args[j])) >= 1
    BY <1>1, ElementOfSeq, BulkType
  <2> QED BY <2>3, <2>4
<1> DEFINE T == {m \in Nat : m <= k => Q[k - m] + m <= Q[k]}
<1>3. 0 \in T /\ T \in SUBSET Nat
  <2>1. k \in 0 .. k /\ Q[k] \in Nat /\ k - 0 = k
    BY <1>1 DEF ArgsAt
  <2> QED BY <2>1
<1>4. ASSUME NEW m \in T PROVE m + 1 \in T
  <2>1. SUFFICES ASSUME m + 1 <= k PROVE Q[k - (m + 1)] + (m + 1) <= Q[k]
    OBVIOUS
  <2>2. k - m \in 1 .. k /\ (k - m) - 1 = k - (m + 1) /\ m <= k /\ k \in 1 .. k
    BY <2>1
  <2>3. Q[k - (m + 1)] + 1 <= Q[k - m] /\ Q[k - m] + m <= Q[k]
    BY <1>2, <2>2
  <2>4. Q[k - (m + 1)] \in Nat /\ Q[k - m] \in Nat /\ Q[k] \in Nat
    BY <1>2, <2>2
  <2> QED BY <2>3, <2>4
<1> HIDE DEF T
<1>5. T = Nat
  BY <1>3, <1>4, LoopsAssumption, Loops!NatSetInduction
<1>6. k - i \in T /\ k - i <= k /\ k - (k - i) = i
  BY <1>1, <1>5
<1> QED BY <1>1, <1>6 DEF T

\* Up to the i-th argument: all of them have been read, or one of them was cut.
ReadsUpTo(W, L, args, Q, i, found) ==
  /\ found \in Found
  /\ \/ /\ found.stop = "none" /\ Q[i] \in 0 .. L /\ found.rest = Slice(W, Q[i], L)
        /\ Len(found.args) = i /\ \A j \in 1 .. i : found.args[j] = args[j]
     \/ found.stop \in Failure /\ Len(found.args) < i /\ Q[Len(args)] > L

LEMMA ArgvsUpTo ==
  ASSUME NEW W \in Seq(STRING), NEW L \in 0 .. Len(W), Len(W) <= SizeMax,
         NEW args \in Seq(Seq(STRING)), NEW Q, ArgsAt(W, args, Q), NEW i \in 1 .. Len(args),
         NEW before, ReadsUpTo(W, L, args, Q, i - 1, before), NEW after, after = OneMore(before)
  PROVE  ReadsUpTo(W, L, args, Q, i, after)
<1>1. PICK k \in Nat : k = Len(args) /\ i \in 1 .. k /\ i \in 0 .. k /\ i - 1 \in 0 .. k
  BY LenProperties
<1>2. PICK m \in Nat : m = i - 1 /\ i = m + 1
  BY <1>1
<1>3. /\ Len(W) \in Nat /\ L \in Nat /\ before \in Found /\ after \in Found
      /\ before.args \in Seq(Text) /\ Len(before.args) \in Nat
  <2>1. before \in Found
    BY DEF ReadsUpTo
  <2>2. before.args \in Seq(Text)
    BY <2>1 DEF Found
  <2> QED BY <2>1, <2>2, OneMoreType, LenProperties
<1>4. CASE before.stop \in Failure /\ Len(before.args) < m /\ Q[k] > L
  <2>1. after = before
    BY <1>4, Failures DEF OneMore
  <2>2. Len(after.args) < i
    BY <1>2, <1>3, <1>4, <2>1
  <2> QED BY <1>1, <1>3, <1>4, <2>1, <2>2 DEF ReadsUpTo
<1>5. CASE /\ before.stop = "none" /\ Q[m] \in 0 .. L /\ before.rest = Slice(W, Q[m], L)
           /\ Len(before.args) = m /\ \A j \in 1 .. m : before.args[j] = args[j]
  <2>1. PICK q \in 0 .. L : q = Q[m]
    BY <1>5
  <2>2. PICK str \in Seq(STRING) : str = args[i] /\ str \in Text
    BY <1>1, ElementOfSeq, WrittenTypes
  <2>3. PICK end : end = Q[i] /\ end = q + Len(AppendBulkString(str))
    BY <1>1, <1>2, <2>1, <2>2 DEF ArgsAt
  <2>4. Holds(W, q, AppendBulkString(str))
    BY <1>1, <1>2, <2>1, <2>2 DEF ArgsAt
  <2>5. PICK argv : argv = ParseArgv(Slice(W, q, L))
    OBVIOUS
  <2>6. after = WithArgv(before, argv)
    BY <1>5, <2>1, <2>5 DEF OneMore
  <2>7. \/ argv.value \in Failure /\ end > L
        \/ argv.value = str /\ end \in q .. L /\ argv.rest = Slice(W, end, L)
    BY <2>3, <2>4, <2>5, ArgvRead
  <2>8. CASE argv.value \in Failure /\ end > L
    <3>1. after.args = before.args /\ after.stop = argv.value
      BY <1>3, <2>6, <2>8, WithArgvIs
    <3>2. Q[i] <= Q[k] /\ Q[i] \in Nat /\ Q[k] \in Nat
      <4>1. Q[i] + (k - i) <= Q[k]
        BY <1>1, ArgsGrow
      <4>2. k \in 0 .. Len(args) /\ i \in 0 .. Len(args)
        BY <1>1
      <4>3. Q[i] \in Nat /\ Q[k] \in Nat
        BY <4>2 DEF ArgsAt
      <4>4. k - i \in Nat
        BY <1>1
      <4> QED BY <4>1, <4>3, <4>4
    <3>3. Q[k] > L /\ Len(after.args) < i
      BY <1>2, <1>3, <1>5, <2>3, <2>8, <3>1, <3>2
    <3> QED BY <1>1, <1>3, <2>8, <3>1, <3>3 DEF ReadsUpTo
  <2>9. CASE argv.value = str /\ end \in q .. L /\ argv.rest = Slice(W, end, L)
    <3>1. argv.value \notin Failure
      BY <2>2, <2>9, Failures
    <3>2. after.args = Append(before.args, str) /\ after.rest = argv.rest /\ after.stop = "none"
      <4>1. /\ after.args = Append(before.args, argv.value) /\ after.rest = argv.rest
            /\ after.stop = before.stop
        <5>1. before \in Found
          BY <1>3
        <5> QED BY <2>6, <3>1, <5>1, WithArgvIs
      <4>2. before.stop = "none" /\ argv.value = str
        BY <1>5, <2>9, Zenon
      <4> QED BY <4>1, <4>2, Zenon
    <3>3. /\ Len(after.args) = m + 1 /\ after.args[m + 1] = str
          /\ \A j \in 1 .. m : after.args[j] = before.args[j]
      <4>1. PICK had \in Seq(Text) : had = before.args /\ Len(had) = m
        BY <1>3, <1>5
      <4>2. /\ Len(Append(had, str)) = m + 1 /\ Append(had, str)[m + 1] = str
            /\ \A j \in 1 .. m : Append(had, str)[j] = had[j]
        <5>1. /\ Len(Append(had, str)) = Len(had) + 1
              /\ Append(had, str)[Len(had) + 1] = str
              /\ \A j \in 1 .. Len(had) : Append(had, str)[j] = had[j]
          BY <2>2, AppendProperties
        <5> QED BY <4>1, <5>1, Zenon
      <4> QED BY <3>2, <4>1, <4>2, Zenon
    <3>4. \A j \in 1 .. i : after.args[j] = args[j]
      <4>1. \A j \in 1 .. i : j = m + 1 \/ j \in 1 .. m
        BY <1>2
      <4> QED BY <1>2, <1>5, <2>2, <3>3, <4>1
    <3>5. Q[i] \in 0 .. L
      BY <1>3, <2>3, <2>9
    <3> QED BY <1>2, <1>3, <2>3, <2>9, <3>2, <3>3, <3>4, <3>5 DEF ReadsUpTo
  <2> QED BY <2>7, <2>8, <2>9
<1> QED BY <1>1, <1>2, <1>4, <1>5 DEF ReadsUpTo

\* The arguments that were written are read, unless they are cut, and the one
\* more that is looked for is not there.
ArgvsIs(W, L, args, end, found) ==
  /\ found \in Found
  /\ \/ found.stop \in Failure /\ Len(found.args) < Len(args) /\ end > L
     \/ /\ end \in 0 .. L /\ found.args = args
        /\ end = L => found.stop = Incomplete /\ found.rest = Slice(W, L, L)
        /\ end < L => found.stop = Thrown

LEMMA ArgvsRead ==
  ASSUME NEW W \in Seq(STRING), NEW L \in 0 .. Len(W), Len(W) <= SizeMax,
         NEW args \in Seq(Seq(STRING)), NEW Q, ArgsAt(W, args, Q), Q[0] \in 0 .. L,
         NEW end, end = Q[Len(args)], end < L => W[end + 1] # "$",
         NEW found, found = ParseArgvs(Slice(W, Q[0], L), Len(args) + 1)
  PROVE  ArgvsIs(W, L, args, end, found)
<1>1. PICK k \in Nat : k = Len(args) /\ k + 1 \in Nat
  BY LenProperties
<1>2. PICK buf \in Seq(STRING) : buf = Slice(W, Q[0], L)
  BY SliceProperties
<1>3. PICK upto : /\ ParseArgvs(buf, k + 1) = upto[k + 1]
                  /\ upto[0] \in Found
                  /\ upto[0].args = << >> /\ upto[0].rest = buf /\ upto[0].stop = "none"
                  /\ \A i \in 1 .. k + 1 : upto[i] = OneMore(upto[i - 1])
  BY <1>1, TriesExist
<1> DEFINE T == {m \in Nat : m <= k => ReadsUpTo(W, L, args, Q, m, upto[m])}
<1>4. 0 \in T /\ T \in SUBSET Nat
  <2>1. Len(<< >>) = 0 /\ \A j \in 1 .. 0 : FALSE
    OBVIOUS
  <2>2. ReadsUpTo(W, L, args, Q, 0, upto[0])
    BY <1>2, <1>3, <2>1 DEF ReadsUpTo
  <2> QED BY <2>2
<1>5. ASSUME NEW m \in T PROVE m + 1 \in T
  <2>1. SUFFICES ASSUME m + 1 <= k PROVE ReadsUpTo(W, L, args, Q, m + 1, upto[m + 1])
    OBVIOUS
  <2>2. PICK i \in 1 .. Len(args) : i = m + 1 /\ i - 1 = m /\ i \in 1 .. k + 1
    BY <1>1, <2>1
  <2>3. ReadsUpTo(W, L, args, Q, i - 1, upto[m]) /\ upto[i] = OneMore(upto[m])
    BY <1>3, <2>1, <2>2
  <2>4. ReadsUpTo(W, L, args, Q, i, upto[i])
    BY <2>3, ArgvsUpTo
  <2> QED BY <2>2, <2>4
<1> HIDE DEF T
<1>6. T = Nat
  BY <1>4, <1>5, LoopsAssumption, Loops!NatSetInduction
<1>7. ReadsUpTo(W, L, args, Q, k, upto[k])
  <2>1. k \in T /\ k <= k
    BY <1>6
  <2> QED BY <2>1 DEF T
<1>8. PICK before : before = upto[k] /\ found = OneMore(before) /\ before \in Found
  <2>1. k + 1 \in 1 .. k + 1 /\ (k + 1) - 1 = k
    OBVIOUS
  <2>2. upto[k + 1] = OneMore(upto[k])
    BY <1>3, <2>1
  <2>3. found = upto[k + 1]
    BY <1>1, <1>2, <1>3
  <2> QED BY <1>7, <2>2, <2>3 DEF ReadsUpTo
<1>9. found \in Found
  BY <1>8, OneMoreType
<1>10. CASE before.stop \in Failure /\ Len(before.args) < k /\ Q[k] > L
  <2>1. found = before
    BY <1>8, <1>10, Failures DEF OneMore
  <2> QED BY <1>1, <1>9, <1>10, <2>1 DEF ArgvsIs
<1>11. CASE /\ before.stop = "none" /\ Q[k] \in 0 .. L /\ before.rest = Slice(W, Q[k], L)
            /\ Len(before.args) = k /\ \A j \in 1 .. k : before.args[j] = args[j]
  <2>1. PICK e \in 0 .. L : e = end /\ before.rest = Slice(W, e, L)
    BY <1>1, <1>11
  <2>2. PICK argv : argv = ParseArgv(Slice(W, e, L))
    OBVIOUS
  <2>3. found = WithArgv(before, argv)
    BY <1>8, <1>11, <2>1, <2>2 DEF OneMore
  <2>4. /\ e = L => argv.value = Incomplete /\ argv.rest = Slice(W, e, L)
        /\ e < L => argv.value = Thrown
    BY <2>1, <2>2, ArgvMissing
  <2>5. argv.value \in Failure
    <3>1. e = L \/ e < L
      BY SliceProperties
    <3> QED BY <2>4, <3>1, Failures
  <2>6. found.args = before.args /\ found.rest = argv.rest /\ found.stop = argv.value
    BY <1>8, <2>3, <2>5, WithArgvIs
  <2>7. before.args = args
    <3>1. before.args \in Seq(Text) /\ args \in Seq(Text)
      BY <1>8, WrittenTypes DEF Found
    <3> QED BY <1>1, <1>11, <3>1, SeqEqual
  <2> QED BY <1>9, <2>1, <2>4, <2>6, <2>7 DEF ArgvsIs
<1> QED BY <1>7, <1>8, <1>10, <1>11, <1>1 DEF ReadsUpTo

------------------------------------------------------------------------------
(* A request.                                                              *)

\* Parsing a request goes on when it succeeds.
LEMMA RequestParsed ==
  ASSUME NEW W \in Seq(STRING), NEW L \in 0 .. Len(W), NEW p \in 0 .. L, NEW parsed,
         parsed = ParseRequest(Slice(W, p, L))
  PROVE  PartParsed(W, L, p, parsed, RespRequest)
<1>1. p \in Nat /\ L \in Nat /\ Len(W) \in Nat
  BY SliceProperties
<1>2. PICK argc : argc = ParseNum("*", Slice(W, p, L)) /\ parsed = AfterCount(argc)
  BY DEF ParseRequest
<1>3. PICK q \in p .. L : /\ argc.rest = Slice(W, q, L)
                          /\ argc.value \in Failure \/ (argc.value \in Nat /\ q > p)
  BY <1>2, NumParsed
<1>4. CASE argc.value \in Failure
  <2>1. parsed = argc
    BY <1>2, <1>4 DEF AfterCount
  <2> QED BY <1>3, <1>4, <2>1 DEF PartParsed
<1>5. CASE argc.value \notin Failure /\ argc.value < 1
  <2>1. parsed = [value |-> Thrown, rest |-> argc.rest]
    BY <1>2, <1>5 DEF AfterCount
  <2>2. parsed.value = Thrown /\ parsed.rest = argc.rest
    BY <2>1
  <2> QED BY <1>3, <2>2, Failures DEF PartParsed
<1>6. CASE argc.value \notin Failure /\ ~(argc.value < 1)
  <2>1. PICK name : /\ name = ParseArgv(Slice(W, q, L))
                    /\ parsed = AfterName(argc.value, name)
    BY <1>2, <1>3, <1>6 DEF AfterCount
  <2>2. q \in 0 .. L /\ argc.value \in Nat
    BY <1>1, <1>3, <1>6
  <2>3. PICK r \in q .. L : /\ name.rest = Slice(W, r, L)
                            /\ name.value \in Failure \/ (name.value \in Text /\ r > q)
    BY <2>1, <2>2, ArgvParsed DEF PartParsed
  <2>4. r \in p .. L /\ r \in 0 .. L /\ (r > q => r > p)
    BY <1>1, <1>3, <2>2, <2>3
  <2>5. CASE name.value \in Failure
    <3>1. parsed = name
      BY <2>1, <2>5 DEF AfterName
    <3> QED BY <2>3, <2>4, <2>5, <3>1 DEF PartParsed
  <2>6. CASE name.value \notin Failure
    <3>1. PICK found : /\ found = ParseArgvs(Slice(W, r, L), argc.value)
                       /\ parsed = AfterArgvs(argc.value, name.value, found)
      BY <2>1, <2>3, <2>6 DEF AfterName
    <3>2. found \in Found /\ Onward(W, r, L, found.rest)
      BY <2>2, <2>4, <3>1, ArgvsParsed
    <3>3. PICK e \in r .. L : found.rest = Slice(W, e, L)
      BY <3>2 DEF Onward
    <3>4. e \in p .. L /\ e > p /\ name.value \in Text
      BY <1>1, <2>2, <2>3, <2>4, <2>6, <3>3, <1>3
    <3>5. CASE found.stop = Thrown
      <4>1. parsed = [value |-> Thrown, rest |-> found.rest]
        BY <3>1, <3>5 DEF AfterArgvs
      <4>2. parsed.value \in Failure /\ parsed.rest = found.rest
        BY <3>5, <4>1, Failures
      <4> QED BY <3>3, <3>4, <4>2 DEF PartParsed
    <3>6. CASE found.stop # Thrown /\ TooFew(found.args, argc.value)
      <4>1. parsed = [value |-> Incomplete, rest |-> found.rest]
        BY <3>1, <3>6 DEF AfterArgvs
      <4>2. parsed.value = Incomplete /\ parsed.rest = found.rest
        BY <4>1
      <4> QED BY <3>3, <3>4, <4>2, Failures DEF PartParsed
    <3>7. CASE found.stop # Thrown /\ ~TooFew(found.args, argc.value)
      <4>1. parsed = [value |-> [name |-> name.value, args |-> found.args], rest |-> found.rest]
        BY <3>1, <3>7 DEF AfterArgvs
      <4>2. found.args \in Seq(Text)
        BY <3>2 DEF Found
      <4>3. parsed.value = [name |-> name.value, args |-> found.args] /\ parsed.rest = found.rest
        BY <4>1
      <4>4. parsed.value \in RespRequest
        BY <3>4, <4>2, <4>3 DEF RespRequest
      <4> QED BY <3>3, <3>4, <4>3, <4>4 DEF PartParsed
    <3> QED BY <3>5, <3>6, <3>7
  <2> QED BY <2>5, <2>6
<1> QED BY <1>4, <1>5, <1>6

LEMMA LineType ==
  ASSUME NEW c \in STRING, NEW str \in Seq(STRING)
  PROVE  AppendString(c, str) \in Seq(STRING)
<1>1. CRLF \in Seq(STRING)
  BY RespAssumption DEF CRLF
<1>2. PICK mark \in Seq(STRING) : mark = <<c>>
  BY SingleProperties
<1>3. mark \o str \o CRLF \in Seq(STRING)
  BY <1>1, ConcatProperties
<1> QED BY <1>2, <1>3 DEF AppendString

Bulks(args) == [i \in DOMAIN args |-> AppendBulkString(args[i])]

LEMMA BulksType ==
  ASSUME NEW args \in Seq(Seq(STRING))
  PROVE  /\ Bulks(args) \in Seq(Seq(STRING)) /\ Len(Bulks(args)) = Len(args)
         /\ \A i \in 1 .. Len(args) : Bulks(args)[i] = AppendBulkString(args[i])
<1>1. PICK k \in Nat : k = Len(args) /\ DOMAIN args = 1 .. k
  BY LenProperties
<1>2. \A i \in 1 .. k : AppendBulkString(args[i]) \in Seq(STRING)
  BY <1>1, ElementOfSeq, BulkType
<1>3. Bulks(args) \in [1 .. k -> Seq(STRING)]
  BY <1>1, <1>2 DEF Bulks
<1>4. Bulks(args) \in Seq(Seq(STRING))
  BY <1>3, SeqDef
<1>5. Len(Bulks(args)) = k
  BY <1>3, <1>4, LenProperties
<1> QED BY <1>1, <1>4, <1>5 DEF Bulks

\* A request is its count, its name and its arguments, one after the other.
EncodedAt(W, p, request, Q) ==
  LET size == AppendArray(1 + Len(request.args))
      name == AppendBulkString(request.name)
  IN  /\ Holds(W, p, size) /\ Holds(W, p + Len(size), name)
      /\ ArgsAt(W, request.args, Q) /\ Q[0] = p + Len(size) + Len(name)
      /\ Q[Len(request.args)] = p + Len(Encoded(request))

LEMMA EncodedParts ==
  ASSUME NEW request \in Request
  PROVE  /\ "*" \in STRING /\ request.name \in Seq(STRING) /\ request.args \in Seq(Seq(STRING))
         /\ Len(request.args) \in Nat /\ 1 + Len(request.args) \in Nat
         /\ AppendArray(1 + Len(request.args)) \in Seq(STRING)
         /\ AppendArray(1 + Len(request.args)) = AppendString("*", Decimal[1 + Len(request.args)])
         /\ AppendBulkString(request.name) \in Seq(STRING)
         /\ FlattenSeq(Bulks(request.args)) \in Seq(STRING)
         /\ Encoded(request) = (AppendArray(1 + Len(request.args)) \o AppendBulkString(request.name))
                                 \o FlattenSeq(Bulks(request.args))
         /\ Encoded(request) \in Seq(STRING)
<1>1. /\ "*" \in STRING /\ request.name \in Seq(STRING) /\ request.args \in Seq(Seq(STRING))
  BY RespAssumption DEF Request
<1>2. Len(request.args) \in Nat /\ 1 + Len(request.args) \in Nat
  BY <1>1, LenProperties
<1>3. PICK size : size = AppendArray(1 + Len(request.args))
  OBVIOUS
<1>4. size = AppendString("*", Decimal[1 + Len(request.args)]) /\ size \in Seq(STRING)
  BY <1>1, <1>2, <1>3, DecimalProperties, LineType DEF AppendArray
<1>5. PICK name \in Seq(STRING) : name = AppendBulkString(request.name)
  BY <1>1, BulkType
<1>6. PICK flat \in Seq(STRING) : flat = FlattenSeq(Bulks(request.args))
  BY <1>1, BulksType, FlattenForm
<1>7. Encoded(request) = (size \o name) \o flat
  BY <1>3, <1>5, <1>6 DEF Encoded, Bulks
<1>8. (size \o name) \o flat \in Seq(STRING)
  BY <1>4, ConcatProperties
<1> QED BY <1>1, <1>2, <1>3, <1>4, <1>5, <1>6, <1>7, <1>8

LEMMA EncodedForm ==
  ASSUME NEW W \in Seq(STRING), NEW p \in Nat, NEW request \in Request,
         Holds(W, p, Encoded(request))
  PROVE  \E Q : EncodedAt(W, p, request, Q)
<1>1. PICK args \in Seq(Seq(STRING)) : args = request.args
  BY EncodedParts
<1>2. PICK k \in Nat : k = Len(args)
  BY LenProperties
<1>3. PICK size \in Seq(STRING) : size = AppendArray(1 + k)
  BY <1>1, <1>2, EncodedParts
<1>4. PICK name \in Seq(STRING) : name = AppendBulkString(request.name)
  BY EncodedParts
<1>5. PICK flat \in Seq(STRING) : flat = FlattenSeq(Bulks(args))
  BY <1>1, EncodedParts
<1>6. Encoded(request) = (size \o name) \o flat
  BY <1>1, <1>2, <1>3, <1>4, <1>5, EncodedParts
<1>7. PICK front \in Seq(STRING) : front = size \o name /\ Len(front) = Len(size) + Len(name)
  BY ConcatProperties
<1>8. Len(size) \in Nat /\ Len(name) \in Nat /\ Len(flat) \in Nat /\ Len(front) \in Nat
  BY LenProperties
<1>9. /\ Holds(W, p, front) /\ Holds(W, p + Len(front), flat)
      /\ Len(Encoded(request)) = Len(front) + Len(flat)
  <2>1. Holds(W, p, front \o flat) /\ Encoded(request) = front \o flat
    BY <1>6, <1>7
  <2> QED BY <2>1, HoldsConcat
<1>10. Holds(W, p, size) /\ Holds(W, p + Len(size), name)
  BY <1>7, <1>9, HoldsConcat
<1>11. PICK r \in Nat : r = p + Len(front) /\ r = p + Len(size) + Len(name)
  BY <1>7, <1>8
<1>12. PICK bulks \in Seq(Seq(STRING)) :
         /\ bulks = Bulks(args) /\ Len(bulks) = k
         /\ \A i \in 1 .. k : bulks[i] = AppendBulkString(args[i])
  BY <1>2, BulksType
<1>13. PICK P : FlatAt(bulks, flat, P)
  BY <1>5, <1>12, FlattenForm
<1>14. /\ P \in [0 .. k -> Nat] /\ P[0] = 0 /\ P[k] = Len(flat)
       /\ \A i \in 1 .. k : P[i] = P[i - 1] + Len(bulks[i]) /\ Holds(flat, P[i - 1], bulks[i])
  BY <1>12, <1>13 DEF FlatAt
<1>15. PICK Q : Q = [i \in 0 .. k |-> r + P[i]]
  OBVIOUS
<1>16. ArgsAt(W, args, Q)
  <2>1. Q \in [0 .. k -> Nat]
    BY <1>14, <1>15
  <2>2. ASSUME NEW i \in 1 .. k
        PROVE  /\ Q[i] = Q[i - 1] + Len(AppendBulkString(args[i]))
               /\ Holds(W, Q[i - 1], AppendBulkString(args[i]))
    <3>1. i \in 0 .. k /\ i - 1 \in 0 .. k
      OBVIOUS
    <3>2. Q[i] = r + P[i] /\ Q[i - 1] = r + P[i - 1] /\ P[i - 1] \in Nat /\ P[i] \in Nat
      BY <1>14, <1>15, <3>1
    <3>3. PICK bulk \in Seq(STRING) : bulk = bulks[i] /\ bulk = AppendBulkString(args[i])
      BY <1>12, ElementOfSeq
    <3>4. P[i] = P[i - 1] + Len(bulk) /\ Holds(flat, P[i - 1], bulk) /\ Len(bulk) \in Nat
      BY <1>14, <3>3, LenProperties
    <3>5. Holds(W, r + P[i - 1], bulk)
      <4>1. Holds(W, r, flat)
        BY <1>9, <1>11
      <4>2. P[i - 1] \in Nat /\ Holds(flat, P[i - 1], bulk)
        BY <3>2, <3>4
      <4> QED BY <4>1, <4>2, HoldsWithin
    <3>6. Q[i] = Q[i - 1] + Len(bulk)
      BY <3>2, <3>4
    <3>7. Holds(W, Q[i - 1], bulk)
      BY <3>2, <3>5, Zenon
    <3> QED BY <3>3, <3>6, <3>7, Zenon
  <2> QED BY <1>2, <2>1, <2>2 DEF ArgsAt
<1>17. Q[0] = p + Len(size) + Len(name) /\ Q[k] = p + Len(Encoded(request))
  <2>1. 0 \in 0 .. k /\ k \in 0 .. k
    OBVIOUS
  <2>2. Q[0] = r + P[0] /\ Q[k] = r + P[k]
    BY <1>15, <2>1
  <2>3. r + P[0] = r /\ r + P[k] = p + Len(Encoded(request))
    BY <1>8, <1>9, <1>11, <1>14
  <2> QED BY <1>11, <2>2, <2>3
<1>18. EncodedAt(W, p, request, Q)
  BY <1>1, <1>2, <1>3, <1>4, <1>10, <1>16, <1>17 DEF EncodedAt
<1> QED BY <1>18

\* The request that was written is read when it arrives whole and alone, and
\* otherwise nothing is.
LEMMA RequestRead ==
  ASSUME NEW W \in Seq(STRING), NEW L \in 0 .. Len(W), Len(W) <= SizeMax, NEW p \in 0 .. L,
         NEW request \in Request, Holds(W, p, Encoded(request)),
         NEW end, end = p + Len(Encoded(request)), end < L => W[end + 1] # "$",
         NEW parsed, parsed = ParseRequest(Slice(W, p, L))
  PROVE  \/ parsed.value \in Failure /\ L # end
         \/ L = end /\ parsed.value = request /\ parsed.rest = Slice(W, L, L)
<1>1. p \in Nat /\ L \in Nat /\ Len(W) \in Nat /\ SizeMax \in Nat
  BY SliceProperties, RespAssumption
<1>2. PICK args \in Seq(Seq(STRING)) : args = request.args
  BY EncodedParts
<1>3. PICK k \in Nat : k = Len(args)
  BY LenProperties
<1>4. PICK Q : EncodedAt(W, p, request, Q)
  BY <1>1, EncodedForm
<1>5. PICK size, bulk : size = AppendArray(1 + k) /\ bulk = AppendBulkString(request.name)
  OBVIOUS
<1>6. /\ Holds(W, p, size) /\ Holds(W, p + Len(size), bulk) /\ ArgsAt(W, args, Q)
      /\ Q[0] = p + Len(size) + Len(bulk) /\ Q[k] = end
  BY <1>2, <1>3, <1>4, <1>5 DEF EncodedAt
<1>7. /\ "*" \in STRING /\ size = AppendString("*", Decimal[1 + k]) /\ 1 + k \in Nat
      /\ request.name \in Seq(STRING) /\ Len(bulk) \in Nat /\ Len(bulk) >= 1
  <2>1. request.name \in Seq(STRING)
    BY EncodedParts
  <2> QED BY <1>2, <1>3, <1>5, <2>1, EncodedParts, BulkType
<1>8. PICK c \in Nat : c = p + Len(Decimal[1 + k]) + 3 /\ c = p + Len(size) /\ c >= p + 3
  <2>1. PICK dec \in Seq(STRING) : dec = Decimal[1 + k] /\ Len(dec) \in Nat
    BY <1>7, DecimalProperties
  <2>2. Len(size) = Len(dec) + 3
    BY <1>1, <1>6, <1>7, <2>1, LineForm
  <2>3. PICK d \in Nat : d = Len(dec)
    BY <2>1
  <2>4. p + d + 3 \in Nat /\ p + d + 3 = p + (d + 3) /\ p + d + 3 >= p + 3
    BY <1>1
  <2> QED BY <2>1, <2>2, <2>3, <2>4, Zenon
<1>9. PICK r \in Nat : r = Q[0] /\ r = c + Len(bulk) /\ r + k <= end /\ end \in Nat
  <2>1. 0 \in 0 .. Len(args) /\ k \in 0 .. Len(args)
    BY <1>3
  <2>2. Q[0] + (k - 0) <= Q[k]
    BY <1>3, <1>6, <2>1, ArgsGrow
  <2>3. Q[0] \in Nat /\ Q[k] \in Nat
    BY <1>6, <2>1 DEF ArgsAt
  <2>4. Q[0] = c + Len(bulk)
    BY <1>6, <1>8
  <2> QED BY <1>6, <1>7, <2>2, <2>3, <2>4
<1>10. PICK argc : argc = ParseNum("*", Slice(W, p, L)) /\ parsed = AfterCount(argc)
  BY DEF ParseRequest
<1>11. \/ argc.value \in Failure /\ ~(c <= L /\ 1 + k <= SizeMax)
       \/ argc.value = 1 + k /\ c <= L /\ argc.rest = Slice(W, c, L)
  <2>1. PICK n \in Nat : n = 1 + k
    BY <1>7
  <2>2. Holds(W, p, AppendString("*", Decimal[n])) /\ c = p + Len(Decimal[n]) + 3
    BY <1>6, <1>7, <1>8, <2>1
  <2>3. \/ argc.value \in Failure /\ ~(c <= L /\ n <= SizeMax)
        \/ argc.value = n /\ c <= L /\ argc.rest = Slice(W, c, L)
    <3>1. "*" \in STRING
      BY <1>7
    <3>2. argc = ParseNum("*", Slice(W, p, L))
      BY <1>10
    <3> QED BY <2>2, <3>1, <3>2, NumRead
  <2> QED BY <2>1, <2>3
<1>12. CASE argc.value \in Failure /\ ~(c <= L /\ 1 + k <= SizeMax)
  <2>1. parsed = argc
    BY <1>10, <1>12 DEF AfterCount
  <2>2. L # end
    <3>1. L \in Nat /\ SizeMax \in Nat /\ c \in Nat /\ r \in Nat /\ k \in Nat /\ end \in Nat
      BY <1>1, <1>8, <1>9
    <3>2. Len(bulk) \in Nat /\ Len(bulk) >= 1 /\ r = c + Len(bulk)
      BY <1>7, <1>9
    <3>3. p \in Nat /\ c >= p + 3
      BY <1>1, <1>8
    <3>4. r + k <= end
      BY <1>9
    <3>5. ~(c <= L /\ 1 + k <= SizeMax)
      BY <1>12
    <3> QED BY <3>1, <3>2, <3>3, <3>4, <3>5
  <2> QED BY <1>12, <2>1, <2>2
<1>13. CASE argc.value = 1 + k /\ c <= L /\ argc.rest = Slice(W, c, L)
  <2>1. argc.value \notin Failure /\ ~(argc.value < 1) /\ c \in 0 .. L
    BY <1>1, <1>7, <1>13, Failures
  <2>2. PICK name : name = ParseArgv(Slice(W, c, L)) /\ parsed = AfterName(1 + k, name)
    BY <1>10, <1>13, <2>1 DEF AfterCount
  <2>3. \/ name.value \in Failure /\ r > L
        \/ name.value = request.name /\ r \in c .. L /\ name.rest = Slice(W, r, L)
    <3>1. Holds(W, c, AppendBulkString(request.name)) /\ r = c + Len(AppendBulkString(request.name))
      BY <1>5, <1>6, <1>8, <1>9
    <3> QED BY <1>7, <2>1, <2>2, <3>1, ArgvRead
  <2>4. CASE name.value \in Failure /\ r > L
    <3>1. parsed = name
      BY <2>2, <2>4 DEF AfterName
    <3>2. L # end
      BY <1>1, <1>9, <2>4
    <3> QED BY <2>4, <3>1, <3>2
  <2>5. CASE name.value = request.name /\ r \in c .. L /\ name.rest = Slice(W, r, L)
    <3>1. name.value \notin Failure /\ r \in 0 .. L
      <4>1. name.value \in Nat \cup Text \cup RespRequest \cup {"parsing", "none"}
        BY <1>7, <2>5, WrittenTypes
      <4>2. r \in 0 .. L
        BY <1>1, <1>8, <2>5
      <4> QED BY <4>1, <4>2, Failures
    <3>2. PICK found : /\ found = ParseArgvs(Slice(W, r, L), k + 1)
                       /\ parsed = AfterArgvs(1 + k, request.name, found)
      <4>1. 1 + k = k + 1
        OBVIOUS
      <4> QED BY <2>2, <2>5, <3>1, <4>1 DEF AfterName
    <3>3. ArgvsIs(W, L, args, end, found)
      <4>1. Q[0] \in 0 .. L /\ end = Q[Len(args)]
        BY <1>3, <1>6, <1>9, <3>1
      <4>2. found = ParseArgvs(Slice(W, Q[0], L), Len(args) + 1)
        BY <1>3, <1>9, <3>2
      <4> QED BY <1>6, <4>1, <4>2, ArgvsRead
    <3>4. found.args \in Seq(Text) /\ Len(found.args) \in Nat
      <4>1. found.args \in Seq(Text)
        BY <3>3 DEF ArgvsIs, Found
      <4> QED BY <4>1, LenProperties
    <3>5. CASE found.stop = Thrown
      <4>1. parsed = [value |-> Thrown, rest |-> found.rest]
        BY <3>2, <3>5 DEF AfterArgvs
      <4>2. parsed.value \in Failure
        BY <3>5, <4>1, Failures
      <4>3. L # end
        <5>1. SUFFICES ASSUME L = end PROVE FALSE
          OBVIOUS
        <5>2. ~(end > L)
          BY <1>1, <5>1
        <5>3. found.stop = Incomplete
          BY <3>3, <5>1, <5>2 DEF ArgvsIs
        <5> QED BY <3>5, <5>3, Failures
      <4> QED BY <4>2, <4>3
    <3>6. CASE found.stop # Thrown /\ Len(found.args) < k
      <4>1. TooFew(found.args, 1 + k)
        BY <3>4, <3>6 DEF TooFew
      <4>2. parsed = [value |-> Incomplete, rest |-> found.rest]
        BY <3>2, <3>6, <4>1 DEF AfterArgvs
      <4>3. parsed.value \in Failure
        BY <4>2, Failures
      <4>4. end > L
        <5>1. found.args # args
          BY <1>3, <3>6
        <5> QED BY <3>3, <5>1 DEF ArgvsIs
      <4>5. L # end
        BY <1>1, <4>4
      <4> QED BY <4>3, <4>5
    <3>7. CASE found.stop # Thrown /\ ~(Len(found.args) < k)
      <4>1. end \in 0 .. L /\ found.args = args /\ ~(end < L)
        BY <1>3, <3>3, <3>7 DEF ArgvsIs
      <4>2. L = end
        BY <1>1, <4>1
      <4>3. found.rest = Slice(W, L, L)
        BY <1>1, <3>3, <4>2, <3>7, <1>3 DEF ArgvsIs
      <4>4. ~TooFew(found.args, 1 + k)
        BY <3>4, <3>7 DEF TooFew
      <4>5. parsed = [value |-> [name |-> request.name, args |-> args], rest |-> found.rest]
        BY <3>2, <3>7, <4>1, <4>4 DEF AfterArgvs
      <4>6. parsed.value = [name |-> request.name, args |-> request.args] /\ parsed.rest = found.rest
        BY <1>2, <4>5
      <4>7. request = [name |-> request.name, args |-> request.args]
        BY DEF Request
      <4> QED BY <4>2, <4>3, <4>6, <4>7
    <3> QED BY <3>5, <3>6, <3>7
  <2> QED BY <2>3, <2>4, <2>5
<1> QED BY <1>11, <1>12, <1>13

------------------------------------------------------------------------------
(* What ping and ack build.                                                *)

LEMMA WordType ==
  \A token \in STRING : Word(token) \in Seq(STRING)
BY SingleProperties, EmptySeq DEF Word

\* The lines of a node, and the strings in them.
LEMMA NodeType ==
  ASSUME NEW type \in STRING, NEW node \in Node, NEW append_status
  PROVE  /\ AppendNode(type, node, append_status) \in Seq(STRING)
         /\ Part5(type, node) \in Seq(Seq(STRING)) /\ Word(node.status) \in Seq(STRING)
<1>1. /\ node.id \in STRING /\ node.status \in STRING /\ node.version \in Nat /\ Port \in Nat
      /\ "ip" \in STRING /\ "+" \in STRING
  BY WireAssumption, VersionAssumption, RespAssumption DEF Node, Statuses
<1>2. PICK w1, w2, w3, w4, w5, w6 \in Seq(STRING) :
        /\ w1 = Word(type) /\ w2 = Word(node.id) /\ w3 = <<"ip">> /\ w4 = Decimal[Port]
        /\ w5 = Decimal[node.version] /\ w6 = Word(node.status)
  <2>1. /\ Word(type) \in Seq(STRING) /\ Word(node.id) \in Seq(STRING) /\ Word(node.status) \in Seq(STRING)
    BY <1>1, WordType
  <2>2. <<"ip">> \in Seq(STRING)
    BY <1>1, SingleProperties
  <2>3. Decimal[Port] \in Seq(STRING) /\ Decimal[node.version] \in Seq(STRING)
    BY <1>1, DecimalProperties
  <2> QED BY <2>1, <2>2, <2>3
<1>3. \A w \in Seq(STRING) : AppendSimpleString(w) \in Seq(STRING)
  BY <1>1, LineType DEF AppendSimpleString
<1>4. PICK last \in Seq(STRING) : last = IF append_status THEN AppendSimpleString(w6) ELSE << >>
  BY <1>3, EmptySeq
<1>5. AppendSimpleString(w1) \o AppendSimpleString(w2) \o AppendSimpleString(w3)
        \o AppendSimpleString(w4) \o AppendSimpleString(w5) \o last \in Seq(STRING)
  BY <1>3, ConcatProperties
<1>6. AppendNode(type, node, append_status) \in Seq(STRING)
  BY <1>2, <1>4, <1>5 DEF AppendNode
<1>7. <<w1, w2, w3, w4, w5>> \in Seq(Seq(STRING))
  OBVIOUS
<1> QED BY <1>2, <1>6, <1>7 DEF Part5

\* A message is its count, its name and the rest of it.
BuiltAs(W, n, str, node, back) ==
  /\ AppendArray(n) \in Seq(STRING) /\ AppendSimpleString(str) \in Seq(STRING)
  /\ W = ((AppendArray(n) \o AppendSimpleString(str)) \o node) \o back

LEMMA BuiltForm ==
  ASSUME NEW name \in {"ping", "ack"}, NEW self \in Self, NEW rumors \in Rumors
  PROVE  \E n \in Nat, str, node, back \in Seq(STRING) :
           BuiltAs(Built(name, self, rumors), n, str, node, back)
<1>1. /\ name \in STRING /\ "self" \in STRING /\ "rumor" \in STRING /\ "*" \in STRING /\ "+" \in STRING
      /\ self \in Node /\ rumors \in Seq(Node)
  BY WireAssumption, RespAssumption
<1>2. PICK k \in Nat : k = Len(rumors) /\ DOMAIN rumors = 1 .. k
  BY <1>1, LenProperties
<1>3. PICK n \in Nat : n = 1 + 5 + 6 * k
  OBVIOUS
<1>4. AppendArray(n) \in Seq(STRING)
  BY <1>1, <1>3, DecimalProperties, LineType DEF AppendArray
<1>5. PICK str \in Seq(STRING) : str = Word(name)
  BY <1>1, WordType
<1>6. AppendSimpleString(str) \in Seq(STRING)
  BY <1>1, <1>5, LineType DEF AppendSimpleString
<1>7. PICK nodes : nodes = [i \in DOMAIN rumors |-> AppendNode("rumor", rumors[i], TRUE)]
  OBVIOUS
<1>8. nodes \in Seq(Seq(STRING))
  <2>1. \A i \in 1 .. k : AppendNode("rumor", rumors[i], TRUE) \in Seq(STRING)
    BY <1>1, <1>2, ElementOfSeq, NodeType
  <2>2. nodes \in [1 .. k -> Seq(STRING)]
    BY <1>2, <1>7, <2>1
  <2> QED BY <2>2, SeqDef
<1>9. PICK back \in Seq(STRING) : back = FlattenSeq(nodes)
  BY <1>8, FlattenForm
<1>10. PICK node \in Seq(STRING) : node = AppendNode("self", self, FALSE)
  BY <1>1, NodeType
<1>11. Built(name, self, rumors) = ((AppendArray(n) \o AppendSimpleString(str)) \o node) \o back
  BY <1>2, <1>3, <1>5, <1>7, <1>9, <1>10 DEF Built
<1>12. BuiltAs(Built(name, self, rumors), n, str, node, back)
  BY <1>4, <1>6, <1>11 DEF BuiltAs
<1> QED BY <1>3, <1>5, <1>9, <1>10, <1>12

\* No request is read from it: the name is a simple string.
LEMMA BuiltRefused ==
  ASSUME NEW name \in {"ping", "ack"}, NEW self \in Self, NEW rumors \in Rumors,
         NEW W \in Seq(STRING), W = Built(name, self, rumors),
         NEW parsed, parsed = ParseRequest(W)
  PROVE  parsed.value \in Failure
<1>1. PICK L \in Nat : L = Len(W) /\ W = Slice(W, 0, L) /\ L \in 0 .. Len(W)
  BY WholeSlice
<1>2. PICK n \in Nat, str, node, back \in Seq(STRING) : BuiltAs(W, n, str, node, back)
  BY BuiltForm
<1>3. PICK size, line \in Seq(STRING) :
        /\ size = AppendArray(n) /\ line = AppendSimpleString(str)
        /\ W = ((size \o line) \o node) \o back
  BY <1>2 DEF BuiltAs
<1>4. Holds(W, 0, size) /\ Holds(W, 0 + Len(size), line)
  <2>1. size \o line \in Seq(STRING) /\ (size \o line) \o node \in Seq(STRING)
    BY ConcatProperties
  <2>2. Holds(W, 0, W)
    BY <1>1 DEF Holds
  <2>3. Holds(W, 0, ((size \o line) \o node) \o back)
    BY <1>3, <2>2
  <2>4. Holds(W, 0, (size \o line) \o node)
    BY <2>1, <2>3, HoldsConcat
  <2>5. Holds(W, 0, size \o line)
    BY <2>1, <2>4, HoldsConcat
  <2> QED BY <2>5, HoldsConcat
<1>5. "*" \in STRING /\ "+" \in STRING /\ Holds(W, 0, AppendString("*", Decimal[n]))
  BY <1>3, <1>4, RespAssumption DEF AppendArray
<1>6. PICK c \in Nat : c = 0 + Len(Decimal[n]) + 3 /\ c = 0 + Len(size)
  <2>1. PICK dec \in Seq(STRING) : dec = Decimal[n] /\ Len(dec) \in Nat
    BY DecimalProperties
  <2>2. Len(size) = Len(dec) + 3
    <3>1. Holds(W, 0, AppendString("*", dec)) /\ size = AppendString("*", dec)
      BY <1>3, <1>5, <2>1 DEF AppendArray
    <3> QED BY <1>5, <3>1, LineForm
  <2> QED BY <2>1, <2>2
<1>7. W[c + 1] = "+" /\ c < L
  <2>1. LineAt(W, c, "+", str)
    <3>1. Holds(W, c, AppendString("+", str))
      BY <1>3, <1>4, <1>6 DEF AppendSimpleString
    <3> QED BY <1>5, <3>1, LineForm
  <2> QED BY <1>1, <1>6, <2>1 DEF LineAt
<1>8. PICK argc : argc = ParseNum("*", Slice(W, 0, L)) /\ parsed = AfterCount(argc)
  BY <1>1 DEF ParseRequest
<1>9. argc.value \in Failure \/ (argc.value = n /\ argc.rest = Slice(W, c, L))
  <2>1. PICK p \in 0 .. L : p = 0
    OBVIOUS
  <2>2. /\ Holds(W, p, AppendString("*", Decimal[n])) /\ c = p + Len(Decimal[n]) + 3
        /\ argc = ParseNum("*", Slice(W, p, L))
    BY <1>5, <1>6, <1>8, <2>1
  <2>3. L \in 0 .. Len(W) /\ "*" \in STRING
    BY <1>1, <1>5
  <2> QED BY <2>2, <2>3, NumRead
<1>10. CASE argc.value \in Failure
  BY <1>8, <1>10 DEF AfterCount
<1>11. CASE argc.value = n /\ argc.rest = Slice(W, c, L) /\ argc.value \notin Failure
  <2>1. CASE n < 1
    <3>1. parsed = [value |-> Thrown, rest |-> argc.rest]
      BY <1>8, <1>11, <2>1 DEF AfterCount
    <3> QED BY <3>1, Failures
  <2>2. CASE ~(n < 1)
    <3>1. PICK head : head = ParseArgv(Slice(W, c, L)) /\ parsed = AfterName(n, head)
      BY <1>8, <1>11, <2>2 DEF AfterCount
    <3>2. c \in 0 .. L /\ "+" # "$"
      BY <1>6, <1>7
    <3>3. head.value = Thrown
      <4>1. c < L /\ W[c + 1] # "$"
        BY <1>7, <3>2
      <4>2. L \in 0 .. Len(W) /\ c \in 0 .. L /\ head = ParseArgv(Slice(W, c, L))
        <5>1. L \in 0 .. Len(W)
          BY <1>1
        <5> QED BY <3>1, <3>2, <5>1, Zenon
      <4> QED BY <4>1, <4>2, ArgvMissing
    <3>4. parsed = head
      BY <3>1, <3>3, Failures DEF AfterName
    <3> QED BY <3>3, <3>4, Failures
  <2> QED BY <2>1, <2>2
<1> QED BY <1>9, <1>10, <1>11

\* It is meant to be a request.
LEMMA OwnRequestType ==
  ASSUME NEW name \in {"ping", "ack"}, NEW self \in Self, NEW rumors \in Rumors
  PROVE  OwnRequest(name, self, rumors) \in Request
<1>1. /\ name \in STRING /\ "self" \in STRING /\ "rumor" \in STRING
      /\ self \in Node /\ rumors \in Seq(Node)
  BY WireAssumption
<1>2. PICK k \in Nat : k = Len(rumors) /\ DOMAIN rumors = 1 .. k
  BY <1>1, LenProperties
<1>3. PICK nodes : nodes = [i \in DOMAIN rumors |->
                              Append(Part5("rumor", rumors[i]), Word(rumors[i].status))]
  OBVIOUS
<1>4. nodes \in Seq(Seq(Seq(STRING)))
  <2>1. ASSUME NEW i \in 1 .. k
        PROVE  Append(Part5("rumor", rumors[i]), Word(rumors[i].status)) \in Seq(Seq(STRING))
    <3>1. PICK node \in Node : node = rumors[i]
      BY <1>1, <1>2, ElementOfSeq
    <3>2. Part5("rumor", node) \in Seq(Seq(STRING)) /\ Word(node.status) \in Seq(STRING)
      BY <1>1, NodeType
    <3> QED BY <3>1, <3>2, AppendProperties
  <2>2. nodes \in [1 .. k -> Seq(Seq(STRING))]
    BY <1>2, <1>3, <2>1
  <2> QED BY <2>2, SeqDef
<1>5. PICK back \in Seq(Seq(STRING)) : back = FlattenSeq(nodes)
  BY <1>4, FlattenForm
<1>6. PICK front \in Seq(Seq(STRING)) : front = Part5("self", self)
  BY <1>1, NodeType
<1>7. front \o back \in Seq(Seq(STRING)) /\ Word(name) \in Seq(STRING)
  BY <1>1, ConcatProperties, WordType
<1>8. OwnRequest(name, self, rumors) = [name |-> Word(name), args |-> front \o back]
  BY <1>3, <1>5, <1>6 DEF OwnRequest
<1> QED BY <1>7, <1>8 DEF Request

------------------------------------------------------------------------------
(* What arrives.                                                           *)

\* A prefix is a slice.
LEMMA PrefixSlice ==
  ASSUME NEW S, NEW W \in Seq(S), NEW data \in Seq(S)
  PROVE  IsPrefix(data, W) <=> Len(data) \in 0 .. Len(W) /\ data = Slice(W, 0, Len(data))
<1>1. PICK n \in Nat : n = Len(data) /\ Len(W) \in Nat
  BY LenProperties
<1>2. IsPrefix(data, W) <=> n \in 0 .. Len(W) /\ SubSeq(data, 1, n) = SubSeq(W, 1, n)
  BY <1>1 DEF IsPrefix
<1>3. ASSUME NEW s \in Seq(S), n \in 0 .. Len(s) PROVE SubSeq(s, 1, n) = Slice(s, 0, n)
  <2>1. PICK L \in Nat : L = Len(s) /\ s = Slice(s, 0, L)
    BY WholeSlice
  <2>2. L \in 0 .. Len(s) /\ 0 \in 0 .. L /\ 0 \in 0 .. L - 0 /\ n \in 0 .. L - 0
    BY <1>1, <1>3, <2>1
  <2>3. SubSeq(Slice(s, 0, L), 0 + 1, n) = Slice(s, 0 + 0, 0 + n)
    BY <2>2, FrontOfSlice
  <2>4. 0 + 1 = 1 /\ 0 + 0 = 0 /\ 0 + n = n
    BY <1>1
  <2> QED BY <2>1, <2>3, <2>4
<1>4. SubSeq(data, 1, n) = data
  <2>1. data = Slice(data, 0, n) /\ n \in 0 .. Len(data)
    BY <1>1, WholeSlice
  <2> QED BY <1>3, <2>1
<1> QED BY <1>1, <1>2, <1>3, <1>4

Encodings(reqs) == [i \in DOMAIN reqs |-> Encoded(reqs[i])]

\* All requests are one after the other.
LEMMA EncodedAllForm ==
  ASSUME NEW reqs \in Seq(Request)
  PROVE  /\ EncodedAll(reqs) \in Seq(STRING) /\ Len(reqs) \in Nat /\ Len(Encodings(reqs)) = Len(reqs)
         /\ \A i \in 1 .. Len(reqs) : /\ Encodings(reqs)[i] = Encoded(reqs[i]) /\ reqs[i] \in Request
                                      /\ Encoded(reqs[i]) \in Seq(STRING)
         /\ \E P : FlatAt(Encodings(reqs), EncodedAll(reqs), P)
<1>1. PICK n \in Nat : n = Len(reqs) /\ DOMAIN reqs = 1 .. n
  BY LenProperties
<1>2. \A i \in 1 .. n : reqs[i] \in Request /\ Encoded(reqs[i]) \in Seq(STRING)
  BY <1>1, ElementOfSeq, EncodedParts
<1>3. Encodings(reqs) \in [1 .. n -> Seq(STRING)]
  BY <1>1, <1>2 DEF Encodings
<1>4. PICK each \in Seq(Seq(STRING)) : each = Encodings(reqs)
  BY <1>3, SeqDef
<1>5. Len(each) = n
  BY <1>3, <1>4, LenProperties
<1>6. EncodedAll(reqs) = FlattenSeq(each)
  BY <1>4 DEF EncodedAll, Encodings
<1>7. FlattenSeq(each) \in Seq(STRING) /\ \E P : FlatAt(each, FlattenSeq(each), P)
  BY FlattenForm
<1>8. \A i \in 1 .. n : Encodings(reqs)[i] = Encoded(reqs[i])
  BY <1>1 DEF Encodings
<1> QED BY <1>1, <1>2, <1>4, <1>5, <1>6, <1>7, <1>8

\* The first request is at the front, it is all there is of one, and the mark of
\* a request follows it otherwise.
FirstIs(W, reqs, end) ==
  /\ reqs[1] \in Request /\ Encoded(reqs[1]) \in Seq(STRING)
  /\ Holds(W, 0, Encoded(reqs[1])) /\ end = Len(Encoded(reqs[1])) /\ end \in Nat
  /\ Len(reqs) = 1 => end = Len(W)
  /\ Len(reqs) # 1 => W[end + 1] = "*"

LEMMA FirstRequest ==
  ASSUME NEW reqs \in Seq(Request), reqs # << >>, NEW W \in Seq(STRING), W = EncodedAll(reqs),
         NEW end, end = Len(Encoded(reqs[1]))
  PROVE  FirstIs(W, reqs, end)
<1>1. PICK n \in Nat : n = Len(reqs) /\ n >= 1
  BY LenProperties, EmptySeq
<1>2. \A i \in 1 .. n : /\ Encodings(reqs)[i] = Encoded(reqs[i]) /\ reqs[i] \in Request
                        /\ Encoded(reqs[i]) \in Seq(STRING)
  BY <1>1, EncodedAllForm
<1>3. PICK P : FlatAt(Encodings(reqs), W, P)
  BY EncodedAllForm
<1>4. /\ P \in [0 .. n -> Nat] /\ P[0] = 0 /\ P[n] = Len(W)
      /\ \A i \in 1 .. n : /\ P[i] = P[i - 1] + Len(Encodings(reqs)[i])
                           /\ Holds(W, P[i - 1], Encodings(reqs)[i])
  <2>1. Len(Encodings(reqs)) = n
    BY <1>1, EncodedAllForm
  <2> QED BY <1>3, <2>1 DEF FlatAt
<1>5. 1 \in 1 .. n /\ 1 - 1 = 0 /\ 1 \in 0 .. n
  BY <1>1
<1>6. /\ reqs[1] \in Request /\ Encoded(reqs[1]) \in Seq(STRING) /\ Holds(W, 0, Encoded(reqs[1]))
      /\ end \in Nat /\ P[1] = end
  <2>1. P[1] = 0 + Len(Encoded(reqs[1])) /\ Holds(W, 0, Encoded(reqs[1]))
    BY <1>2, <1>4, <1>5
  <2>2. reqs[1] \in Request /\ Encoded(reqs[1]) \in Seq(STRING)
    BY <1>2, <1>5
  <2>3. Len(Encoded(reqs[1])) \in Nat
    BY <2>2, LenProperties
  <2> QED BY <2>1, <2>2, <2>3
<1>7. ASSUME n # 1 PROVE W[end + 1] = "*"
  <2>1. 2 \in 1 .. n /\ 2 - 1 = 1
    BY <1>1, <1>7
  <2>2. reqs[2] \in Request /\ Holds(W, end, Encoded(reqs[2]))
    BY <1>2, <1>4, <1>6, <2>1
  <2>3. PICK Q : EncodedAt(W, end, reqs[2], Q)
    BY <1>6, <2>2, EncodedForm
  <2>4. PICK size \in Nat : size = 1 + Len(reqs[2].args)
    BY <2>2, EncodedParts
  <2>5. Holds(W, end, AppendString("*", Decimal[size])) /\ "*" \in STRING
    BY <2>2, <2>3, <2>4, EncodedParts DEF EncodedAt
  <2>6. LineAt(W, end, "*", Decimal[size])
    BY <1>6, <2>4, <2>5, DecimalProperties, LineForm
  <2> QED BY <2>6 DEF LineAt
<1> QED BY <1>1, <1>4, <1>6, <1>7 DEF FirstIs

\* A cut datagram gives nothing, and a whole one its request when it is alone.
LEMMA FirstRead ==
  ASSUME NEW data \in Seq(STRING), NEW written \in Seq(Request),
         IsPrefix(data, EncodedAll(written)), Len(EncodedAll(written)) <= SizeMax,
         NEW parsed, parsed = ParseRequest(data)
  PROVE  \/ /\ parsed.value \in Failure
            /\ ~(Len(written) = 1 /\ data = EncodedAll(written))
         \/ /\ written # << >> /\ written[1] \in Request
            /\ data = Encoded(written[1]) /\ parsed.value = written[1] /\ Len(parsed.rest) = 0
<1>1. PICK W \in Seq(STRING) : W = EncodedAll(written)
  BY EncodedAllForm
<1>2. PICK L \in Nat : L = Len(data) /\ Len(W) <= SizeMax /\ Len(W) \in Nat
  BY <1>1, LenProperties
<1>3. L \in 0 .. Len(W) /\ data = Slice(W, 0, L)
  BY <1>1, <1>2, PrefixSlice
<1>4. PICK p \in 0 .. L : p = 0
  BY <1>2
<1>5. parsed = ParseRequest(Slice(W, p, L))
  BY <1>3, <1>4
<1>6. CASE written = << >>
  <2>1. Len(W) = 0 /\ Len(written) = 0
    BY <1>1, <1>6 DEF EncodedAll, FlattenSeq
  <2>2. PartParsed(W, L, p, parsed, RespRequest)
    BY <1>3, <1>5, RequestParsed
  <2>3. PICK q \in p .. L : parsed.value \in Failure \/ q > p
    BY <2>2 DEF PartParsed
  <2>4. parsed.value \in Failure
    BY <1>3, <1>4, <2>1, <2>3
  <2> QED BY <2>1, <2>4
<1>7. CASE written # << >>
  <2>1. PICK end : end = Len(Encoded(written[1])) /\ FirstIs(W, written, end)
    BY <1>1, <1>7, FirstRequest
  <2>2. PICK request \in Request :
          /\ request = written[1] /\ Encoded(request) \in Seq(STRING)
          /\ Holds(W, 0, Encoded(request)) /\ end = Len(Encoded(request)) /\ end \in Nat
          /\ Len(written) = 1 => end = Len(W)
          /\ Len(written) # 1 => W[end + 1] = "*"
    BY <2>1 DEF FirstIs
  <2>3. end < L => W[end + 1] # "$"
    BY <1>2, <1>3, <2>2
  <2>4. end = p + Len(Encoded(request)) /\ Holds(W, p, Encoded(request))
    BY <1>4, <2>2
  <2>5. \/ parsed.value \in Failure /\ L # end
        \/ L = end /\ parsed.value = request /\ parsed.rest = Slice(W, L, L)
    BY <1>2, <1>3, <1>5, <2>3, <2>4, RequestRead
  <2>6. CASE parsed.value \in Failure /\ L # end
    <3>1. ~(Len(written) = 1 /\ data = W)
      BY <1>2, <2>2, <2>6
    <3> QED BY <1>1, <2>6, <3>1
  <2>7. CASE L = end /\ parsed.value = request /\ parsed.rest = Slice(W, L, L)
    <3>1. Encoded(request) = Slice(W, 0, 0 + Len(Encoded(request)))
      BY <2>2, HoldsSlice
    <3>2. 0 + Len(Encoded(request)) = L
      BY <2>2, <2>7
    <3>3. data = Encoded(request)
      BY <1>3, <3>1, <3>2
    <3>4. Len(Slice(W, L, L)) = 0
      <4>1. L \in 0 .. L /\ L - L = 0
        BY <1>2
      <4> QED BY <1>3, <4>1, SliceProperties
    <3> QED BY <1>7, <2>2, <2>7, <3>3, <3>4
  <2> QED BY <2>5, <2>6, <2>7
<1> QED BY <1>6, <1>7

\* The same of whatever arrives.
LEMMA ArrivalRead ==
  ASSUME NEW arrived \in Datagram, NEW parsed, parsed = ParseRequest(arrived.data)
  PROVE  /\ arrived.data \in Seq(STRING) /\ arrived.written \in Seq(Request)
         /\ \/ /\ parsed.value \in Failure
               /\ ~(Len(arrived.written) = 1 /\ arrived.data = EncodedAll(arrived.written))
            \/ /\ arrived.written # << >> /\ arrived.written[1] \in Request
               /\ arrived.data = Encoded(arrived.written[1]) /\ parsed.value = arrived.written[1]
               /\ Len(parsed.rest) = 0
<1>1. PICK data \in Seq(STRING) : data = arrived.data /\ Len(data) <= SizeMax
  BY RespAssumption
<1>2. CASE /\ arrived.written \in Seq(Request) /\ Len(EncodedAll(arrived.written)) <= SizeMax
           /\ IsPrefix(arrived.data, EncodedAll(arrived.written))
  BY <1>1, <1>2, FirstRead
<1>3. CASE arrived \in OwnDatagram
  <2>1. PICK name \in {"ping", "ack"}, self \in Self, rumors \in Rumors :
          arrived = [data |-> Built(name, self, rumors),
                     written |-> <<OwnRequest(name, self, rumors)>>, own |-> TRUE]
    BY <1>3 DEF OwnDatagram
  <2>2. data = Built(name, self, rumors) /\ arrived.written = <<OwnRequest(name, self, rumors)>>
    BY <1>1, <2>1
  <2>3. arrived.written \in Seq(Request)
    BY <2>2, OwnRequestType, SingleProperties
  <2>4. parsed.value \in Failure
    BY <1>1, <2>2, BuiltRefused
  <2>5. ~(Len(arrived.written) = 1 /\ data = EncodedAll(arrived.written))
    <3>1. SUFFICES ASSUME Len(arrived.written) = 1, data = EncodedAll(arrived.written) PROVE FALSE
      OBVIOUS
    <3>2. /\ IsPrefix(data, EncodedAll(arrived.written))
          /\ Len(EncodedAll(arrived.written)) <= SizeMax
      BY <1>1, <3>1 DEF IsPrefix
    <3>3. arrived.written[1] \in Request /\ parsed.value = arrived.written[1]
      BY <1>1, <2>3, <3>1, <3>2, FirstRead
    <3>4. parsed.value \notin Failure
      BY <3>3, Failures, WrittenTypes
    <3> QED BY <2>4, <3>4
  <2> QED BY <1>1, <2>3, <2>4, <2>5
<1> QED BY <1>2, <1>3, ArrivalAssumption

------------------------------------------------------------------------------
(* The theorems.                                                           *)

\* What has been looked at is what bytes_parsed counts.
ParsedInv ==
  /\ datagram \in Datagram
  /\ requests \in Seq(RespRequest)
  /\ outcome \in {"parsing"} \cup Failure
  /\ requests = << >> <=> bytes_parsed = 0 \/ outcome = Thrown
  /\ bytes_parsed \in 0 .. Len(datagram.data)
  /\ buffer = Slice(datagram.data, bytes_parsed, Len(datagram.data))

LEMMA ParsedInit ==
  Init => ParsedInv
<1>1. SUFFICES ASSUME Init PROVE ParsedInv
  OBVIOUS
<1>2. PICK data \in Seq(STRING) : data = datagram.data /\ datagram \in Datagram
  BY <1>1, RespAssumption DEF Init
<1>3. Len(data) \in Nat /\ data = Slice(data, 0, Len(data))
  BY WholeSlice
<1>4. << >> \in Seq(RespRequest)
  BY EmptySeq
<1> QED BY <1>1, <1>2, <1>3, <1>4 DEF Init, ParsedInv

LEMMA ParsedNextRequest ==
  ParsedInv /\ NextRequest => ParsedInv'
<1>1. SUFFICES ASSUME ParsedInv, NextRequest PROVE ParsedInv'
  OBVIOUS
<1>2. PICK data \in Seq(STRING) : data = datagram.data /\ datagram \in Datagram
  BY <1>1, RespAssumption DEF ParsedInv
<1>3. PICK L \in Nat : L = Len(data) /\ L \in 0 .. Len(data)
  BY LenProperties
<1>4. PICK p \in 0 .. L : p = bytes_parsed /\ buffer = Slice(data, p, L)
  BY <1>1, <1>2, <1>3 DEF ParsedInv
<1>5. PICK parsed : /\ parsed = ParseRequest(buffer) /\ parsed.value \notin Failure
                    /\ requests' = Append(requests, parsed.value) /\ buffer' = parsed.rest
                    /\ bytes_parsed' = Len(datagram.data) - Len(buffer')
                    /\ datagram' = datagram /\ outcome' = outcome /\ outcome = "parsing"
  BY <1>1 DEF NextRequest
<1>6. PartParsed(data, L, p, parsed, RespRequest)
  BY <1>3, <1>4, <1>5, RequestParsed
<1>7. PICK q \in p .. L : parsed.rest = Slice(data, q, L) /\ parsed.value \in RespRequest /\ q > p
  BY <1>5, <1>6 DEF PartParsed
<1>8. q \in 0 .. L /\ q # 0 /\ L - (L - q) = q
  BY <1>7
<1>9. Len(buffer') = L - q
  <2>1. q \in 0 .. L /\ L \in 0 .. Len(data)
    BY <1>3, <1>8
  <2>2. Len(Slice(data, q, L)) = L - q
    BY <2>1, SliceProperties
  <2> QED BY <1>5, <1>7, <2>2, Zenon
<1>10. bytes_parsed' = q
  BY <1>2, <1>3, <1>5, <1>8, <1>9
<1>11. requests' \in Seq(RespRequest) /\ requests' # << >>
  <2>1. requests \in Seq(RespRequest)
    BY <1>1 DEF ParsedInv
  <2> QED BY <1>5, <1>7, <2>1, AppendProperties
<1>12. outcome' # Thrown
  BY <1>5, Failures
<1>13. /\ datagram' \in Datagram /\ outcome' \in {"parsing"} \cup Failure
       /\ buffer' = Slice(datagram'.data, bytes_parsed', Len(datagram'.data))
       /\ bytes_parsed' \in 0 .. Len(datagram'.data)
  BY <1>2, <1>3, <1>5, <1>7, <1>8, <1>10
<1> QED BY <1>8, <1>10, <1>11, <1>12, <1>13 DEF ParsedInv

LEMMA ParsedFinish ==
  ParsedInv /\ Finish => ParsedInv'
<1>1. SUFFICES ASSUME ParsedInv, Finish PROVE ParsedInv'
  OBVIOUS
<1>2. /\ outcome = "parsing" /\ outcome' \in Failure
      /\ requests' = IF outcome' = Thrown THEN << >> ELSE requests
      /\ datagram' = datagram /\ buffer' = buffer /\ bytes_parsed' = bytes_parsed
  BY <1>1 DEF Finish
<1>3. outcome # Thrown
  BY <1>2, Failures
<1>4. requests' \in Seq(RespRequest) /\ (requests' = << >> <=> bytes_parsed = 0 \/ outcome' = Thrown)
  BY <1>1, <1>2, <1>3, EmptySeq DEF ParsedInv
<1> QED BY <1>1, <1>2, <1>4 DEF ParsedInv

LEMMA ParsedIsInvariant == Spec => []ParsedInv
<1>1. ParsedInv /\ UNCHANGED vars => ParsedInv'
  BY DEF ParsedInv, vars
<1>2. ParsedInv /\ [Next]_vars => ParsedInv'
  BY <1>1, ParsedNextRequest, ParsedFinish DEF Next
<1> QED BY <1>2, ParsedInit, PTL DEF Spec

\* Parsing goes through the datagram from its front to its end: what is left is
\* always the end of what arrived, and bytes_parsed is 0 exactly until a request
\* has been read, or an exception has taken the requests away.
THEOREM TypeCorrect == Spec => []TypeOK
<1>1. ParsedInv => TypeOK
  <2>1. SUFFICES ASSUME ParsedInv PROVE TypeOK
    OBVIOUS
  <2>2. PICK data \in Seq(STRING) : data = datagram.data
    BY <2>1, RespAssumption DEF ParsedInv
  <2>3. PICK L \in Nat : L = Len(data) /\ L \in 0 .. Len(data) /\ data = Slice(data, 0, L)
    BY WholeSlice
  <2>4. PICK p \in 0 .. L : p = bytes_parsed /\ buffer = Slice(data, p, L)
    BY <2>1, <2>2, <2>3 DEF ParsedInv
  <2>5. Len(buffer) = L - p
    <3>1. L \in 0 .. Len(data)
      BY <2>3
    <3> QED BY <2>4, <3>1, SliceProperties
  <2>6. L - Len(buffer) = p /\ p \in 0 .. p
    BY <2>5
  <2>7. Rest(data, p) = Slice(data, p, L)
    <3>1. 0 \in 0 .. L /\ p \in 0 .. L - 0 /\ 0 + p = p
      OBVIOUS
    <3>2. Rest(Slice(data, 0, L), p) = Slice(data, 0 + p, L)
      BY <2>3, <3>1, RestOfSlice
    <3> QED BY <2>3, <3>1, <3>2
  <2>8. buffer = Rest(datagram.data, Len(datagram.data) - Len(buffer))
    BY <2>2, <2>3, <2>4, <2>6, <2>7
  <2>9. bytes_parsed \in 0 .. Len(datagram.data) - Len(buffer)
    BY <2>2, <2>3, <2>4, <2>6
  <2> QED BY <2>1, <2>8, <2>9 DEF ParsedInv, TypeOK
<1> QED BY <1>1, ParsedIsInvariant, PTL

\* Nothing has been read, or what arrived was one request, whole and alone, and
\* it has been read.
NothingRead ==
  /\ requests = << >> /\ bytes_parsed = 0
  /\ outcome # "parsing" => ~(Whole /\ Len(datagram.written) = 1)

OneRead ==
  /\ datagram.written # << >> /\ datagram.written[1] \in Request
  /\ datagram.data = Encoded(datagram.written[1])
  /\ requests = <<datagram.written[1]>> /\ bytes_parsed = Len(datagram.data)
  /\ outcome \in {"parsing", Incomplete}

ReadInv == ParsedInv /\ (NothingRead \/ OneRead)

\* The first try to read a request.
LEMMA FirstTry ==
  ASSUME ParsedInv, NothingRead, NEW parsed, parsed = ParseRequest(buffer)
  PROVE  /\ datagram.written \in Seq(Request)
         /\ \/ parsed.value \in Failure /\ ~(Whole /\ Len(datagram.written) = 1)
            \/ /\ datagram.written # << >> /\ datagram.written[1] \in Request
               /\ datagram.data = Encoded(datagram.written[1]) /\ parsed.value = datagram.written[1]
               /\ Len(parsed.rest) = 0
<1>1. datagram \in Datagram /\ datagram.data \in Seq(STRING)
  BY RespAssumption DEF ParsedInv
<1>2. buffer = datagram.data
  BY <1>1, WholeSlice DEF ParsedInv, NothingRead
<1>3. parsed = ParseRequest(datagram.data)
  BY <1>2
<1> QED BY <1>1, <1>3, ArrivalRead DEF Whole

\* There is no second request.
LEMMA SecondTry ==
  ASSUME ParsedInv, OneRead, NEW parsed, parsed = ParseRequest(buffer)
  PROVE  parsed.value = Incomplete
<1>1. PICK data \in Seq(STRING) : data = datagram.data
  BY RespAssumption DEF ParsedInv
<1>2. PICK L \in Nat : L = Len(data) /\ L \in 0 .. Len(data) /\ L \in 0 .. L
  BY LenProperties
<1>3. buffer = << >>
  <2>1. buffer = Slice(data, L, L)
    BY <1>1, <1>2 DEF ParsedInv, OneRead
  <2> QED BY <1>2, <2>1, HeadTailOfSlice
<1>4. PICK argc : argc = ParseNum("*", buffer) /\ parsed = AfterCount(argc)
  BY DEF ParseRequest
<1>5. argc = [value |-> Incomplete, rest |-> buffer]
  BY <1>3, <1>4 DEF ParseNum
<1>6. argc.value = Incomplete
  BY <1>5
<1> QED BY <1>4, <1>6, Failures DEF AfterCount

LEMMA ReadNext ==
  ReadInv /\ [Next]_vars => ReadInv'
<1>1. SUFFICES ASSUME ReadInv, [Next]_vars PROVE ReadInv'
  OBVIOUS
<1>2. ParsedInv /\ ParsedInv'
  <2>1. ParsedInv /\ UNCHANGED vars => ParsedInv'
    BY DEF ParsedInv, vars
  <2> QED BY <1>1, <2>1, ParsedNextRequest, ParsedFinish DEF ReadInv, Next
<1>3. PICK parsed : parsed = ParseRequest(buffer)
  OBVIOUS
<1>4. CASE NextRequest
  <2>1. /\ outcome = "parsing" /\ outcome' = outcome /\ datagram' = datagram
        /\ parsed.value \notin Failure /\ requests' = Append(requests, parsed.value)
        /\ buffer' = parsed.rest /\ bytes_parsed' = Len(datagram.data) - Len(buffer')
    BY <1>3, <1>4 DEF NextRequest
  <2>2. CASE NothingRead
    <3>1. /\ datagram.written # << >> /\ datagram.written[1] \in Request
          /\ datagram.data = Encoded(datagram.written[1]) /\ parsed.value = datagram.written[1]
      BY <1>2, <1>3, <2>1, <2>2, FirstTry
    <3>2. requests' = <<datagram.written[1]>>
      BY <2>1, <2>2, <3>1 DEF NothingRead
    <3>3. bytes_parsed' = Len(datagram.data)
      <4>1. datagram \in Datagram
        BY <1>2 DEF ParsedInv
      <4>2. Len(buffer') = 0
        BY <1>2, <1>3, <2>1, <2>2, FirstTry
      <4>3. Len(datagram.data) \in Nat
        BY <4>1, RespAssumption, LenProperties
      <4> QED BY <2>1, <4>2, <4>3
    <3>4. OneRead'
      BY <2>1, <3>1, <3>2, <3>3 DEF OneRead
    <3> QED BY <1>2, <3>4 DEF ReadInv
  <2>3. CASE OneRead
    <3>1. parsed.value = Incomplete
      BY <1>2, <1>3, <2>3, SecondTry
    <3> QED BY <2>1, <3>1, Failures
  <2> QED BY <1>1, <2>2, <2>3 DEF ReadInv
<1>5. CASE Finish
  <2>1. /\ outcome = "parsing" /\ outcome' = parsed.value /\ parsed.value \in Failure
        /\ requests' = IF parsed.value = Thrown THEN << >> ELSE requests
        /\ datagram' = datagram /\ bytes_parsed' = bytes_parsed
    BY <1>3, <1>5 DEF Finish
  <2>2. CASE NothingRead
    <3>1. ~(Whole /\ Len(datagram.written) = 1)
      <4>1. SUFFICES ASSUME Whole, Len(datagram.written) = 1 PROVE FALSE
        OBVIOUS
      <4>2. parsed.value \in RespRequest
        BY <1>2, <1>3, <2>2, <4>1, FirstTry, WrittenTypes
      <4> QED BY <2>1, <4>2, Failures
    <3>2. NothingRead'
      BY <2>1, <2>2, <3>1 DEF NothingRead, Whole
    <3> QED BY <1>2, <3>2 DEF ReadInv
  <2>3. CASE OneRead
    <3>1. parsed.value = Incomplete
      BY <1>2, <1>3, <2>3, SecondTry
    <3>2. requests' = requests /\ outcome' = Incomplete
      BY <2>1, <3>1, Failures
    <3>3. OneRead'
      BY <2>1, <2>3, <3>2 DEF OneRead
    <3> QED BY <1>2, <3>3 DEF ReadInv
  <2> QED BY <1>1, <2>2, <2>3 DEF ReadInv
<1>6. CASE UNCHANGED vars
  BY <1>1, <1>2, <1>6 DEF ReadInv, NothingRead, OneRead, Whole, vars
<1> QED BY <1>1, <1>4, <1>5, <1>6 DEF Next

LEMMA ReadIsInvariant == Spec => []ReadInv
<1>1. Init => ReadInv
  <2>1. Init => NothingRead
    BY DEF Init, NothingRead
  <2> QED BY <2>1, ParsedInit DEF ReadInv
<1> QED BY <1>1, ReadNext, PTL DEF Spec

\* Wherever libuv cuts a datagram, the requests that parse returns are the first
\* ones that were written, whole, and bytes_parsed is their length: no number,
\* string or list of arguments is ever taken shorter than it was.
THEOREM CutNeverShortens == Spec => []PrefixSafe
<1>1. ReadInv => PrefixSafe
  <2>1. SUFFICES ASSUME ReadInv, outcome = Incomplete
                 PROVE  IsPrefix(requests, datagram.written) /\ bytes_parsed = Len(EncodedAll(requests))
    BY DEF PrefixSafe
  <2>2. PICK written \in Seq(Request) : written = datagram.written
    BY <2>1, ArrivalRead DEF ReadInv, ParsedInv
  <2>3. PICK n \in Nat : n = Len(written)
    BY LenProperties
  <2>4. CASE NothingRead
    <3>1. requests = << >> /\ bytes_parsed = 0 /\ Len(<< >>) = 0
      BY <2>4 DEF NothingRead
    <3>2. Len(EncodedAll(<< >>)) = 0
      BY DEF EncodedAll, FlattenSeq
    <3>3. IsPrefix(<< >>, written)
      <4>1. << >> \in Seq(Request) /\ 0 \in 0 .. Len(written)
        BY <2>3, EmptySeq
      <4>2. << >> = Slice(written, 0, 0)
        BY <4>1, HeadTailOfSlice
      <4> QED BY <4>1, <4>2, PrefixSlice
    <3> QED BY <2>2, <3>1, <3>2, <3>3
  <2>5. CASE OneRead
    <3>1. PICK first \in Request : /\ first = written[1] /\ written # << >> /\ requests = <<first>>
                                   /\ bytes_parsed = Len(Encoded(first))
      BY <2>2, <2>5 DEF OneRead
    <3>2. PICK one \in Seq(Request) : one = <<first>> /\ Len(one) = 1 /\ one[1] = first
      BY SingleProperties
    <3>3. PICK W \in Seq(STRING) : W = EncodedAll(one)
      BY EncodedAllForm
    <3>4. one # << >>
      BY <3>2
    <3>5. FirstIs(W, one, Len(Encoded(one[1])))
      BY <3>3, <3>4, FirstRequest
    <3>6. Len(Encoded(first)) = Len(EncodedAll(requests))
      BY <3>1, <3>2, <3>3, <3>5 DEF FirstIs
    <3>7. IsPrefix(one, written)
      <4>1. n # 0 /\ 1 \in 0 .. Len(written) /\ 0 \in 0 .. 1
        BY <2>3, <3>1, EmptySeq
      <4>2. one = Slice(written, 0, 1)
        <5>1. PICK m, z : m = 1 /\ z = 0
          OBVIOUS
        <5>2. m \in 0 .. Len(written) /\ z \in 0 .. m /\ Len(one) = m - z
          BY <3>2, <4>1, <5>1
        <5>3. \A i \in 1 .. m - z : one[i] = written[z + i]
          BY <3>1, <3>2, <5>1
        <5>4. one = Slice(written, z, m)
          BY <5>2, <5>3, IsSlice
        <5> QED BY <5>1, <5>4
      <4> QED BY <3>2, <4>1, <4>2, PrefixSlice
    <3> QED BY <2>2, <3>1, <3>2, <3>6, <3>7
  <2> QED BY <2>1, <2>4, <2>5 DEF ReadInv
<1> QED BY <1>1, ReadIsInvariant, PTL

\* A request that arrives alone and whole is understood, although parse looks for
\* one argument more than there are.
THEOREM AloneUnderstood == Spec => []SingleUnderstood
<1>1. ReadInv => SingleUnderstood
  <2>1. SUFFICES ASSUME ReadInv, outcome # "parsing", Whole, Len(datagram.written) = 1
                 PROVE  requests = datagram.written
    BY DEF SingleUnderstood
  <2>2. OneRead
    BY <2>1 DEF ReadInv, NothingRead
  <2>3. PICK written \in Seq(Request) : written = datagram.written
    BY <2>1, ArrivalRead DEF ReadInv, ParsedInv
  <2>4. PICK one \in Seq(Request) : one = <<written[1]>> /\ Len(one) = 1 /\ one[1] = written[1]
    BY <2>2, <2>3, SingleProperties DEF OneRead
  <2>5. one = written
    <3>1. \A i \in 1 .. 1 : i = 1
      OBVIOUS
    <3> QED BY <2>1, <2>3, <2>4, <3>1, SeqEqual
  <2> QED BY <2>2, <2>3, <2>4, <2>5 DEF OneRead
<1> QED BY <1>1, ReadIsInvariant, PTL
==============================================================================
