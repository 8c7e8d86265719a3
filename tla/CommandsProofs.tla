---------------------------- MODULE CommandsProofs ----------------------------
(***************************************************************************)
(* Proofs that the commands keep the state of a process well-formed and    *)
(* pass on one ack for every ping-req, for every set of members, requests  *)
(* and numbers, as long as the process lives.                              *)
(***************************************************************************)
EXTENDS Commands, Integers, FiniteSetTheorems, SequenceTheorems, TLAPS

Pend == INSTANCE PendingListsProofs
          WITH Task <- PingReqTask, IdOf <- TaskId, MaxTime <- 0

Known == {known \in [Id -> Node \cup {None}] : \A id \in Id : known[id] # None => known[id].id = id}

Asked(pair) == {task \in added : <<task.peer, task.dest>> = pair}

\* asks counts the tasks that were added, acks never overtakes it, and the
\* number of a new task is not in use.
TasksCounted ==
  /\ IsFiniteSet(added) /\ Cardinality(added) <= MaxTasks
  /\ \A task \in added : task.number <= Cardinality(added)
  /\ asks \in [Id \X Id -> Nat] /\ acks \in [Id \X Id -> Nat]
  /\ \A a, b \in Id : /\ asks[<<a, b>>] = Cardinality(Asked(<<a, b>>))
                      /\ acks[<<b, a>>] <= asks[<<a, b>>]

\* Which way the acks really go: one for b in the name of a for each ping-req of
\* a about b, unless that still waits.
AcksCounted ==
  running => \A a, b \in Id :
    asks[<<a, b>>] = acks[<<b, a>>] + Cardinality(Waiting(<<a, b>>))

IInv ==
  /\ view \in Known
  /\ Pend!IInv
  /\ running \in BOOLEAN
  /\ sent \in Seq(Message)
  /\ TasksCounted
  /\ AcksCounted

------------------------------------------------------------------------------
(* What PendingListsProofs assumes, of its induction and its loops too.    *)

\* A task is filed under its peer.
LEMMA TaskAssumption ==
  /\ TaskId \in [PingReqTask -> Id] /\ Null \notin PingReqTask
  /\ \A task \in PingReqTask :
       /\ task.dest \in Id /\ task.peer \in Id /\ task.number \in Nat
       /\ TaskId[task] = task.peer
<1>1. \A task \in PingReqTask : task \in [dest : Id, peer : Id, number : Nat]
  BY CommandsAssumption DEF PingReqTask
<1>2. Null \notin PingReqTask
  BY <1>1, CommandsAssumption
<1>3. \A task \in PingReqTask :
        task.dest \in Id /\ task.peer \in Id /\ task.number \in Nat
  BY <1>1
<1> QED BY <1>2, <1>3 DEF TaskId

------------------------------------------------------------------------------
(* What parsing accepts.                                                   *)

Token == Statuses \cup {Unknown}

\* A node that is read is a node, and the iterator moves on, at most to the end.
LEMMA ParsedNode ==
  ASSUME NEW request \in Request, NEW type \in {"self", "peer", "rumor"},
         NEW args, args = request.args, NEW beyond \in Token,
         NEW first \in 1 .. Len(args) + 1, NEW parsed,
         parsed = ParseNode(type, args, first, beyond), parsed # Error
  PROVE  /\ args \in Seq(STRING) /\ Len(args) \in Nat /\ Fields(type, args, first)
         /\ parsed.node \in Node /\ \E status \in Statuses : parsed.node = NodeAt(args, first, status)
         /\ parsed.first \in first + 1 .. Len(args) + 1 /\ parsed.first \in {first + 5, first + 6}
<1>1. request \in [name : STRING, args : Seq(STRING)]
  BY CommandsAssumption
<1>2. args \in Seq(STRING) /\ Len(args) \in Nat /\ DOMAIN args = 1 .. Len(args)
  BY <1>1, LenProperties
<1>3. Fields(type, args, first)
  BY DEF ParseNode
<1>4. first \in Nat /\ first >= 1 /\ first + 4 <= Len(args) /\ first \in DOMAIN args
  <2>1. first + 4 <= Len(args)
    BY <1>3 DEF Fields
  <2> QED BY <1>2, <2>1
<1>5. NodeAt(args, first, Alive) \in Node
  <2>1. args[first + 1] \in Id /\ Number[args[first + 4]] \in Version
    BY <1>3, <1>4, CommandsAssumption
  <2> QED BY <2>1 DEF NodeAt, Node
<1>6. \A status \in Statuses : NodeAt(args, first, status) \in Node
  BY <1>5 DEF NodeAt, Node, Statuses
<1>7. PICK status : status = IF first + 4 < Len(args) THEN Peek(args, first, beyond) ELSE Alive
  OBVIOUS
<1>8. status \in Token /\ (status = Unknown => first + 4 < Len(args))
  BY <1>7 DEF Peek, ParseStatus, Token, Statuses, Unknown, Alive, Suspected, Failed
<1>9. CASE status = Unknown
  <2>1. parsed = [node |-> NodeAt(args, first, Alive), first |-> first + 6]
    BY <1>3, <1>7, <1>9 DEF ParseNode
  <2>2. Alive \in Statuses
    BY DEF Statuses
  <2> QED BY <1>2, <1>3, <1>4, <1>5, <1>8, <1>9, <2>1, <2>2
<1>10. CASE status # Unknown
  <2>1. parsed = [node |-> NodeAt(args, first, status), first |-> first + 5]
    BY <1>3, <1>7, <1>10 DEF ParseNode
  <2>2. status \in Statuses
    BY <1>8, <1>10 DEF Token
  <2> QED BY <1>2, <1>3, <1>4, <1>6, <2>1, <2>2
<1> QED BY <1>9, <1>10

\* An iteration of the loop over the rumors, which runs from the end to the front.
RumorStep(args, beyond, from, i) ==
  LET parsed == ParseNode("rumor", args, i, beyond)
  IN  IF i > Len(args) THEN << >>
      ELSE IF parsed = Error \/ from[parsed.first] = Error THEN Error
      ELSE <<parsed.node>> \o from[parsed.first]

RumorLoop(from, args, beyond, first) ==
  from = [i \in first .. Len(args) + 1 |-> RumorStep(args, beyond, from, i)]

\* The loop is well defined: an iteration depends on later positions only.
LEMMA RumorsLoop ==
  ASSUME NEW request \in Request, NEW args, args = request.args, NEW beyond \in Token,
         NEW first \in 1 .. Len(args) + 1
  PROVE  \E from : RumorLoop(from, args, beyond, first) /\ ParseRumors(args, first, beyond) = from[first]
<1> DEFINE Parsed(i) == ParseNode("rumor", args, i, beyond)
           Step(f, i) == RumorStep(args, beyond, f, i)
<1>1. PICK L \in Nat : L = Len(args)
  <2>1. request \in [name : STRING, args : Seq(STRING)]
    BY CommandsAssumption
  <2> QED BY <2>1, LenProperties
<1>2. first \in Nat /\ first >= 1 /\ first <= L + 1
  BY <1>1
<1>3. ASSUME NEW i \in first .. L, Parsed(i) # Error
      PROVE  Parsed(i).node \in Node /\ Parsed(i).first \in i + 1 .. L + 1
  <2>1. i \in 1 .. Len(args) + 1
    BY <1>1, <1>2
  <2>2. PICK parsed : parsed = ParseNode("rumor", args, i, beyond)
    OBVIOUS
  <2> QED BY <1>1, <1>3, <2>1, <2>2, ParsedNode
<1>4. ASSUME NEW i \in first .. L + 1, NEW f, NEW g, \A j \in i + 1 .. L + 1 : f[j] = g[j]
      PROVE  Step(f, i) = Step(g, i)
  <2>1. CASE i > Len(args)
    BY <2>1 DEF RumorStep
  <2>2. CASE ~(i > Len(args)) /\ Parsed(i) = Error
    BY <2>2 DEF RumorStep
  <2>3. CASE ~(i > Len(args)) /\ Parsed(i) # Error
    <3>1. i \in first .. L
      BY <1>1, <1>2, <2>3
    <3>2. f[Parsed(i).first] = g[Parsed(i).first]
      BY <1>3, <1>4, <2>3, <3>1
    <3> QED BY <3>2 DEF RumorStep
  <2> QED BY <2>1, <2>2, <2>3
<1> HIDE DEF Step
<1>6. \E f : f = [i \in first .. L + 1 |-> Step(f, i)]
  <2> DEFINE T == {n \in Nat : n <= L + 1 - first =>
                     \E f : f = [i \in L + 1 - n .. L + 1 |-> Step(f, i)]}
  <2>1. 0 \in T
    <3>1. PICK f : f = [i \in L + 1 .. L + 1 |-> Step(<< >>, i)]
      OBVIOUS
    <3>2. Step(<< >>, L + 1) = Step(f, L + 1)
      <4>1. L + 1 \in first .. L + 1 /\ \A j \in (L + 1) + 1 .. L + 1 : FALSE
        BY <1>2
      <4> QED BY <1>4, <4>1
    <3>3. \A i \in L + 1 .. L + 1 : i = L + 1
      OBVIOUS
    <3>4. f = [i \in L + 1 .. L + 1 |-> Step(f, i)]
      BY <3>1, <3>2, <3>3
    <3>5. L + 1 - 0 = L + 1
      OBVIOUS
    <3> QED BY <3>4, <3>5
  <2>2. ASSUME NEW n \in T PROVE n + 1 \in T
    <3>1. SUFFICES ASSUME n + 1 <= L + 1 - first
                   PROVE  \E f : f = [i \in L + 1 - (n + 1) .. L + 1 |-> Step(f, i)]
      OBVIOUS
    <3>2. PICK low \in Nat : low = L + 1 - (n + 1)
      BY <1>2, <3>1
    <3>3. n \in Nat /\ L + 1 - n = low + 1 /\ n <= L + 1 - first /\ low >= first /\ low <= L
      BY <1>2, <3>1, <3>2
    <3>4. PICK f : f = [i \in low + 1 .. L + 1 |-> Step(f, i)]
      BY <3>3
    <3>5. PICK g : g = [i \in low .. L + 1 |-> IF i = low THEN Step(f, low) ELSE f[i]]
      OBVIOUS
    <3>6. \A j \in low + 1 .. L + 1 : g[j] = f[j]
      <4>1. \A j \in low + 1 .. L + 1 : j \in low .. L + 1 /\ j # low
        OBVIOUS
      <4> QED BY <3>5, <4>1
    <3>7. ASSUME NEW i \in low .. L + 1
          PROVE  g[i] = Step(g, i)
      <4>1. \A j \in i + 1 .. L + 1 : j \in low + 1 .. L + 1
        OBVIOUS
      <4>2. i \in first .. L + 1
        BY <1>2, <3>3
      <4>3. Step(f, i) = Step(g, i)
        BY <1>4, <3>6, <4>1, <4>2
      <4>4. CASE i = low
        BY <3>5, <4>3, <4>4
      <4>5. CASE i # low
        <5>1. i \in low + 1 .. L + 1
          BY <4>5
        <5> QED BY <3>4, <3>6, <4>3, <5>1
      <4> QED BY <4>4, <4>5
    <3>8. g = [i \in low .. L + 1 |-> Step(g, i)]
      BY <3>5, <3>7
    <3> QED BY <3>2, <3>8
  <2>3. T \in SUBSET Nat
    OBVIOUS
  <2> HIDE DEF T
  <2>4. T = Nat
    BY <2>1, <2>2, <2>3, TaskAssumption, Pend!NatSetInduction
  <2>5. L + 1 - first \in T
    BY <1>2, <2>4
  <2>6. L + 1 - (L + 1 - first) = first
    BY <1>2
  <2> QED BY <2>5, <2>6 DEF T
<1>7. PICK from : /\ from = (CHOOSE f : f = [i \in first .. Len(args) + 1 |-> Step(f, i)])
                  /\ ParseRumors(args, first, beyond) = from[first]
  BY DEF ParseRumors, Step, RumorStep
<1>8. from = [i \in first .. L + 1 |-> Step(from, i)]
  BY <1>1, <1>6, <1>7
<1>9. RumorLoop(from, args, beyond, first)
  BY <1>1, <1>8 DEF Step, RumorLoop
<1> QED BY <1>7, <1>9

\* What a node says is in the list, in some status.
Taken(rumors, args, i) ==
  \E k \in 1 .. Len(rumors), status \in Statuses : rumors[k] = NodeAt(args, i, status)

\* Between a node that is read and the next one, no other one begins.
LEMMA NothingBetween ==
  ASSUME NEW args \in Seq(STRING), Apart(args), NEW first \in Nat, NEW next \in {first + 5, first + 6},
         NEW type \in {"self", "peer", "rumor"}, Fields(type, args, first), first >= 1,
         next > Len(args) \/ \E other \in {"peer", "rumor"} : Fields(other, args, next),
         NEW i \in Nodes(args, {"self", "rumor"}), i > first
  PROVE  i >= next
<1> DEFINE all == Nodes(args, {"self", "peer", "rumor"})
<1>1. Len(args) \in Nat /\ DOMAIN args = 1 .. Len(args)
  BY LenProperties
<1>2. \A j \in all : j \in Nat /\ j >= 1 /\ j + 4 <= Len(args)
  BY <1>1 DEF Nodes, Fields
<1>3. i \in all /\ first \in all
  <2>1. first + 4 <= Len(args)
    BY DEF Fields
  <2>2. first \in DOMAIN args
    BY <1>1, <2>1
  <2> QED BY <2>2 DEF Nodes
<1>4. i >= first + 5
  BY <1>2, <1>3 DEF Apart
<1>5. SUFFICES ASSUME i = first + 5, next = first + 6 PROVE FALSE
  BY <1>2, <1>3, <1>4
<1>6. CASE next > Len(args)
  BY <1>1, <1>2, <1>3, <1>5, <1>6
<1>7. CASE \E other \in {"peer", "rumor"} : Fields(other, args, next)
  <2>1. next + 4 <= Len(args)
    BY <1>7 DEF Fields
  <2>2. next \in DOMAIN args
    BY <1>1, <2>1
  <2>3. next \in all
    BY <1>7, <2>2 DEF Nodes
  <2> QED BY <1>2, <1>3, <1>5, <2>3 DEF Apart
<1> QED BY <1>6, <1>7

\* The loop over the rumors reads nodes only, and leaves none out that is beyond
\* doubt.
LEMMA ParsedRumors ==
  ASSUME NEW request \in Request, NEW args, args = request.args, NEW beyond \in Token,
         NEW first \in 1 .. Len(args) + 1, NEW rumors,
         rumors = ParseRumors(args, first, beyond), rumors # Error
  PROVE  /\ rumors \in Seq(Node)
         /\ first > Len(args) \/ Fields("rumor", args, first)
         /\ Apart(args) => \A i \in Nodes(args, {"self", "rumor"}) :
                             i >= first => Taken(rumors, args, i)
<1> DEFINE Parsed(i) == ParseNode("rumor", args, i, beyond)
           Good(i, found) ==
             /\ found \in Seq(Node)
             /\ i > Len(args) \/ Fields("rumor", args, i)
             /\ Apart(args) => \A j \in Nodes(args, {"self", "rumor"}) :
                                 j >= i => Taken(found, args, j)
<1>1. PICK L \in Nat : L = Len(args) /\ args \in Seq(STRING) /\ DOMAIN args = 1 .. L
  <2>1. request \in [name : STRING, args : Seq(STRING)]
    BY CommandsAssumption
  <2> QED BY <2>1, LenProperties
<1>2. first \in Nat /\ first >= 1 /\ first <= L + 1
  BY <1>1
<1>3. PICK from : /\ from = [i \in first .. L + 1 |-> RumorStep(args, beyond, from, i)]
                  /\ rumors = from[first]
  <2>1. PICK from : RumorLoop(from, args, beyond, first) /\ rumors = from[first]
    BY RumorsLoop
  <2> QED BY <1>1, <2>1 DEF RumorLoop
<1>4. ASSUME NEW i \in first .. L + 1, from[i] # Error,
             \A j \in i + 1 .. L + 1 : from[j] # Error => Good(j, from[j])
      PROVE  Good(i, from[i])
  <2>1. i \in Nat /\ i >= 1 /\ from[i] = RumorStep(args, beyond, from, i)
    <3>1. i \in Nat /\ i >= 1
      BY <1>2
    <3>2. from[i] = RumorStep(args, beyond, from, i)
      BY <1>3, Zenon
    <3> QED BY <3>1, <3>2
  <2>2. CASE i > Len(args)
    <3>1. from[i] = << >>
      BY <2>1, <2>2 DEF RumorStep
    <3>2. \A j \in Nodes(args, {"self", "rumor"}) : j \in 1 .. L
      BY <1>1 DEF Nodes
    <3>3. \A j \in 1 .. L : ~(j >= i)
      <4>1. i \in Nat /\ i > L
        BY <1>1, <2>1, <2>2, Zenon
      <4> QED BY <4>1
    <3> QED BY <2>2, <3>1, <3>2, <3>3, EmptySeq
  <2>3. CASE ~(i > Len(args))
    <3>1. PICK parsed : parsed = ParseNode("rumor", args, i, beyond)
      OBVIOUS
    <3>2. /\ parsed # Error /\ from[parsed.first] # Error
          /\ from[i] = <<parsed.node>> \o from[parsed.first]
      BY <1>4, <2>1, <2>3, <3>1 DEF RumorStep
    <3>3. /\ Fields("rumor", args, i) /\ parsed.node \in Node
          /\ \E status \in Statuses : parsed.node = NodeAt(args, i, status)
          /\ parsed.first \in i + 1 .. L + 1 /\ parsed.first \in {i + 5, i + 6}
      <4>1. i \in 1 .. Len(args) + 1
        BY <1>1, <2>1
      <4> QED BY <1>1, <3>1, <3>2, <4>1, ParsedNode
    <3>4. PICK next \in i + 1 .. L + 1 : next = parsed.first
      BY <3>3
    <3>5. Good(next, from[next])
      <4>1. next \in i + 1 .. L + 1 /\ from[next] # Error
        BY <3>2, <3>4
      <4> HIDE DEF Good
      <4> QED BY <1>4, <4>1
    <3>6. PICK node \in Node, rest \in Seq(Node) : node = parsed.node /\ rest = from[next]
      BY <3>3, <3>5
    <3>7. from[i] = <<node>> \o rest
      BY <3>2, <3>4, <3>6
    <3>8. /\ <<node>> \o rest \in Seq(Node) /\ Len(rest) \in Nat
          /\ Len(<<node>> \o rest) = Len(rest) + 1
          /\ (<<node>> \o rest)[1] = node
          /\ \A k \in 1 .. Len(rest) : (<<node>> \o rest)[k + 1] = rest[k]
      OBVIOUS
    <3>9. ASSUME Apart(args), NEW j \in Nodes(args, {"self", "rumor"}), j >= i
          PROVE  Taken(<<node>> \o rest, args, j)
      <4>1. CASE j = i
        <5>1. 1 \in 1 .. Len(<<node>> \o rest)
          BY <3>8
        <5> QED BY <3>3, <3>6, <3>8, <4>1, <5>1 DEF Taken
      <4>2. CASE j # i
        <5>1. j \in 1 .. L /\ j > i
          BY <1>1, <2>1, <3>9, <4>2 DEF Nodes
        <5>2. next > Len(args) \/ \E other \in {"peer", "rumor"} : Fields(other, args, next)
          BY <3>5
        <5>3. j >= next
          BY <1>1, <2>1, <3>3, <3>4, <3>9, <5>1, <5>2, NothingBetween
        <5>4. Taken(rest, args, j)
          BY <3>5, <3>6, <3>9, <5>3
        <5>5. PICK k \in 1 .. Len(rest), status \in Statuses : rest[k] = NodeAt(args, j, status)
          BY <5>4 DEF Taken
        <5>6. k + 1 \in 1 .. Len(<<node>> \o rest)
          BY <3>8
        <5> QED BY <3>8, <5>5, <5>6 DEF Taken
      <4> QED BY <4>1, <4>2
    <3> QED BY <3>3, <3>7, <3>8, <3>9
  <2> QED BY <2>2, <2>3
<1> HIDE DEF Good
<1>5. \A i \in first .. L + 1 : from[i] # Error => Good(i, from[i])
  <2> DEFINE T == {n \in Nat : \A i \in first .. L + 1 :
                     i >= L + 1 - n /\ from[i] # Error => Good(i, from[i])}
  <2>1. ASSUME NEW n \in Nat,
               \A i \in first .. L + 1 : i > L + 1 - n /\ from[i] # Error => Good(i, from[i])
        PROVE  n \in T
    <3>1. ASSUME NEW i \in first .. L + 1, i >= L + 1 - n, from[i] # Error
          PROVE  Good(i, from[i])
      <4>1. \A j \in i + 1 .. L + 1 : j \in first .. L + 1 /\ j > L + 1 - n
        BY <1>2, <3>1
      <4> QED BY <1>4, <2>1, <3>1, <4>1
    <3> QED BY <3>1
  <2>2. 0 \in T
    BY <1>2, <2>1
  <2>3. ASSUME NEW n \in T PROVE n + 1 \in T
    <3>1. n \in Nat /\ \A i \in first .. L + 1 : i > L + 1 - (n + 1) => i >= L + 1 - n
      BY <1>2
    <3>2. \A i \in first .. L + 1 :
            i > L + 1 - (n + 1) /\ from[i] # Error => Good(i, from[i])
      BY <3>1
    <3>3. PICK m \in Nat : m = n + 1
      BY <3>1
    <3>4. m \in T
      BY <2>1, <3>2, <3>3
    <3> QED BY <3>3, <3>4
  <2>4. T \in SUBSET Nat
    OBVIOUS
  <2> HIDE DEF T
  <2>5. T = Nat
    BY <2>2, <2>3, <2>4, TaskAssumption, Pend!NatSetInduction
  <2>6. L + 1 \in T
    BY <2>5
  <2>7. \A i \in first .. L + 1 : i >= L + 1 - (L + 1)
    BY <1>2
  <2> QED BY <2>6, <2>7 DEF T
<1>6. first \in first .. L + 1
  BY <1>2
<1>7. Good(first, rumors)
  BY <1>3, <1>5, <1>6
<1> QED BY <1>7 DEF Good

\* Self is taken in after the rumors.
LEMMA TakenAppend ==
  ASSUME NEW rumors \in Seq(Node), NEW self \in Node, NEW args, NEW i,
         Taken(rumors, args, i) \/ \E status \in Statuses : self = NodeAt(args, i, status)
  PROVE  Taken(Append(rumors, self), args, i)
<1>1. PICK n \in Nat : n = Len(rumors) /\ DOMAIN rumors = 1 .. n
  BY LenProperties
<1>2. /\ Len(Append(rumors, self)) = n + 1 /\ Append(rumors, self)[n + 1] = self
      /\ \A k \in 1 .. n : Append(rumors, self)[k] = rumors[k]
  BY <1>1, AppendProperties
<1>3. n + 1 \in 1 .. n + 1 /\ \A k \in 1 .. n : k \in 1 .. n + 1
  OBVIOUS
<1> QED BY <1>1, <1>2, <1>3 DEF Taken

\* Everything that is beyond doubt in a message is among the rumors or is self.
AllTaken(args, parsed) ==
  Apart(args) => \A i \in Nodes(args, {"self", "rumor"}) :
                   Taken(Append(parsed.rumors, parsed.self), args, i)

\* What the two kinds of arguments give a command that accepts them.
LEMMA ParsedArgs ==
  ASSUME NEW request \in Request, NEW beyond \in Token, NEW args,
         args = ParseArgs(request.args, beyond), args # Error
  PROVE  args.self \in Node /\ args.rumors \in Seq(Node) /\ AllTaken(request.args, args)
<1>1. PICK self : self = ParseNode("self", request.args, 1, beyond)
  OBVIOUS
<1>2. PICK rumors : rumors = ParseRumors(request.args, self.first, beyond)
  OBVIOUS
<1>3. self # Error /\ rumors # Error /\ args = [self |-> self.node, rumors |-> rumors]
  BY <1>1, <1>2 DEF ParseArgs
<1>4. request.args \in Seq(STRING) /\ 1 \in 1 .. Len(request.args) + 1
      /\ DOMAIN request.args = 1 .. Len(request.args) /\ Len(request.args) \in Nat
  <2>1. request \in [name : STRING, args : Seq(STRING)]
    BY CommandsAssumption
  <2>2. Len(request.args) \in Nat
    BY <2>1, LenProperties
  <2> QED BY <2>1, <2>2, LenProperties
<1>5. /\ self.node \in Node /\ self.first \in 1 + 1 .. Len(request.args) + 1
      /\ self.first \in {1 + 5, 1 + 6} /\ Fields("self", request.args, 1)
      /\ \E status \in Statuses : self.node = NodeAt(request.args, 1, status)
  <2>1. PICK tokens, first : tokens = request.args /\ first = 1
    OBVIOUS
  <2>2. first \in 1 .. Len(tokens) + 1 /\ self = ParseNode("self", tokens, first, beyond) /\ self # Error
    BY <1>1, <1>3, <1>4, <2>1
  <2>3. /\ self.node \in Node /\ self.first \in first + 1 .. Len(tokens) + 1
        /\ self.first \in {first + 5, first + 6} /\ Fields("self", tokens, first)
        /\ \E status \in Statuses : self.node = NodeAt(tokens, first, status)
    BY <2>1, <2>2, ParsedNode
  <2> QED BY <2>1, <2>3
<1>6. self.first \in 1 .. Len(request.args) + 1
  BY <1>5
<1>7. /\ rumors \in Seq(Node)
      /\ self.first > Len(request.args) \/ Fields("rumor", request.args, self.first)
      /\ Apart(request.args) => \A i \in Nodes(request.args, {"self", "rumor"}) :
                                  i >= self.first => Taken(rumors, request.args, i)
  BY <1>2, <1>3, <1>6, ParsedRumors
<1>8. ASSUME Apart(request.args), NEW i \in Nodes(request.args, {"self", "rumor"})
      PROVE  Taken(Append(rumors, self.node), request.args, i)
  <2>1. i \in Nat /\ i >= 1
    BY <1>4 DEF Nodes
  <2>2. CASE i = 1
    BY <1>5, <1>7, <2>2, TakenAppend
  <2>3. CASE i # 1
    <3>1. PICK next : next = self.first
      OBVIOUS
    <3>2. i >= next
      <4>1. /\ 1 \in Nat /\ i > 1 /\ next \in {1 + 5, 1 + 6} /\ 1 >= 1
            /\ next > Len(request.args)
               \/ \E other \in {"peer", "rumor"} : Fields(other, request.args, next)
        BY <1>5, <1>7, <2>1, <2>3, <3>1
      <4> QED BY <1>4, <1>5, <1>8, <4>1, NothingBetween
    <3>3. Taken(rumors, request.args, i)
      BY <1>7, <1>8, <3>1, <3>2
    <3> QED BY <1>5, <1>7, <3>3, TakenAppend
  <2> QED BY <2>2, <2>3
<1> QED BY <1>3, <1>5, <1>7, <1>8 DEF AllTaken

LEMMA ParsedPingReqArgs ==
  ASSUME NEW request \in Request, NEW beyond \in Token, NEW args,
         args = ParsePingReqArgs(request.args, beyond), args # Error
  PROVE  /\ args.self \in Node /\ args.peer \in Node /\ args.rumors \in Seq(Node)
         /\ AllTaken(request.args, args)
<1>1. PICK self : self = ParseNode("self", request.args, 1, beyond)
  OBVIOUS
<1>2. PICK peer : peer = ParseNode("peer", request.args, self.first, beyond)
  OBVIOUS
<1>3. PICK rumors : rumors = ParseRumors(request.args, peer.first, beyond)
  OBVIOUS
<1>4. /\ self # Error /\ peer # Error /\ rumors # Error
      /\ args = [self |-> self.node, peer |-> peer.node, rumors |-> rumors]
  BY <1>1, <1>2, <1>3 DEF ParsePingReqArgs
<1>5. request.args \in Seq(STRING) /\ 1 \in 1 .. Len(request.args) + 1
      /\ DOMAIN request.args = 1 .. Len(request.args) /\ Len(request.args) \in Nat
  <2>1. request \in [name : STRING, args : Seq(STRING)]
    BY CommandsAssumption
  <2>2. Len(request.args) \in Nat
    BY <2>1, LenProperties
  <2> QED BY <2>1, <2>2, LenProperties
<1>6. /\ self.node \in Node /\ self.first \in 1 + 1 .. Len(request.args) + 1
      /\ self.first \in {1 + 5, 1 + 6} /\ Fields("self", request.args, 1)
      /\ \E status \in Statuses : self.node = NodeAt(request.args, 1, status)
  <2>1. PICK tokens, first : tokens = request.args /\ first = 1
    OBVIOUS
  <2>2. first \in 1 .. Len(tokens) + 1 /\ self = ParseNode("self", tokens, first, beyond) /\ self # Error
    BY <1>1, <1>4, <1>5, <2>1
  <2>3. /\ self.node \in Node /\ self.first \in first + 1 .. Len(tokens) + 1
        /\ self.first \in {first + 5, first + 6} /\ Fields("self", tokens, first)
        /\ \E status \in Statuses : self.node = NodeAt(tokens, first, status)
    BY <2>1, <2>2, ParsedNode
  <2> QED BY <2>1, <2>3
<1>7. self.first \in 1 .. Len(request.args) + 1
  BY <1>6
<1>8. /\ peer.node \in Node /\ peer.first \in self.first + 1 .. Len(request.args) + 1
      /\ peer.first \in {self.first + 5, self.first + 6}
      /\ Fields("peer", request.args, self.first)
  BY <1>2, <1>4, <1>7, ParsedNode
<1>9. peer.first \in 1 .. Len(request.args) + 1
  BY <1>7, <1>8
<1>10. /\ rumors \in Seq(Node)
       /\ peer.first > Len(request.args) \/ Fields("rumor", request.args, peer.first)
       /\ Apart(request.args) => \A i \in Nodes(request.args, {"self", "rumor"}) :
                                   i >= peer.first => Taken(rumors, request.args, i)
  BY <1>3, <1>4, <1>9, ParsedRumors
<1>11. ASSUME Apart(request.args), NEW i \in Nodes(request.args, {"self", "rumor"})
       PROVE  Taken(Append(rumors, self.node), request.args, i)
  <2>1. i \in Nat /\ i >= 1
    BY <1>5 DEF Nodes
  <2>2. CASE i = 1
    BY <1>6, <1>10, <2>2, TakenAppend
  <2>3. CASE i # 1
    <3>1. PICK next \in Nat : next = self.first /\ next >= 1
      BY <1>7
    <3>2. PICK past : past = peer.first
      OBVIOUS
    <3>3. i >= next
      <4>1. /\ 1 \in Nat /\ i > 1 /\ next \in {1 + 5, 1 + 6} /\ 1 >= 1
            /\ \E other \in {"peer", "rumor"} : Fields(other, request.args, next)
        BY <1>6, <1>8, <2>1, <2>3, <3>1
      <4> QED BY <1>5, <1>6, <1>11, <4>1, NothingBetween
    <3>4. i # next
      BY <1>8, <1>11, <3>1 DEF Nodes, Fields
    <3>5. i >= past
      <4>1. /\ i > next /\ past \in {next + 5, next + 6} /\ Fields("peer", request.args, next)
            /\ past > Len(request.args)
               \/ \E other \in {"peer", "rumor"} : Fields(other, request.args, past)
        BY <1>8, <1>10, <2>1, <3>1, <3>2, <3>3, <3>4
      <4> QED BY <1>5, <1>11, <3>1, <4>1, NothingBetween
    <3>6. Taken(rumors, request.args, i)
      BY <1>10, <1>11, <3>2, <3>5
    <3> QED BY <1>6, <1>10, <3>6, TakenAppend
  <2> QED BY <2>2, <2>3
<1> QED BY <1>4, <1>6, <1>8, <1>10, <1>11 DEF AllTaken

------------------------------------------------------------------------------
(* What update leaves.                                                     *)

Learned(known, rumor) ==
  IF IsNews(known, rumor) THEN [known EXCEPT ![rumor.id] = rumor] ELSE known

\* The process knows the member at least as well as the rumor does.
Knows(known, rumor) == known[rumor.id] # None /\ ~Older(known[rumor.id], rumor)

\* News of news is news, and nothing is news of itself.
LEMMA OlderOrder ==
  /\ \A a, b, c \in Node : Older(a, b) /\ Older(b, c) => Older(a, c)
  /\ \A a \in Node : ~Older(a, a)
<1>1. \A a \in Node : a.version \in Nat /\ a.status \in {Alive, Suspected, Failed}
  BY VersionAssumption DEF Node
<1>2. Alive # Suspected /\ Alive # Failed /\ Suspected # Failed
  BY DEF Alive, Suspected, Failed
<1> QED BY <1>1, <1>2 DEF Older

\* After a rumor the process knows what it says, and all that it knew.
LEMMA LearnedKnows ==
  ASSUME NEW known \in Known, NEW rumor \in Node, NEW other \in Node
  PROVE  /\ Learned(known, rumor) \in Known /\ Knows(Learned(known, rumor), rumor)
         /\ Knows(known, other) => Knows(Learned(known, rumor), other)
<1> USE DEF Known, Knows, Learned
<1>1. rumor.id \in Id /\ other.id \in Id /\ rumor # None
  BY CommandsAssumption DEF Node
<1>2. known \in [Id -> Node \cup {None}]
  OBVIOUS
<1>3. CASE IsNews(known, rumor)
  <2>1. PICK after : after = Learned(known, rumor) /\ after = [known EXCEPT ![rumor.id] = rumor]
    BY <1>3
  <2>2. after[rumor.id] = rumor /\ \A id \in Id : id # rumor.id => after[id] = known[id]
    BY <1>1, <1>2, <2>1
  <2>3. after \in Known /\ Knows(after, rumor)
    BY <1>1, <2>1, <2>2, OlderOrder
  <2>4. ASSUME Knows(known, other), other.id = rumor.id
        PROVE  Knows(after, other)
    <3>1. known[rumor.id] \in Node /\ Older(known[rumor.id], rumor)
      BY <1>1, <1>3, <2>4 DEF IsNews
    <3> QED BY <1>1, <2>2, <2>4, <3>1, OlderOrder
  <2>5. Knows(known, other) /\ other.id # rumor.id => Knows(after, other)
    BY <1>1, <2>2
  <2> QED BY <2>1, <2>3, <2>4, <2>5
<1>4. CASE ~IsNews(known, rumor)
  BY <1>4 DEF IsNews
<1> QED BY <1>3, <1>4

\* A belief is about the member it is filed under, after every rumor, and the
\* process knows in the end what each of them says.
LEMMA UpdatedKnown ==
  ASSUME view \in Known, NEW rumors \in Seq(Node)
  PROVE  /\ Updated(rumors) \in Known
         /\ \A i \in 1 .. Len(rumors) : Knows(Updated(rumors), rumors[i])
<1>1. PICK n \in Nat : n = Len(rumors)
  BY LenProperties
<1>2. \A i \in 1 .. n : rumors[i] \in Node
  BY <1>1, ElementOfSeq
<1>3. PICK step : step = [p \in Known \X (1 .. n) |-> Learned(p[1], rumors[p[2]])]
  OBVIOUS
<1>4. step \in [Known \X (1 .. n) -> Known]
  BY <1>2, <1>3, LearnedKnows
<1> DEFINE Loop(f) == f = [i \in 0 .. n |-> IF i = 0 THEN view ELSE Learned(f[i - 1], rumors[i])]
<1>5. \E f : Loop(f)
  <2>1. PICK f : Pend!IsLoop(f, Known, n, view, step)
    BY <1>4, TaskAssumption, Pend!LoopExists
  <2>2. ASSUME NEW i \in 1 .. n PROVE f[i] = Learned(f[i - 1], rumors[i])
    <3>1. f[i - 1] \in Known
      BY <2>1 DEF Pend!IsLoop
    <3> QED BY <1>3, <2>1, <3>1 DEF Pend!IsLoop
  <2>3. \A i \in 0 .. n : i = 0 \/ i \in 1 .. n
    OBVIOUS
  <2>4. Loop(f)
    <3> HIDE DEF Learned
    <3> QED BY <2>1, <2>2, <2>3 DEF Pend!IsLoop
  <2> QED BY <2>4
<1>6. PICK f : Loop(f) /\ Updated(rumors) = f[n]
  <2>1. PICK f : f = (CHOOSE g : Loop(g)) /\ Updated(rumors) = f[n]
    BY <1>1 DEF Updated, Learned
  <2> QED BY <1>5, <2>1
<1> DEFINE T == {m \in Nat : m <= n =>
                   f[m] \in Known /\ \A i \in 1 .. m : Knows(f[m], rumors[i])}
<1>7. 0 \in T
  BY <1>6
<1>8. ASSUME NEW m \in T PROVE m + 1 \in T
  <2>1. SUFFICES ASSUME m + 1 <= n
                 PROVE  f[m + 1] \in Known /\ \A i \in 1 .. m + 1 : Knows(f[m + 1], rumors[i])
    OBVIOUS
  <2>2. f[m] \in Known /\ \A i \in 1 .. m : Knows(f[m], rumors[i])
    BY <2>1
  <2>3. rumors[m + 1] \in Node /\ f[m + 1] = Learned(f[m], rumors[m + 1])
    BY <1>2, <1>6, <2>1
  <2>4. \A i \in 1 .. m + 1 : (i = m + 1 \/ i \in 1 .. m) /\ rumors[i] \in Node
    BY <1>2, <2>1
  <2> QED BY <2>2, <2>3, <2>4, LearnedKnows
<1>9. T \in SUBSET Nat
  OBVIOUS
<1> HIDE DEF T
<1>10. T = Nat
  BY <1>7, <1>8, <1>9, TaskAssumption, Pend!NatSetInduction
<1>11. f[n] \in Known /\ \A i \in 1 .. n : Knows(f[n], rumors[i])
  BY <1>10 DEF T
<1> QED BY <1>1, <1>6, <1>11

\* Forgetting keeps the rest, and forgets only what was known before, or spread
\* more than once.
LEMMA SettledKnown ==
  ASSUME NEW known \in Known, NEW builds, NEW after \in Settled(known, builds)
  PROVE  /\ after \in Known
         /\ \A id \in Id :
              \/ after[id] = known[id]
              \/ after[id] = None /\ known[id] # None
                 /\ builds > (IF known[id] = view[id] THEN 0 ELSE 1)
<1>1. PICK ids : /\ after = [id \in Id |-> IF id \in ids THEN None ELSE known[id]]
                 /\ \A id \in ids \cap Id :
                      known[id] # None /\ builds > (IF known[id] = view[id] THEN 0 ELSE 1)
  BY DEF Settled
<1> QED BY <1>1 DEF Known

\* A command that takes in all that is beyond doubt leaves the process with a
\* belief in a version no older than the message's, about every member it speaks of.
LEMMA WholeTaken ==
  ASSUME view \in Known, NEW request \in Request, Apart(request.args), NEW parsed,
         parsed.self \in Node, parsed.rumors \in Seq(Node), AllTaken(request.args, parsed),
         NEW builds, NEW after \in Settled(Updated(Append(parsed.rumors, parsed.self)), builds),
         NEW node \in SaidNodes(request.args)
  PROVE  IF after[node.id] = None THEN view[node.id] # None \/ builds > 1
         ELSE after[node.id].status # Failed => after[node.id].version >= node.version
<1>1. PICK rumors \in Seq(Node) : rumors = Append(parsed.rumors, parsed.self)
  BY AppendProperties
<1>2. PICK known \in Known : /\ known = Updated(rumors)
                             /\ \A k \in 1 .. Len(rumors) : Knows(known, rumors[k])
  BY UpdatedKnown
<1>3. PICK i \in Nodes(request.args, {"self", "rumor"}) :
        node = NodeAt(request.args, i, SaidStatus(request.args, i))
  BY DEF SaidNodes
<1>4. PICK k \in 1 .. Len(rumors), status \in Statuses : rumors[k] = NodeAt(request.args, i, status)
  BY <1>1 DEF AllTaken, Taken
<1>5. PICK rumor \in Node : /\ rumor = rumors[k] /\ rumor.id = node.id
                            /\ rumor.version = node.version
  BY <1>3, <1>4, ElementOfSeq DEF NodeAt
<1>6. node.id \in Id /\ known[node.id] # None /\ ~Older(known[node.id], rumor)
  BY <1>2, <1>5 DEF Knows, Node
<1>7. known[node.id] \in Node
  BY <1>2, <1>6 DEF Known
<1>8. known[node.id].status # Failed => known[node.id].version >= node.version
  <2>1. /\ known[node.id].version \in Nat /\ rumor.version \in Nat
        /\ known[node.id].status \in {Alive, Suspected, Failed}
        /\ rumor.status \in {Alive, Suspected, Failed}
    BY <1>7, VersionAssumption DEF Node
  <2> QED BY <1>5, <1>6, <2>1 DEF Older, Alive, Suspected, Failed
<1>9. \/ after[node.id] = known[node.id]
      \/ after[node.id] = None /\ builds > (IF known[node.id] = view[node.id] THEN 0 ELSE 1)
  BY <1>1, <1>2, <1>6, SettledKnown
<1> QED BY <1>6, <1>8, <1>9

------------------------------------------------------------------------------
(* The tasks, as the proofs about PendingLists have them.                  *)

LEMMA SameTasks ==
  /\ Tasks!Init <=> Pend!Init
  /\ Tasks!TypeOK <=> Pend!TypeOK
  /\ \A task \in PingReqTask : Tasks!Add(task) <=> Pend!Add(task)
  /\ \A id \in Id : Tasks!DoTask(id) <=> Pend!Fetch(id)
<1>1. \A s : Tasks!ToSet(s) = Pend!ToSet(s) /\ Tasks!ToSet(s) = ToSet(s)
  BY DEF Tasks!ToSet, Pend!ToSet, ToSet
<1>2. Tasks!Time = Pend!Time /\ Tasks!Entry = Pend!Entry
  BY DEF Tasks!Time, Pend!Time, Tasks!Entry, Pend!Entry
<1>3. Tasks!Init <=> Pend!Init
  BY <1>2 DEF Tasks!Init, Pend!Init
<1>4. Tasks!TypeOK <=> Pend!TypeOK
  BY <1>1, <1>2 DEF Tasks!TypeOK, Pend!TypeOK
<1>5. \A task \in PingReqTask : Tasks!Add(task) <=> Pend!Add(task)
  BY DEF Tasks!Add, Pend!Add, Tasks!Listed, Pend!Listed
<1>6. \A entry : Tasks!LeftBehind(entry) = Pend!LeftBehind(entry)
  BY DEF Tasks!LeftBehind, Pend!LeftBehind
<1>7. \A id \in Id : Tasks!DoTask(id) <=> Pend!Fetch(id)
  BY <1>1, <1>6 DEF Tasks!DoTask, Tasks!Fetch, Pend!Fetch
<1> QED BY <1>3, <1>4, <1>5, <1>7

\* What waits in a list, by its positions.
LEMMA ListIs ==
  ASSUME Pend!IInv, NEW id \in Id
  PROVE  /\ Len(task_index[id]) \in Nat /\ DOMAIN task_index[id] = 1 .. Len(task_index[id])
         /\ added \subseteq PingReqTask
         /\ \A i \in 1 .. Len(task_index[id]) : task_index[id][i].task # Null =>
              /\ task_index[id][i].task \in added /\ task_index[id][i].task.peer = id
              /\ \A j \in 1 .. Len(task_index[id]) :
                   task_index[id][i].task = task_index[id][j].task => i = j
<1>1. Pend!TypeOK /\ Pend!OneOwner /\ Pend!FiledInTime /\ now \in Pend!Time
  BY DEF Pend!IInv, Pend!TypeOK
<1>2. /\ Len(task_index[id]) \in Nat /\ DOMAIN task_index[id] = 1 .. Len(task_index[id])
      /\ \A i \in 1 .. Len(task_index[id]) : task_index[id][i] \in Pend!Entry
  <2>1. task_index[id] \in Seq(Pend!Entry)
    BY <1>1 DEF Pend!TypeOK
  <2> QED BY <2>1, LenProperties, ElementOfSeq
<1>3. added \subseteq PingReqTask
  BY <1>1 DEF Pend!TypeOK
<1>4. ASSUME NEW i \in 1 .. Len(task_index[id]), task_index[id][i].task # Null
      PROVE  /\ task_index[id][i].task \in added /\ task_index[id][i].task.peer = id
             /\ \A j \in 1 .. Len(task_index[id]) :
                  task_index[id][i].task = task_index[id][j].task => i = j
  <2>1. task_index[id][i] \in Pend!ToSet(task_index[id])
    BY <1>2 DEF Pend!ToSet
  <2>2. task_index[id][i].task \in Pend!Pending
    BY <1>4, <2>1 DEF Pend!Pending, Pend!Entries
  <2>3. task_index[id][i].task \in added
    BY <1>1, <2>2 DEF Pend!OneOwner
  <2>4. TaskId[task_index[id][i].task] = id
    BY <1>1, <1>4 DEF Pend!FiledInTime
  <2>5. task_index[id][i].task.peer = id
    BY <1>3, <2>3, <2>4, TaskAssumption
  <2>6. \A j \in 1 .. Len(task_index[id]) :
          task_index[id][i].task = task_index[id][j].task => i = j
    BY <1>1, <1>2, <1>4 DEF Pend!OneOwner
  <2> QED BY <2>3, <2>5, <2>6
<1> QED BY <1>2, <1>3, <1>4

\* A task waits under its peer.
WaitsAt(a, task) == \E i \in 1 .. Len(task_index[a]) : task_index[a][i].task = task

LEMMA WaitingIs ==
  Pend!IInv => \A a, b \in Id :
    Waiting(<<a, b>>) = {task \in added : task.peer = a /\ task.dest = b /\ WaitsAt(a, task)}
<1> SUFFICES ASSUME Pend!IInv, NEW a \in Id, NEW b \in Id
             PROVE  Waiting(<<a, b>>) =
                      {task \in added : task.peer = a /\ task.dest = b /\ WaitsAt(a, task)}
  OBVIOUS
<1>1. /\ \A id \in Id : DOMAIN task_index[id] = 1 .. Len(task_index[id])
      /\ added \subseteq PingReqTask
  BY ListIs
<1>2. \A task \in added : <<task.peer, task.dest>> = <<a, b>> <=> task.peer = a /\ task.dest = b
  OBVIOUS
<1>3. ASSUME NEW task \in added, NEW id \in Id, WaitsAt(id, task)
      PROVE  id = task.peer
  <2>1. task # Null
    BY <1>1, TaskAssumption
  <2> QED BY <1>3, <2>1, ListIs DEF WaitsAt
<1>4. Waiting(<<a, b>>) = {task \in added : /\ <<task.peer, task.dest>> = <<a, b>>
                                          /\ \E id \in Id : WaitsAt(id, task)}
  BY <1>1 DEF Waiting, WaitsAt
<1> QED BY <1>2, <1>3, <1>4

\* The same of the next state.
LEMMA WaitingIsNext ==
  ASSUME Pend!IInv'
  PROVE  \A a, b \in Id :
           Waiting(<<a, b>>)' =
             {task \in added' : task.peer = a /\ task.dest = b /\ WaitsAt(a, task)'}
<1>1. (\A a, b \in Id : Waiting(<<a, b>>) =
         {task \in added : task.peer = a /\ task.dest = b /\ WaitsAt(a, task)})'
  BY WaitingIs, PTL
<1> QED BY <1>1

------------------------------------------------------------------------------
(* The steps.                                                              *)

LEMMA InitInv == Init => IInv
<1> SUFFICES ASSUME Init PROVE IInv
  OBVIOUS
<1>1. Pend!Init
  BY SameTasks DEF Init
<1>2. 0 \in Nat
  OBVIOUS
<1>3. Pend!IInv
  BY <1>1, <1>2, TaskAssumption, Pend!InitInv
<1>4. added = {}
  BY <1>1 DEF Pend!Init
<1>5. IsFiniteSet(added) /\ Cardinality(added) = 0
  BY <1>4, FS_EmptySet
<1>6. \A pair \in Id \X Id : Asked(pair) = {} /\ Waiting(pair) = {}
  BY <1>4 DEF Asked, Waiting
<1>7. /\ asks \in [Id \X Id -> Nat] /\ acks = asks
      /\ \A pair \in Id \X Id : asks[pair] = 0
  BY DEF Init
<1>8. TasksCounted
  <2>1. IsFiniteSet(added) /\ Cardinality(added) <= MaxTasks /\ \A task \in added : FALSE
    BY <1>4, <1>5, CommandsAssumption
  <2>2. \A a, b \in Id : /\ asks[<<a, b>>] = Cardinality(Asked(<<a, b>>))
                          /\ acks[<<b, a>>] <= asks[<<a, b>>]
    BY <1>6, <1>7, FS_EmptySet
  <2> QED BY <1>7, <2>1, <2>2 DEF TasksCounted
<1>9. AcksCounted
  BY <1>6, <1>7, FS_EmptySet DEF AcksCounted
<1>10. view \in Known /\ running = TRUE /\ sent = << >>
  BY DEF Init, Known
<1> QED BY <1>3, <1>8, <1>9, <1>10, EmptySeq DEF IInv

\* A step that leaves the tasks alone keeps their counts.
LEMMA QuietTasks ==
  ASSUME IInv, UNCHANGED <<tasks, running, asks, acks>>
  PROVE  Pend!IInv' /\ TasksCounted' /\ AcksCounted' /\ running' \in BOOLEAN
<1>1. UNCHANGED Pend!vars
  BY DEF tasks, Pend!vars
<1>2. Pend!IInv'
  BY <1>1, TaskAssumption, Pend!StutterInv DEF IInv
<1>3. \A pair : Asked(pair)' = Asked(pair) /\ Waiting(pair)' = Waiting(pair)
  BY DEF tasks, Asked, Waiting
<1>4. TasksCounted'
  BY <1>3 DEF tasks, IInv, TasksCounted
<1>5. AcksCounted' /\ running' \in BOOLEAN
  BY <1>3 DEF IInv, AcksCounted
<1> QED BY <1>2, <1>4, <1>5

LEMMA PingInv ==
  ASSUME IInv, NEW request \in Request, NEW beyond \in Token, Ping(request, beyond)
  PROVE  IInv'
<1>1. PICK args : args = ParseArgs(request.args, beyond)
  OBVIOUS
<1>2. /\ args # Error /\ view' \in Settled(Updated(Append(args.rumors, args.self)), 1)
      /\ sent' = <<[name |-> "ack", dest |-> args.self.id, self |-> Me]>>
      /\ UNCHANGED <<tasks, running, asks, acks>>
  BY <1>1 DEF Ping
<1>3. args.self \in Node /\ args.self.id \in Id /\ Append(args.rumors, args.self) \in Seq(Node)
  <2>1. args.self \in Node /\ args.rumors \in Seq(Node)
    BY <1>1, <1>2, ParsedArgs
  <2> QED BY <2>1, AppendProperties DEF Node
<1>4. view' \in Known
  BY <1>2, <1>3, UpdatedKnown, SettledKnown DEF IInv
<1>5. sent' \in Seq(Message)
  BY <1>2, <1>3 DEF Message
<1> QED BY <1>2, <1>4, <1>5, QuietTasks DEF IInv, Known

LEMMA RejectedInv ==
  ASSUME IInv, NEW request, NEW beyond, Rejected(request, beyond)
  PROVE  IInv'
<1>1. sent' = << >> /\ UNCHANGED <<view, tasks, running, asks, acks>>
  BY DEF Rejected
<1> QED BY <1>1, QuietTasks, EmptySeq DEF IInv, Known

\* A ping-req is asked once more, and waits once more.
LEMMA PingReqInv ==
  ASSUME IInv, NEW request \in Request, NEW beyond \in Token, PingReq(request, beyond)
  PROVE  IInv'
<1>1. PICK args : args = ParsePingReqArgs(request.args, beyond)
  OBVIOUS
<1>2. PICK task : task = [dest |-> args.peer.id, peer |-> args.self.id,
                          number |-> Cardinality(added) + 1]
  OBVIOUS
<1>3. /\ args # Error /\ Cardinality(added) < MaxTasks
      /\ view' \in Settled(Updated(Append(args.rumors, args.self)), 1)
      /\ sent' = <<[name |-> "ping", dest |-> args.peer.id, self |-> Me]>>
      /\ Tasks!Add(task)
      /\ asks' = [asks EXCEPT ![<<args.self.id, args.peer.id>>] = @ + 1]
      /\ UNCHANGED <<running, acks>>
  BY <1>1, <1>2 DEF PingReq
<1>4. /\ args.self.id \in Id /\ args.peer.id \in Id
      /\ Append(args.rumors, args.self) \in Seq(Node)
  <2>1. args.self \in Node /\ args.peer \in Node /\ args.rumors \in Seq(Node)
    BY <1>1, <1>3, ParsedPingReqArgs
  <2> QED BY <2>1, AppendProperties DEF Node
<1>5. view' \in Known
  BY <1>3, <1>4, UpdatedKnown, SettledKnown DEF IInv
<1>6. sent' \in Seq(Message)
  BY <1>3, <1>4 DEF Message
<1>7. PICK size \in Nat : size = Cardinality(added) /\ size < MaxTasks
  BY <1>3, FS_CardinalityType DEF IInv, TasksCounted
<1>8. PICK me \in Id, you \in Id : me = args.self.id /\ you = args.peer.id
  BY <1>4
<1>9. /\ task \in PingReqTask /\ task \notin added
      /\ task.peer = me /\ task.dest = you /\ task.number = size + 1
  <2>1. size + 1 \in 1 .. MaxTasks
    BY <1>7, CommandsAssumption
  <2>2. \A other \in added : other.number <= size
    BY <1>7 DEF IInv, TasksCounted
  <2>3. task.number = size + 1
    BY <1>2, <1>7
  <2>4. task \notin added
    <3>1. ~(size + 1 <= size)
      OBVIOUS
    <3> QED BY <2>2, <2>3, <3>1
  <2> QED BY <1>2, <1>7, <1>8, <2>1, <2>3, <2>4 DEF PingReqTask
<1>10. Pend!Add(task)
  BY <1>3, <1>9, SameTasks
<1>11. Pend!IInv'
  BY <1>9, <1>10, TaskAssumption, Pend!AddInv DEF IInv
<1>12. PICK new : new.task = task
                  /\ task_index' = [task_index EXCEPT ![me] = Append(@, new)]
                  /\ new \in Pend!Entry
  <2>1. task_index' = [task_index EXCEPT ![me] = Append(@, [task |-> task, time |-> now])]
    BY <1>9, <1>10, TaskAssumption DEF Pend!Add
  <2>2. [task |-> task, time |-> now] \in Pend!Entry
    BY <1>9 DEF IInv, Pend!IInv, Pend!TypeOK, Pend!Entry
  <2> QED BY <2>1, <2>2
<1>13. added' = added \cup {task}
  BY <1>10 DEF Pend!Add
<1>14. task_index \in [Id -> Seq(Pend!Entry)]
  BY DEF IInv, Pend!IInv, Pend!TypeOK
<1>15. WaitsAt(me, task)'
       /\ \A a \in Id : \A other : other # task => (WaitsAt(a, other)' <=> WaitsAt(a, other))
  <2>1. PICK n \in Nat : n = Len(task_index[me])
    BY <1>14, LenProperties
  <2>2. /\ Len(task_index'[me]) = n + 1 /\ task_index'[me][n + 1] = new
        /\ \A i \in 1 .. n : task_index'[me][i] = task_index[me][i]
    <3>1. task_index[me] \in Seq(Pend!Entry) /\ task_index'[me] = Append(task_index[me], new)
      BY <1>12, <1>14
    <3> QED BY <1>12, <2>1, <3>1, AppendProperties
  <2>3. \A i \in 1 .. n + 1 : i \in 1 .. n \/ i = n + 1
    OBVIOUS
  <2>4. n + 1 \in 1 .. n + 1 /\ \A i \in 1 .. n : i \in 1 .. n + 1
    OBVIOUS
  <2>5. WaitsAt(me, task)'
    BY <1>12, <2>2, <2>4 DEF WaitsAt
  <2>6. ASSUME NEW other, other # task
        PROVE  WaitsAt(me, other)' <=> WaitsAt(me, other)
    BY <1>12, <2>1, <2>2, <2>3, <2>4, <2>6 DEF WaitsAt
  <2>7. ASSUME NEW a \in Id, a # me, NEW other
        PROVE  WaitsAt(a, other)' <=> WaitsAt(a, other)
    BY <1>12, <1>14, <2>7 DEF WaitsAt
  <2> QED BY <2>5, <2>6, <2>7
<1>16. ASSUME NEW a \in Id, NEW b \in Id
       PROVE  /\ Asked(<<a, b>>)' = IF a = me /\ b = you THEN Asked(<<a, b>>) \cup {task}
                                    ELSE Asked(<<a, b>>)
              /\ Waiting(<<a, b>>)' = IF a = me /\ b = you THEN Waiting(<<a, b>>) \cup {task}
                                      ELSE Waiting(<<a, b>>)
  <2>1. <<task.peer, task.dest>> = <<a, b>> <=> a = me /\ b = you
    BY <1>9
  <2>2. Asked(<<a, b>>)' = IF a = me /\ b = you THEN Asked(<<a, b>>) \cup {task}
                           ELSE Asked(<<a, b>>)
    BY <1>13, <2>1 DEF Asked
  <2>3. Waiting(<<a, b>>) =
          {other \in added : other.peer = a /\ other.dest = b /\ WaitsAt(a, other)}
    BY WaitingIs DEF IInv
  <2>4. Waiting(<<a, b>>)' =
          {other \in added \cup {task} : other.peer = a /\ other.dest = b /\ WaitsAt(a, other)'}
    BY <1>11, <1>13, WaitingIsNext
  <2>5. \A other \in added : WaitsAt(a, other)' <=> WaitsAt(a, other)
    BY <1>9, <1>15
  <2>6. CASE a = me /\ b = you
    BY <1>9, <1>15, <2>2, <2>3, <2>4, <2>5, <2>6
  <2>7. CASE ~(a = me /\ b = you)
    BY <1>9, <2>2, <2>3, <2>4, <2>5, <2>7
  <2> QED BY <2>6, <2>7
<1>17. IsFiniteSet(added)
  BY DEF IInv, TasksCounted
<1>18. ASSUME NEW a \in Id, NEW b \in Id
       PROVE  /\ Cardinality(Asked(<<a, b>>)) \in Nat /\ Cardinality(Waiting(<<a, b>>)) \in Nat
              /\ Cardinality(Asked(<<a, b>>)') =
                   Cardinality(Asked(<<a, b>>)) + (IF a = me /\ b = you THEN 1 ELSE 0)
              /\ Cardinality(Waiting(<<a, b>>)') =
                   Cardinality(Waiting(<<a, b>>)) + (IF a = me /\ b = you THEN 1 ELSE 0)
  <2>1. Asked(<<a, b>>) \subseteq added /\ Waiting(<<a, b>>) \subseteq added
    BY DEF Asked, Waiting
  <2>2. /\ IsFiniteSet(Asked(<<a, b>>)) /\ IsFiniteSet(Waiting(<<a, b>>))
        /\ Cardinality(Asked(<<a, b>>)) \in Nat /\ Cardinality(Waiting(<<a, b>>)) \in Nat
    BY <1>17, <2>1, FS_Subset, FS_CardinalityType
  <2>3. task \notin Asked(<<a, b>>) /\ task \notin Waiting(<<a, b>>)
    BY <1>9, <2>1
  <2>4. /\ Cardinality(Asked(<<a, b>>) \cup {task}) = Cardinality(Asked(<<a, b>>)) + 1
        /\ Cardinality(Waiting(<<a, b>>) \cup {task}) = Cardinality(Waiting(<<a, b>>)) + 1
    BY <2>2, <2>3, FS_AddElement
  <2>5. CASE a = me /\ b = you
    BY <1>16, <2>2, <2>4, <2>5
  <2>6. CASE ~(a = me /\ b = you)
    <3>1. Asked(<<a, b>>)' = Asked(<<a, b>>) /\ Waiting(<<a, b>>)' = Waiting(<<a, b>>)
      BY <1>16, <2>6
    <3> QED BY <2>2, <2>6, <3>1
  <2> QED BY <2>5, <2>6
<1>19. /\ asks \in [Id \X Id -> Nat] /\ acks \in [Id \X Id -> Nat] /\ asks' \in [Id \X Id -> Nat]
       /\ \A a, b \in Id : asks'[<<a, b>>] =
             asks[<<a, b>>] + (IF a = me /\ b = you THEN 1 ELSE 0)
  <2>1. PICK mine \in Id \X Id : mine = <<me, you>>
    OBVIOUS
  <2>2. /\ asks \in [Id \X Id -> Nat] /\ acks \in [Id \X Id -> Nat]
        /\ asks' = [asks EXCEPT ![mine] = @ + 1]
    BY <1>3, <1>8, <2>1 DEF IInv, TasksCounted
  <2>3. asks' \in [Id \X Id -> Nat]
        /\ \A pair \in Id \X Id : asks'[pair] = asks[pair] + (IF pair = mine THEN 1 ELSE 0)
    BY <2>2
  <2>4. \A a, b \in Id : <<a, b>> \in Id \X Id /\ (<<a, b>> = mine <=> a = me /\ b = you)
    BY <2>1
  <2> QED BY <2>2, <2>3, <2>4
<1>20. TasksCounted'
  <2>1. /\ IsFiniteSet(added') /\ Cardinality(added') = size + 1
        /\ Cardinality(added') <= MaxTasks
    <3>1. IsFiniteSet(added') /\ Cardinality(added') = size + 1
      BY <1>7, <1>9, <1>13, <1>17, FS_AddElement
    <3> QED BY <1>7, <3>1, CommandsAssumption
  <2>2. \A other \in added' : other.number <= Cardinality(added')
    <3>1. \A other \in added : other.number \in Nat /\ other.number <= size
      <4>1. added \subseteq PingReqTask
        BY DEF IInv, Pend!IInv, Pend!TypeOK
      <4> QED BY <1>7, <4>1, TaskAssumption DEF IInv, TasksCounted
    <3>2. \A k \in Nat : k <= size => k <= size + 1
      OBVIOUS
    <3> QED BY <1>9, <1>13, <2>1, <3>1, <3>2
  <2>3. ASSUME NEW a \in Id, NEW b \in Id
        PROVE  /\ asks'[<<a, b>>] = Cardinality(Asked(<<a, b>>)')
               /\ acks'[<<b, a>>] <= asks'[<<a, b>>]
    <3>1. <<a, b>> \in Id \X Id /\ <<b, a>> \in Id \X Id
      OBVIOUS
    <3>2. asks[<<a, b>>] = Cardinality(Asked(<<a, b>>)) /\ acks[<<b, a>>] <= asks[<<a, b>>]
          /\ asks[<<a, b>>] \in Nat /\ acks[<<b, a>>] \in Nat
      BY <1>19, <3>1 DEF IInv, TasksCounted
    <3> QED BY <1>3, <1>18, <1>19, <3>2
  <2> QED BY <1>3, <1>19, <2>1, <2>2, <2>3 DEF TasksCounted
<1>21. AcksCounted'
  <2>1. SUFFICES ASSUME running', NEW a \in Id, NEW b \in Id
                 PROVE  asks'[<<a, b>>] = acks'[<<b, a>>] + Cardinality(Waiting(<<a, b>>)')
    BY DEF AcksCounted
  <2>2. asks[<<a, b>>] = acks[<<b, a>>] + Cardinality(Waiting(<<a, b>>))
    BY <1>3, <2>1 DEF IInv, AcksCounted
  <2>3. asks[<<a, b>>] \in Nat /\ acks[<<b, a>>] \in Nat
    BY <1>19
  <2> QED BY <1>3, <1>18, <1>19, <2>2, <2>3
<1> QED BY <1>3, <1>5, <1>6, <1>11, <1>20, <1>21 DEF IInv, Known

\* One ack, in the name of id, for each task that waits under it: none is left out
\* or sent twice.
LEMMA CountRelayed ==
  ASSUME Pend!IInv, NEW id \in Id, NEW b \in Id,
         \A i \in 1 .. Len(task_index[id]) : task_index[id][i].task # Null
  PROVE  /\ Relayed(id) \in Seq(Message)
         /\ \A a \in Id : Count(<<b, a>>, Relayed(id)) =
              IF a = id THEN Cardinality(Waiting(<<a, b>>)) ELSE 0
<1>1. /\ Len(task_index[id]) \in Nat /\ DOMAIN task_index[id] = 1 .. Len(task_index[id])
      /\ added \subseteq PingReqTask
      /\ \A i \in 1 .. Len(task_index[id]) :
           /\ task_index[id][i].task \in added /\ task_index[id][i].task.peer = id
           /\ \A j \in 1 .. Len(task_index[id]) :
                task_index[id][i].task = task_index[id][j].task => i = j
  BY ListIs
<1>2. PICK n \in Nat : n = Len(task_index[id])
  BY <1>1
<1>3. PICK task \in [1 .. n -> added] : task = [i \in 1 .. n |-> task_index[id][i].task]
  BY <1>1, <1>2
<1>4. /\ \A i \in 1 .. n : task[i].peer = id /\ task[i] = task_index[id][i].task
      /\ \A i, j \in 1 .. n : task[i] = task[j] => i = j
  BY <1>1, <1>2, <1>3
<1>5. PICK got : got = Relayed(id)
  OBVIOUS
<1>6. got = [i \in 1 .. n |-> [name |-> "ack", dest |-> task[i].dest, self |-> task[i].peer]]
  BY <1>1, <1>2, <1>4, <1>5 DEF Relayed
<1>7. \A i \in 1 .. n : task[i].dest \in Id
  BY <1>1, <1>3, TaskAssumption
<1>8. got \in Seq(Message)
  <2>1. got \in [1 .. n -> Message]
    BY <1>4, <1>6, <1>7 DEF Message
  <2> QED BY <2>1, SeqDef
<1>9. PICK at : at = {i \in 1 .. n : task[i].dest = b}
  OBVIOUS
<1>10. ASSUME NEW a \in Id
       PROVE  Count(<<b, a>>, got) = IF a = id THEN Cardinality(at) ELSE 0
  <2>1. DOMAIN got = 1 .. n /\ \A i \in 1 .. n : got[i].self = id /\ got[i].dest = task[i].dest
    BY <1>4, <1>6
  <2>2. Count(<<b, a>>, got) =
          Cardinality({i \in 1 .. n : <<got[i].dest, got[i].self>> = <<b, a>>})
    BY <2>1 DEF Count
  <2>3. {i \in 1 .. n : <<got[i].dest, got[i].self>> = <<b, a>>} = IF a = id THEN at ELSE {}
    <3>1. \A i \in 1 .. n : <<got[i].dest, got[i].self>> = <<b, a>> <=> a = id /\ task[i].dest = b
      BY <2>1
    <3> QED BY <1>9, <3>1
  <2> QED BY <2>2, <2>3, FS_EmptySet
<1>11. Cardinality(at) = Cardinality(Waiting(<<id, b>>))
  <2>1. Waiting(<<id, b>>) =
          {other \in added : other.peer = id /\ other.dest = b /\ WaitsAt(id, other)}
    BY WaitingIs
  <2>2. Waiting(<<id, b>>) = {task[i] : i \in at}
    <3>1. ASSUME NEW other \in Waiting(<<id, b>>) PROVE other \in {task[i] : i \in at}
      <4>1. PICK i \in 1 .. n : task_index[id][i].task = other
        BY <1>2, <2>1 DEF WaitsAt
      <4>2. task[i] = other /\ i \in at
        BY <1>4, <1>9, <2>1, <4>1
      <4> QED BY <4>2
    <3>2. ASSUME NEW i \in at PROVE task[i] \in Waiting(<<id, b>>)
      BY <1>2, <1>3, <1>4, <1>9, <2>1 DEF WaitsAt
    <3> QED BY <3>1, <3>2
  <2>3. IsFiniteSet(at)
    <3>1. at \subseteq 1 .. n
      BY <1>9
    <3>2. 1 \in Int /\ n \in Int
      OBVIOUS
    <3>3. IsFiniteSet(1 .. n)
      BY <3>2, FS_Interval
    <3> QED BY <3>1, <3>3, FS_Subset
  <2> DEFINE f == [i \in at |-> task[i]]
  <2>4. f \in Bijection(at, Waiting(<<id, b>>))
    BY <1>4, <1>9, <2>2 DEF Bijection, Injection, IsInjective, Surjection
  <2>5. ExistsBijection(at, Waiting(<<id, b>>))
    BY <2>4 DEF ExistsBijection
  <2> QED BY <2>3, <2>5, FS_Bijection
<1> QED BY <1>5, <1>8, <1>10, <1>11

\* An ack runs all the tasks that wait for it, or ends the process.
LEMMA AckInv ==
  ASSUME IInv, running, NEW request \in Request, NEW beyond \in Token, Ack(request, beyond)
  PROVE  IInv'
<1>1. PICK args : args = ParseArgs(request.args, beyond)
  OBVIOUS
<1>2. /\ args # Error /\ Tasks!DoTask(args.self.id)
      /\ running' = (Null \notin results')
      /\ sent' = IF running' THEN Relayed(args.self.id) ELSE << >>
      /\ view' \in Settled(Updated(Append(args.rumors, args.self)), Len(sent'))
      /\ acks' = [pair \in Id \X Id |-> acks[pair] + Count(pair, sent')]
      /\ asks' = asks
  BY <1>1 DEF Ack
<1>3. args.self.id \in Id /\ Append(args.rumors, args.self) \in Seq(Node)
  <2>1. args.self \in Node /\ args.rumors \in Seq(Node)
    BY <1>1, <1>2, ParsedArgs
  <2> QED BY <2>1, AppendProperties DEF Node
<1>4. view' \in Known
  BY <1>2, <1>3, UpdatedKnown, SettledKnown DEF IInv
<1>5. PICK id \in Id : id = args.self.id
  BY <1>3
<1>6. Pend!Fetch(id)
  BY <1>2, <1>5, SameTasks
<1>7. Pend!IInv'
  BY <1>6, TaskAssumption, Pend!FetchInv DEF IInv
<1>8. /\ task_index \in [Id -> Seq(Pend!Entry)] /\ added \subseteq PingReqTask
      /\ Len(task_index[id]) \in Nat /\ DOMAIN task_index[id] = 1 .. Len(task_index[id])
  BY ListIs DEF IInv, Pend!IInv, Pend!TypeOK
<1>9. /\ added' = added
      /\ results' = {entry.task : entry \in Pend!ToSet(task_index[id])}
      /\ task_index' = [task_index EXCEPT ![id] = [i \in DOMAIN @ |-> Pend!LeftBehind(@[i])]]
  BY <1>6 DEF Pend!Fetch
<1>10. running' => \A i \in 1 .. Len(task_index[id]) : task_index[id][i].task # Null
  BY <1>2, <1>8, <1>9 DEF Pend!ToSet
<1>11. running' \in BOOLEAN
  BY <1>2
<1>12. ASSUME NEW a \in Id, NEW b \in Id
       PROVE  /\ Cardinality(Waiting(<<a, b>>)) \in Nat
              /\ Asked(<<a, b>>)' = Asked(<<a, b>>)
              /\ Cardinality(Waiting(<<a, b>>)') =
                   IF a = id THEN 0 ELSE Cardinality(Waiting(<<a, b>>))
  <2>1. Waiting(<<a, b>>) \subseteq added
    BY DEF Waiting
  <2>2. Cardinality(Waiting(<<a, b>>)) \in Nat
    BY <2>1, FS_Subset, FS_CardinalityType DEF IInv, TasksCounted
  <2>3. Asked(<<a, b>>)' = Asked(<<a, b>>)
    BY <1>9 DEF Asked
  <2>4. Waiting(<<a, b>>) =
          {other \in added : other.peer = a /\ other.dest = b /\ WaitsAt(a, other)}
    BY WaitingIs DEF IInv
  <2>5. Waiting(<<a, b>>)' =
          {other \in added : other.peer = a /\ other.dest = b /\ WaitsAt(a, other)'}
    BY <1>7, <1>9, WaitingIsNext
  <2>6. CASE a = id
    <3>1. /\ task_index'[id] = [i \in 1 .. Len(task_index[id]) |->
                                  Pend!LeftBehind(task_index[id][i])]
      BY <1>8, <1>9
    <3>2. Len(task_index'[id]) = Len(task_index[id])
      BY <1>8, <3>1
    <3>3. \A i \in 1 .. Len(task_index[id]) : task_index'[id][i].task = Null
      <4>1. \A i \in 1 .. Len(task_index[id]) : task_index[id][i] \in Pend!Entry
        BY <1>8, ElementOfSeq
      <4>2. \A entry \in Pend!Entry : Pend!LeftBehind(entry).task = Null
        BY DEF Pend!Entry, Pend!LeftBehind
      <4> QED BY <3>1, <4>1, <4>2
    <3>4. \A other \in added : ~WaitsAt(a, other)'
      BY <1>8, <2>6, <3>2, <3>3, TaskAssumption DEF WaitsAt
    <3>5. Waiting(<<a, b>>)' = {}
      BY <2>5, <3>4
    <3> QED BY <2>2, <2>3, <2>6, <3>5, FS_EmptySet
  <2>7. CASE a # id
    <3>1. task_index'[a] = task_index[a]
      BY <1>8, <1>9, <2>7
    <3>2. \A other : WaitsAt(a, other)' <=> WaitsAt(a, other)
      BY <3>1 DEF WaitsAt
    <3>3. Waiting(<<a, b>>)' = Waiting(<<a, b>>)
      BY <2>4, <2>5, <3>2
    <3> QED BY <2>2, <2>3, <2>7, <3>3
  <2> QED BY <2>6, <2>7
<1>13. ASSUME NEW a \in Id, NEW b \in Id
       PROVE  Count(<<b, a>>, sent') =
                IF running' /\ a = id THEN Cardinality(Waiting(<<a, b>>)) ELSE 0
  <2>1. CASE running'
    <3>1. sent' = Relayed(id)
      BY <1>2, <1>5, <2>1
    <3> QED BY <1>10, <2>1, <3>1, CountRelayed DEF IInv
  <2>2. CASE ~running'
    <3>1. sent' = << >>
      BY <1>2, <2>2
    <3>2. {i \in DOMAIN << >> : <<(<< >>)[i].dest, (<< >>)[i].self>> = <<b, a>>} = {}
      BY EmptySeq
    <3> QED BY <2>2, <3>1, <3>2, FS_EmptySet DEF Count
  <2> QED BY <1>11, <2>1, <2>2
<1>14. sent' \in Seq(Message)
  <2>1. CASE running'
    BY <1>2, <1>5, <1>10, <2>1, CountRelayed DEF IInv
  <2>2. CASE ~running'
    BY <1>2, <2>2, EmptySeq
  <2> QED BY <1>11, <2>1, <2>2
<1>15. ASSUME NEW a \in Id, NEW b \in Id
       PROVE  /\ asks[<<a, b>>] \in Nat /\ acks[<<b, a>>] \in Nat /\ acks'[<<b, a>>] \in Nat
              /\ asks[<<a, b>>] = Cardinality(Asked(<<a, b>>))
              /\ acks'[<<b, a>>] <= asks[<<a, b>>]
              /\ running' => asks[<<a, b>>] = acks'[<<b, a>>] + Cardinality(Waiting(<<a, b>>)')
  <2>1. <<a, b>> \in Id \X Id /\ <<b, a>> \in Id \X Id
    OBVIOUS
  <2>2. /\ asks[<<a, b>>] \in Nat /\ acks[<<b, a>>] \in Nat
        /\ asks[<<a, b>>] = Cardinality(Asked(<<a, b>>))
        /\ acks[<<b, a>>] <= asks[<<a, b>>]
        /\ asks[<<a, b>>] = acks[<<b, a>>] + Cardinality(Waiting(<<a, b>>))
    BY <2>1 DEF IInv, TasksCounted, AcksCounted
  <2>3. acks'[<<b, a>>] = acks[<<b, a>>] + Count(<<b, a>>, sent')
    BY <1>2, <2>1
  <2>4. PICK w \in Nat : w = Cardinality(Waiting(<<a, b>>))
    BY <1>12
  <2>5. CASE running' /\ a = id
    <3>1. Count(<<b, a>>, sent') = w /\ Cardinality(Waiting(<<a, b>>)') = 0
      BY <1>12, <1>13, <2>4, <2>5
    <3> QED BY <2>2, <2>3, <2>4, <3>1
  <2>6. CASE ~(running' /\ a = id)
    <3>1. Count(<<b, a>>, sent') = 0
      BY <1>13, <2>6
    <3>2. running' => Cardinality(Waiting(<<a, b>>)') = w
      BY <1>12, <2>4, <2>6
    <3> QED BY <2>2, <2>3, <2>4, <3>1, <3>2
  <2> QED BY <2>5, <2>6
<1>16. TasksCounted'
  <2>1. acks' \in [Id \X Id -> Nat]
    <3>1. \A a, b \in Id : acks'[<<a, b>>] \in Nat
      BY <1>15
    <3>2. \A pair \in Id \X Id : acks'[pair] \in Nat
      BY <3>1
    <3> QED BY <1>2, <3>2
  <2>2. \A a, b \in Id : /\ asks'[<<a, b>>] = Cardinality(Asked(<<a, b>>)')
                        /\ acks'[<<b, a>>] <= asks'[<<a, b>>]
    BY <1>2, <1>12, <1>15
  <2> QED BY <1>2, <1>9, <2>1, <2>2 DEF IInv, TasksCounted
<1>17. AcksCounted'
  <2>1. SUFFICES ASSUME running', NEW a \in Id, NEW b \in Id
                 PROVE  asks'[<<a, b>>] = acks'[<<b, a>>] + Cardinality(Waiting(<<a, b>>)')
    BY DEF AcksCounted
  <2> QED BY <1>2, <1>15, <2>1
<1> QED BY <1>4, <1>7, <1>11, <1>14, <1>16, <1>17 DEF IInv, Known

\* Each command keeps the parts of the inductive invariant together.
THEOREM CommandsInvariant == Spec => []IInv
<1>1. ASSUME IInv, Next
      PROVE  IInv'
  <2>1. PICK request \in Request, beyond \in Token :
          Accepted(request, beyond) \/ Rejected(request, beyond)
    BY <1>1 DEF Next, Token
  <2>2. running
    BY <1>1 DEF Next
  <2> QED BY <1>1, <2>1, <2>2, PingInv, PingReqInv, AckInv, RejectedInv DEF Accepted
<1>2. ASSUME IInv, UNCHANGED vars
      PROVE  IInv'
  BY <1>2, QuietTasks DEF vars, IInv, Known
<1> QED BY <1>1, <1>2, InitInv, PTL DEF Spec

\* What requests say is typed, however they are parsed and in whatever order they
\* come, and no more acks are passed on than ping-reqs were accepted.
THEOREM CommandTypes == Spec => []TypeOK
<1>1. ASSUME IInv
      PROVE  TypeOK
  <2>1. Tasks!TypeOK
    BY <1>1, SameTasks DEF IInv, Pend!IInv
  <2>2. view \in [Id -> Node \cup {None}] /\ \A id \in Id : view[id] # None => view[id].id = id
    BY <1>1 DEF IInv, Known
  <2>3. ASSUME NEW a \in Id, NEW b \in Id
        PROVE  asks[<<a, b>>] \in 0 .. MaxTasks /\ acks[<<b, a>>] \in 0 .. MaxTasks
    <3>1. <<a, b>> \in Id \X Id /\ <<b, a>> \in Id \X Id
      OBVIOUS
    <3>2. /\ asks[<<a, b>>] \in Nat /\ acks[<<b, a>>] \in Nat /\ acks[<<b, a>>] <= asks[<<a, b>>]
          /\ asks[<<a, b>>] = Cardinality(Asked(<<a, b>>)) /\ IsFiniteSet(added)
          /\ Cardinality(added) <= MaxTasks
      BY <1>1, <3>1 DEF IInv, TasksCounted
    <3>3. Cardinality(Asked(<<a, b>>)) <= Cardinality(added) /\ Cardinality(added) \in Nat
      <4>1. Asked(<<a, b>>) \subseteq added
        BY DEF Asked
      <4> QED BY <3>2, <4>1, FS_Subset, FS_CardinalityType
    <3> QED BY <3>2, <3>3, CommandsAssumption
  <2>4. asks \in [Id \X Id -> 0 .. MaxTasks] /\ acks \in [Id \X Id -> 0 .. MaxTasks]
    <3>1. ASSUME NEW pair \in Id \X Id
          PROVE  asks[pair] \in 0 .. MaxTasks /\ acks[pair] \in 0 .. MaxTasks
      <4>1. PICK a \in Id, b \in Id : pair = <<a, b>>
        OBVIOUS
      <4>2. asks[<<a, b>>] \in 0 .. MaxTasks /\ acks[<<a, b>>] \in 0 .. MaxTasks
        BY <2>3
      <4> QED BY <4>1, <4>2
    <3> QED BY <1>1, <3>1 DEF IInv, TasksCounted
  <2> QED BY <1>1, <2>1, <2>2, <2>4 DEF IInv, TypeOK
<1> QED BY <1>1, CommandsInvariant, PTL

\* As long as the process lives, every ping-req that it accepted waits or has led
\* to one ack between the two members that it names.
THEOREM AskedAckedOnce == Spec => []AckedOnce
<1>1. ASSUME IInv
      PROVE  AckedOnce
  <2>1. SUFFICES ASSUME running, NEW a \in Id, NEW b \in Id
                 PROVE  asks[<<a, b>>] + asks[<<b, a>>] =
                          (acks[<<b, a>>] + Cardinality(Waiting(<<a, b>>)))
                          + (acks[<<a, b>>] + Cardinality(Waiting(<<b, a>>)))
    BY DEF AckedOnce
  <2>2. /\ asks[<<a, b>>] = acks[<<b, a>>] + Cardinality(Waiting(<<a, b>>))
        /\ asks[<<b, a>>] = acks[<<a, b>>] + Cardinality(Waiting(<<b, a>>))
    BY <1>1, <2>1 DEF IInv, AcksCounted
  <2> QED BY <2>2, Zenon
<1> QED BY <1>1, CommandsInvariant, PTL

\* A message that a command accepts leaves the process knowing each member, unless
\* as FAILED, in a version at least as new as the message's, however it is parsed,
\* as long as no node begins in another one; a message that is rejected leaves no
\* trace.
THEOREM WholeOrNothing == Spec => AllOrNothing
<1> DEFINE Step ==
      IF last'.accepted
      THEN Apart(last'.request.args) =>
             \A node \in SaidNodes(last'.request.args) :
               IF view'[node.id] = None THEN view[node.id] # None \/ Len(sent') > 1
               ELSE view'[node.id].status # Failed => view'[node.id].version >= node.version
      ELSE UNCHANGED <<view, tasks>> /\ sent' = << >>
<1>1. ASSUME IInv, Next
      PROVE  Step
  <2>1. PICK request \in Request, beyond \in Token :
          \/ Accepted(request, beyond) /\ Handled(request, TRUE)
          \/ Rejected(request, beyond) /\ Handled(request, FALSE)
    BY <1>1 DEF Next, Token
  <2>2. view \in Known
    BY <1>1 DEF IInv
  <2>3. CASE Rejected(request, beyond) /\ Handled(request, FALSE)
    BY <2>3 DEF Rejected, Handled
  <2>4. CASE Accepted(request, beyond) /\ Handled(request, TRUE)
    <3>1. last'.accepted /\ last'.request = request
      BY <2>4 DEF Handled
    <3>2. SUFFICES ASSUME Apart(request.args), NEW node \in SaidNodes(request.args)
                   PROVE  IF view'[node.id] = None THEN view[node.id] # None \/ Len(sent') > 1
                          ELSE view'[node.id].status # Failed => view'[node.id].version >= node.version
      BY <3>1
    <3>3. ASSUME NEW parsed, NEW builds, builds \in {1, Len(sent')},
                 parsed.self \in Node, parsed.rumors \in Seq(Node), AllTaken(request.args, parsed),
                 view' \in Settled(Updated(Append(parsed.rumors, parsed.self)), builds)
          PROVE  IF view'[node.id] = None THEN view[node.id] # None \/ Len(sent') > 1
                 ELSE view'[node.id].status # Failed => view'[node.id].version >= node.version
      <4>1. PICK after : after = view'
        OBVIOUS
      <4>2. IF after[node.id] = None THEN view[node.id] # None \/ builds > 1
            ELSE after[node.id].status # Failed => after[node.id].version >= node.version
        BY <2>2, <3>2, <3>3, <4>1, WholeTaken
      <4> QED BY <3>3, <4>1, <4>2
    <3>4. CASE Ping(request, beyond)
      <4>1. PICK parsed : parsed = ParseArgs(request.args, beyond)
        OBVIOUS
      <4>2. parsed # Error /\ view' \in Settled(Updated(Append(parsed.rumors, parsed.self)), 1)
        BY <3>4, <4>1 DEF Ping
      <4>3. /\ parsed.self \in Node /\ parsed.rumors \in Seq(Node)
            /\ AllTaken(request.args, parsed)
        BY <4>1, <4>2, ParsedArgs
      <4> QED BY <3>3, <4>2, <4>3
    <3>5. CASE PingReq(request, beyond)
      <4>1. PICK parsed : parsed = ParsePingReqArgs(request.args, beyond)
        OBVIOUS
      <4>2. parsed # Error /\ view' \in Settled(Updated(Append(parsed.rumors, parsed.self)), 1)
        BY <3>5, <4>1 DEF PingReq
      <4>3. /\ parsed.self \in Node /\ parsed.rumors \in Seq(Node)
            /\ AllTaken(request.args, parsed)
        BY <4>1, <4>2, ParsedPingReqArgs
      <4> QED BY <3>3, <4>2, <4>3
    <3>6. CASE Ack(request, beyond)
      <4>1. PICK parsed : parsed = ParseArgs(request.args, beyond)
        OBVIOUS
      <4>2. /\ parsed # Error
            /\ view' \in Settled(Updated(Append(parsed.rumors, parsed.self)), Len(sent'))
        BY <3>6, <4>1 DEF Ack
      <4>3. /\ parsed.self \in Node /\ parsed.rumors \in Seq(Node)
            /\ AllTaken(request.args, parsed)
        BY <4>1, <4>2, ParsedArgs
      <4> QED BY <3>3, <4>2, <4>3
    <3> QED BY <2>4, <3>4, <3>5, <3>6 DEF Accepted
  <2> QED BY <2>1, <2>3, <2>4
<1>2. ASSUME IInv, [Next]_vars
      PROVE  [Step]_vars
  BY <1>1, <1>2
<1> HIDE DEF Step
<1>3. Spec => [][Step]_vars
  BY <1>2, CommandsInvariant, PTL DEF Spec
<1> QED BY <1>3 DEF AllOrNothing, Step
==============================================================================
