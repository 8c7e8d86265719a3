--------------------------- MODULE UdpServerProofs ---------------------------
(***************************************************************************)
(* Proofs that UdpServer loses no event on its way out and never forgets   *)
(* to wake the loop, for any number of threads and of events.              *)
(***************************************************************************)
EXTENDS UdpServer, SequenceTheorems, TLAPS

\* The properties make an inductive invariant together: InOrder needs the loop's
\* local queue to be empty when it takes the next one, and ContextsOwned, which speaks
\* of a loop that polls, what _send has passed on before.
IInv ==
  /\ TypeOK /\ InOrder /\ NoLostWakeup /\ ContextsOwned
  /\ data = flight \ (IF request = "taken" THEN {Current} ELSE {})

\* Moving the border between two concatenated sequences.
LEMMA ConcatAppend ==
  ASSUME NEW S, NEW s \in Seq(S), NEW t \in Seq(S), NEW x \in S
  PROVE  s \o Append(t, x) = Append(s \o t, x)
OBVIOUS

LEMMA ConcatHeadTail ==
  ASSUME NEW S, NEW s \in Seq(S), NEW t \in Seq(S), t # << >>
  PROVE  Append(s, Head(t)) \o Tail(t) = s \o t
OBVIOUS

LEMMA InitInv == Init => IInv
<1> SUFFICES ASSUME Init PROVE IInv
  OBVIOUS
<1>1. << >> \in Seq(Event) /\ << >> \o << >> \o << >> = << >>
  BY EmptySeq
<1> QED BY <1>1 DEF Init, IInv, TypeOK, InOrder, NoLostWakeup, ContextsOwned, Places, Stages, Current

LEMMA StepInv ==
  ASSUME IInv, [Next]_vars
  PROVE  IInv'
<1> USE DEF IInv, requests
<1>1. CASE Start
  BY <1>1 DEF Start, TypeOK, InOrder, NoLostWakeup, ContextsOwned, Places, Current
<1>2. CASE Read
  BY <1>2 DEF Read, TypeOK, InOrder, NoLostWakeup, ContextsOwned, Places, Current
<1>3. ASSUME NEW sender \in Sender, NEW dest \in {Good, Bad}, Push(sender, dest)
      PROVE  IInv'
  <2> DEFINE event == [from |-> sender, dest |-> dest]
  <2>1. event \in Event
    BY DEF Event
  <2>2. /\ _events' = Append(_events, event) /\ pushed' = Append(pushed, event)
        /\ signals' = signals \cup {sender}
        /\ UNCHANGED <<async, loop, events, requests, handled>>
        /\ sender = Loop => loop = "command"
    BY <1>3 DEF Push
  <2> HIDE DEF event
  <2>3. TypeOK'
    BY <2>1, <2>2 DEF TypeOK, Sender, Current
  <2>4. InOrder'
    <3>1. handled \o events \in Seq(Event)
      BY ConcatProperties DEF TypeOK
    <3>2. (handled \o events) \o Append(_events, event)
            = Append((handled \o events) \o _events, event)
      BY <2>1, <3>1, ConcatAppend DEF TypeOK
    <3> QED BY <2>2, <3>2 DEF InOrder
  <2>5. NoLostWakeup' /\ ContextsOwned'
    BY <2>2 DEF NoLostWakeup, ContextsOwned, Current
  <2>6. data' = flight' \ (IF request' = "taken" THEN {Current'} ELSE {})
    BY <2>2 DEF Current
  <2> QED BY <2>3, <2>4, <2>5, <2>6
<1>4. ASSUME NEW sender \in Sender, Signal(sender)
      PROVE  IInv'
  BY <1>4 DEF Signal, TypeOK, InOrder, NoLostWakeup, ContextsOwned, Current
<1>5. CASE Finish
  BY <1>5 DEF Finish, TypeOK, InOrder, NoLostWakeup, ContextsOwned, Places, Current
<1>6. CASE Wake
  BY <1>6 DEF Wake, TypeOK, InOrder, NoLostWakeup, ContextsOwned, Places, Current
<1>7. CASE Swap
  <2>1. /\ loop = "woken" /\ loop' = "sending" /\ events = << >>
        /\ events' = _events /\ _events' = << >>
        /\ UNCHANGED <<async, signals, requests, pushed, handled>>
    BY <1>7 DEF Swap, Take, TypeOK
  <2>2. TypeOK'
    BY <2>1, EmptySeq DEF TypeOK, Places, Current
  <2>3. InOrder'
    BY <2>1, ConcatEmptySeq DEF TypeOK, InOrder
  <2>4. NoLostWakeup' /\ ContextsOwned'
    BY <2>1 DEF NoLostWakeup, ContextsOwned, Current
  <2>5. request = "none" /\ request' = "none" /\ data' = flight'
    BY <2>1 DEF TypeOK
  <2> QED BY <2>2, <2>3, <2>4, <2>5
<1>8. CASE MakeRequest
  <2>1. /\ loop = "sending" /\ events # << >> /\ request = "none"
        /\ UNCHANGED <<_events, async, signals, events, socket, flight, data, pushed, handled>>
        /\ \/ loop' = "terminated" /\ UNCHANGED <<request, contexts>>
           \/ request' = "made" /\ contexts' = contexts \cup {Current} /\ loop' = loop
    BY <1>8 DEF MakeRequest
  <2>2. Current' = Current
    BY <2>1 DEF Current
  <2>3. TypeOK'
    BY <2>1, <2>2 DEF TypeOK, Places, Stages
  <2>4. InOrder' /\ NoLostWakeup'
    BY <2>1 DEF InOrder, NoLostWakeup
  <2>5. /\ ContextsOwned' /\ data' = flight' \ (IF request' = "taken" THEN {Current'} ELSE {})
    BY <2>1, <2>2 DEF ContextsOwned
  <2> QED BY <2>3, <2>4, <2>5
<1>9. CASE UdpSend
  <2>1. /\ request = "made"
        /\ UNCHANGED <<_events, async, signals, loop, events, socket, data, contexts, pushed, handled>>
        /\ \/ request' = "taken" /\ flight' = flight \cup {Current}
           \/ request' = "refused" /\ flight' = flight
    BY <1>9 DEF UdpSend
  <2>2. Current' = Current /\ Current \in Nat /\ Current \in 1 .. Current
    BY <2>1, LenProperties DEF Current, TypeOK
  <2>3. TypeOK'
    BY <2>1, <2>2 DEF TypeOK, Stages
  <2>4. InOrder' /\ NoLostWakeup'
    BY <2>1 DEF InOrder, NoLostWakeup
  <2>5. loop # "poll" /\ Current \notin flight
    BY <2>1 DEF TypeOK
  <2>6. ContextsOwned' /\ data' = flight' \ (IF request' = "taken" THEN {Current'} ELSE {})
    BY <2>1, <2>2, <2>5 DEF ContextsOwned
  <2> QED BY <2>3, <2>4, <2>6
<1>10. CASE EndSend
  <2>1. /\ request \in {"taken", "refused"} /\ request' = "none"
        /\ events' = Tail(events) /\ handled' = Append(handled, Head(events))
        /\ UNCHANGED <<_events, async, signals, loop, socket, flight, pushed>>
        /\ \/ request = "taken" /\ data' = data \cup {Current} /\ contexts' = contexts
           \/ request = "refused" /\ contexts' = contexts \ {Current} /\ data' = data
    BY <1>10 DEF EndSend, SettleContext
  <2>2. loop = "sending" /\ events # << >> /\ events \in Seq(Event) /\ handled \in Seq(Event)
    BY <2>1 DEF TypeOK
  <2>3. Head(events) \in Event /\ Tail(events) \in Seq(Event)
    BY <2>2, HeadTailProperties
  <2>4. handled' \in Seq(Event) /\ Current \in Nat /\ Current' = Current + 1
    BY <2>1, <2>2, <2>3, AppendProperties, LenProperties DEF Current
  <2>5. \A number \in flight : number \in Nat /\ number >= 1 /\ number <= Current
    BY <2>4 DEF TypeOK
  <2>6. Current' \notin flight /\ \A number \in flight : number \in 1 .. Current'
    BY <2>4, <2>5
  <2>7. TypeOK'
    BY <2>1, <2>2, <2>3, <2>4, <2>6 DEF TypeOK, Stages
  <2>8. InOrder'
    <3>1. handled' \o events' = handled \o events
      <4>1. Append(handled, Head(events)) \o Tail(events) = handled \o events
        BY <2>2, ConcatHeadTail
      <4> QED BY <2>1, <4>1
    <3>2. _events' = _events /\ pushed' = pushed
      BY <2>1
    <3> QED BY <3>1, <3>2 DEF InOrder
  <2>9. NoLostWakeup'
    BY <2>1 DEF NoLostWakeup
  <2>10. request = "taken" <=> Current \in flight
    BY DEF TypeOK
  <2>11. contexts' = flight' /\ data' = flight'
    BY <2>1, <2>10 DEF ContextsOwned
  <2> QED BY <2>1, <2>7, <2>8, <2>9, <2>11 DEF ContextsOwned
<1>11. CASE Return
  BY <1>11 DEF Return, TypeOK, InOrder, NoLostWakeup, ContextsOwned, Places, Current
<1>12. CASE ReadError
  BY <1>12 DEF ReadError, TypeOK, InOrder, NoLostWakeup, ContextsOwned, Current
<1>13. ASSUME NEW number \in flight, OnSend(number)
       PROVE  IInv'
  <2>1. /\ loop = "poll" /\ flight' = flight \ {number} /\ data' = data \ {number}
        /\ contexts' = contexts \ (data \cap {number})
        /\ UNCHANGED <<_events, async, signals, loop, events, socket, request, pushed, handled>>
    BY <1>13 DEF OnSend
  <2>2. request = "none" /\ data = flight /\ contexts = flight /\ Current' = Current
    BY <2>1 DEF TypeOK, ContextsOwned, Current
  <2>3. TypeOK'
    BY <2>1, <2>2 DEF TypeOK
  <2>4. InOrder' /\ NoLostWakeup'
    BY <2>1 DEF InOrder, NoLostWakeup
  <2>5. ContextsOwned' /\ data' = flight' \ (IF request' = "taken" THEN {Current'} ELSE {})
    BY <2>1, <2>2 DEF ContextsOwned
  <2> QED BY <2>3, <2>4, <2>5
<1>14. CASE UNCHANGED vars
  BY <1>14 DEF vars, TypeOK, InOrder, NoLostWakeup, ContextsOwned, Current
<1> QED
  BY <1>1, <1>2, <1>3, <1>4, <1>5, <1>6, <1>7, <1>8, <1>9, <1>10, <1>11, <1>12, <1>13, <1>14
  DEF Next

THEOREM InductiveInvariant == Spec => []IInv
BY InitInv, StepInv, PTL DEF Spec

\* What send was called with reaches uv_udp_send once each and in that order.
THEOREM NothingLostOrOvertaken == Spec => []InOrder
BY InductiveInvariant, PTL DEF IInv

\* A queued event always has somebody who is going to wake the loop for it.
THEOREM AlwaysWoken == Spec => []NoLostWakeup
BY InductiveInvariant, PTL DEF IInv

\* No SendContext is lost or deleted while libuv reads the datagram in it, with
\* read errors and refused requests between any two steps of _send, and when the
\* loop polls, the requests that libuv has point to all the contexts there are.
THEOREM NoContextLost == Spec => []ContextsOwned
BY InductiveInvariant, PTL DEF IInv

\* The types of the queues, the flag and the requests.
THEOREM TypeCorrect == Spec => []TypeOK
BY InductiveInvariant, PTL DEF IInv
==============================================================================
