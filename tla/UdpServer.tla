------------------------------ MODULE UdpServer ------------------------------
(***************************************************************************)
(* class UdpServer's way out: send, called by any thread, queues an event  *)
(* under _mtx and wakes the loop; _on_event, called by the loop, takes the *)
(* whole queue under _mtx and hands its events to uv_udp_send, each with a *)
(* SendContext, which belongs to _send at first and to _on_send in the end. *)
(*                                                                         *)
(* What is external is libuv's: uv_async_send sets a flag that stays set   *)
(* however often it is called, and the loop clears it before it runs the   *)
(* callback; a request that uv_udp_send takes comes back to _on_send, in a *)
(* later turn of the loop, although the socket may have been closed.       *)
(***************************************************************************)
EXTENDS Naturals, Sequences, SequencesExt

CONSTANTS
  Thread,       \* the threads that call send from outside of the loop
  Loop,         \* the thread that runs the loop; commands call send from it
  Good, Bad,    \* destinations: one that SockAddr takes, one that it throws on
  MaxEvents     \* bound on the calls of send

ASSUME UdpAssumption ==
  /\ Loop \notin Thread
  /\ Good # Bad
  /\ MaxEvents \in Nat

Sender == Thread \cup {Loop}

\* Where the loop is: not started, waiting, in a command, woken but not yet in
\* the critical section of _on_event, in its for loop, or gone with the process.
Places == {"off", "poll", "command", "woken", "sending", "terminated"}

\* Where _send is with its request: there is none, it has been made and is a
\* unique_ptr's, uv_udp_send has taken it, or has refused it.
Stages == {"none", "made", "taken", "refused"}

Event == [from : Sender, dest : {Good, Bad}]

VARIABLES
  _events,      \* the queue
  async,        \* libuv's flag for _async
  signals,      \* the senders between the critical section and uv_async_send
  loop,         \* where the loop is
  events,       \* the local of _on_event
  socket,       \* "open", or "closed" by a read error
  request,      \* the local of _send
  flight,       \* the requests that libuv has taken and not given back
  data,         \* the requests that point to their SendContext
  contexts,     \* the SendContexts there are, by their requests
  pushed,       \* history: what send was called with
  handled       \* history: the events _send was done with

requests == <<socket, request, flight, data, contexts>>
vars == <<_events, async, signals, loop, events, requests, pushed, handled>>

Init ==
  /\ _events = << >> /\ async = FALSE /\ signals = {}
  /\ loop = "off" /\ events = << >>
  /\ socket = "open" /\ request = "none"
  /\ flight = {} /\ data = {} /\ contexts = {}
  /\ pushed = << >> /\ handled = << >>

Start ==
  /\ loop = "off"
  /\ loop' = "poll"
  /\ UNCHANGED <<_events, async, signals, events, requests, pushed, handled>>

\* _on_read, up to the call of _handle: a datagram with a command.
Read ==
  /\ loop = "poll" /\ socket = "open"
  /\ loop' = "command"
  /\ UNCHANGED <<_events, async, signals, events, requests, pushed, handled>>

\* _on_read with an error closes the socket; no read follows.
ReadError ==
  /\ loop = "poll" /\ socket = "open"
  /\ socket' = "closed"
  /\ UNCHANGED <<_events, async, signals, loop, events, request, flight, data, contexts, pushed, handled>>

\* send, up to the end of its critical section.
Push(sender, dest) ==
  /\ loop # "terminated"
  /\ sender \notin signals
  /\ sender = Loop => loop = "command"
  /\ Len(pushed) < MaxEvents
  /\ LET event == [from |-> sender, dest |-> dest]
     IN  /\ _events' = Append(_events, event)
         /\ pushed' = Append(pushed, event)
  /\ signals' = signals \cup {sender}
  /\ UNCHANGED <<async, loop, events, requests, handled>>

\* Mutant: only a loop that is waiting is woken.
SignalWhenPolling(sender) ==
  /\ loop # "terminated"
  /\ sender \in signals
  /\ async' = (async \/ loop = "poll")
  /\ signals' = signals \ {sender}
  /\ UNCHANGED <<_events, loop, events, requests, pushed, handled>>

\* The rest of send.
Signal(sender) ==
  /\ loop # "terminated"
  /\ sender \in signals
  /\ async' = TRUE
  /\ signals' = signals \ {sender}
  /\ UNCHANGED <<_events, loop, events, requests, pushed, handled>>

\* The command, which may have called send any number of times, returns.
Finish ==
  /\ loop = "command" /\ Loop \notin signals
  /\ loop' = "poll"
  /\ UNCHANGED <<_events, async, signals, events, requests, pushed, handled>>

\* The loop finds the flag set, clears it and calls _on_event.
Wake ==
  /\ loop = "poll"
  /\ async
  /\ async' = FALSE
  /\ loop' = "woken"
  /\ UNCHANGED <<_events, signals, events, requests, pushed, handled>>

\* Mutant: one event for each wake-up.
TakeOne ==
  /\ events' = IF _events = << >> THEN << >> ELSE <<Head(_events)>>
  /\ _events' = IF _events = << >> THEN << >> ELSE Tail(_events)

\* Mutant: the queue is copied and not emptied.
TakeCopy == events' = _events /\ UNCHANGED _events

\* The critical section of _on_event.
Take ==
  /\ events' = _events
  /\ _events' = << >>

Swap ==
  /\ loop = "woken"
  /\ Take
  /\ loop' = "sending"
  /\ UNCHANGED <<async, signals, requests, pushed, handled>>

\* Events are sent one after the other, and their requests numbered so.
Current == Len(handled) + 1

\* _send up to its unique_ptrs: SockAddr throws on a bad address, and nothing
\* catches that between _on_event and libuv.
MakeRequest ==
  /\ loop = "sending" /\ events # << >> /\ request = "none"
  /\ IF Head(events).dest = Bad
     THEN loop' = "terminated" /\ UNCHANGED <<request, contexts>>
     ELSE request' = "made" /\ contexts' = contexts \cup {Current} /\ UNCHANGED loop
  /\ UNCHANGED <<_events, async, signals, events, socket, flight, data, pushed, handled>>

\* uv_udp_send takes the request, or reports an error.  On a socket that is
\* closed either may happen.
UdpSend ==
  /\ request = "made"
  /\ \/ request' = "taken" /\ flight' = flight \cup {Current}
     \/ request' = "refused" /\ UNCHANGED flight
  /\ UNCHANGED <<_events, async, signals, loop, events, socket, data, contexts, pushed, handled>>

\* Mutant: get() instead of release(): the context goes at the end of _send.
DropContext ==
  /\ contexts' = contexts \ {Current}
  /\ data' = IF request = "taken" THEN data \cup {Current} ELSE data

\* What libuv has taken is released to it and made to point to its context; the
\* unique_ptrs delete what it has refused.
SettleContext ==
  \/ request = "taken" /\ data' = data \cup {Current} /\ UNCHANGED contexts
  \/ request = "refused" /\ contexts' = contexts \ {Current} /\ UNCHANGED data

\* The rest of _send.  An error has been logged, and the event is lost.
EndSend ==
  /\ request \in {"taken", "refused"}
  /\ SettleContext
  /\ request' = "none"
  /\ events' = Tail(events)
  /\ handled' = Append(handled, Head(events))
  /\ UNCHANGED <<_events, async, signals, loop, socket, flight, pushed>>

\* Mutant: the loop over the batch is left before its end.
ReturnEarly ==
  /\ loop = "sending" /\ request = "none"
  /\ loop' = "poll"
  /\ UNCHANGED <<_events, async, signals, events, requests, pushed, handled>>

Return ==
  /\ loop = "sending" /\ events = << >>
  /\ loop' = "poll"
  /\ UNCHANGED <<_events, async, signals, events, requests, pushed, handled>>

\* _on_send: the datagram has left, or has not; either way its request is over,
\* and the context that it points to.
OnSend(number) ==
  /\ loop = "poll" /\ number \in flight
  /\ flight' = flight \ {number}
  /\ data' = data \ {number}
  /\ contexts' = contexts \ (data \cap {number})
  /\ UNCHANGED <<_events, async, signals, loop, events, socket, request, pushed, handled>>

Next ==
  \/ Start
  \/ Read
  \/ ReadError
  \/ \E sender \in Sender, dest \in {Good, Bad} : Push(sender, dest)
  \/ \E sender \in Sender : Signal(sender)
  \/ Finish
  \/ Wake
  \/ Swap
  \/ MakeRequest
  \/ UdpSend
  \/ EndSend
  \/ Return
  \/ \E number \in flight : OnSend(number)

Spec == Init /\ [][Next]_vars

\* The loop, once it runs, finishes its callbacks, and a thread inside of send
\* leaves it.  Each time it polls, libuv serves every descriptor that is ready,
\* so datagrams do not keep it from the flag (strong fairness of Wake).  Nobody
\* has to call start or send.
Fairness ==
  /\ SF_vars(Wake)
  /\ WF_vars(Swap) /\ WF_vars(Return) /\ WF_vars(Finish)
  /\ WF_vars(MakeRequest) /\ WF_vars(UdpSend) /\ WF_vars(EndSend)
  /\ \A sender \in Sender : WF_vars(Signal(sender))

FairSpec == Spec /\ Fairness

------------------------------------------------------------------------------
TypeOK ==
  /\ _events \in Seq(Event) /\ events \in Seq(Event)
  /\ pushed \in Seq(Event) /\ handled \in Seq(Event)
  /\ async \in BOOLEAN
  /\ signals \subseteq Sender
  /\ loop \in Places
  /\ socket \in {"open", "closed"} /\ request \in Stages
  /\ \A number \in flight : number \in 1 .. Current
  /\ Current \in flight <=> request = "taken"
  /\ request # "none" => loop = "sending" /\ events # << >>
  /\ Loop \in signals => loop \in {"command", "terminated"}
  /\ events # << >> => loop \in {"sending", "terminated"}

\* Nothing that send was called with is lost, repeated or overtaken on its way
\* to uv_udp_send, whichever threads send while the loop takes the queue.
InOrder == pushed = handled \o events \o _events

\* The queue is never left non-empty with nobody going to wake the loop for it,
\* although the loop clears the flag before it takes the queue and a sender sets
\* it after it has left the critical section.
NoLostWakeup == _events # << >> => async \/ signals # {} \/ loop \in {"woken", "terminated"}

\* No SendContext is lost when its request is refused, none is deleted while
\* libuv reads the datagram in it or _send has still to pass it on, and when the
\* loop polls, each request that libuv has leads _on_send to its context, so that
\* it deletes all there is.
ContextsOwned ==
  /\ contexts = flight \cup (IF request = "none" THEN {} ELSE {Current})
  /\ loop = "poll" => data = flight

\* Once the loop runs, everything that was sent is handed over in the end,
\* whether the socket is open or closed by then, unless the process dies first,
\* of a bad address in front of it.
EventuallyHandled ==
  \A n \in 1 .. MaxEvents :
    (loop # "off" /\ Len(pushed) >= n) ~> (Len(handled) >= n \/ loop = "terminated")
==============================================================================
