------------------------------ MODULE Lifecycle ------------------------------
(***************************************************************************)
(* A GossipNet from its constructor to its destructor: the loop and the    *)
(* handles that UdpServer makes, start and stop called by any threads, and *)
(* the thread that start creates.  The destructor runs when no call is in  *)
(* progress, as for every C++ object; its caller sees to that.             *)
(*                                                                         *)
(* libuv is external: a handle that has been initialised is in the loop's  *)
(* queue until it is closed, and uv_run returns when no handle is active.  *)
(* _async always is, nothing calls uv_stop, and UdpServer::stop is empty:  *)
(* the server thread does not end, and nobody returns from joining it.     *)
(***************************************************************************)
EXTENDS Naturals

CONSTANTS
  Thread,
  None,         \* nobody
  MaxCalls      \* bound on the calls of start and stop by each thread

ASSUME LifecycleAssumption == None \notin Thread /\ MaxCalls \in Nat

Handle == {"_server", "_async"}

\* The constructor by the resource it makes next; then what the object is.
Stages == {"loop", "socket", "bind", "async", "alive",
           "unwinding", "destroying", "freed", "dead", "undefined"}

VARIABLES
  net,          \* the stage the object is in
  queue,        \* the handles in the loop's queue, empty when there is no loop
  loop,         \* is there a loop?
  allocated,    \* the handles whose memory has not been freed
  _mtx,         \* the thread that holds it
  joinable,     \* _server_thread.joinable()
  serving,      \* is the server thread in UdpServer::start?
  terminated,   \* std::terminate has been called
  pc, calls     \* where each thread is, and how many calls it has made

vars == <<net, queue, loop, allocated, _mtx, joinable, serving, terminated, pc, calls>>
handles == <<queue, loop, allocated>>
threads == <<_mtx, joinable, serving, terminated, pc, calls>>

Init ==
  /\ net = "loop"
  /\ queue = {} /\ loop = FALSE /\ allocated = {}
  /\ _mtx = None /\ joinable = FALSE /\ serving = FALSE /\ terminated = FALSE
  /\ pc = [t \in Thread |-> "idle"] /\ calls = [t \in Thread |-> 0]

------------------------------------------------------------------------------
(* The constructor.  Each libuv call may fail; the exception unwinds what is  *)
(* there: the handles, and after them the loop.                               *)

MakeLoop ==
  /\ net = "loop"
  /\ \/ net' = "socket" /\ loop' = TRUE
     \/ net' = "dead" /\ UNCHANGED loop
  /\ UNCHANGED <<queue, allocated, threads>>

\* uv_udp_init or uv_async_init: a handle that it fails for is not queued.
InitHandle(handle) ==
  \/ /\ queue' = queue \cup {handle}
     /\ allocated' = allocated \cup {handle}
     /\ net' = IF handle = "_server" THEN "bind" ELSE "alive"
  \/ net' = "unwinding" /\ UNCHANGED <<queue, allocated>>

InitSocket ==
  /\ net = "socket"
  /\ InitHandle("_server")
  /\ UNCHANGED <<loop, threads>>

\* SockAddr and uv_udp_bind: a bad address, or one that is in use.
BindServer ==
  /\ net = "bind"
  /\ net' \in {"async", "unwinding"}
  /\ UNCHANGED <<handles, threads>>

MakeAsync ==
  /\ net = "async"
  /\ InitHandle("_async")
  /\ UNCHANGED <<loop, threads>>

------------------------------------------------------------------------------
(* start and stop *)

\* A call waits for _mtx.
Call(t) ==
  /\ net = "alive" /\ ~terminated
  /\ pc[t] = "idle" /\ calls[t] < MaxCalls
  /\ \E f \in {"start", "stop"} : pc' = [pc EXCEPT ![t] = f]
  /\ calls' = [calls EXCEPT ![t] = @ + 1]
  /\ UNCHANGED <<net, handles, _mtx, joinable, serving, terminated>>

Lock(t) ==
  /\ pc[t] \in {"start", "stop"} /\ ~terminated
  /\ _mtx = None
  /\ _mtx' = t
  /\ pc' = [pc EXCEPT ![t] = IF pc[t] = "start" THEN "starting" ELSE "stopping"]
  /\ UNCHANGED <<net, handles, joinable, serving, terminated, calls>>

\* Mutant: an exception leaves the mutex locked.
ReturnLocked(t) ==
  /\ pc' = [pc EXCEPT ![t] = "idle"]
  /\ _mtx' = IF joinable THEN t ELSE None

\* lock_guard unlocks, whether the call returns or throws.
Return(t) ==
  /\ pc' = [pc EXCEPT ![t] = "idle"]
  /\ _mtx' = None

\* Mutant: start does not look whether it has been called before.
MayStartAlways == TRUE

MayStart == ~joinable

\* start throws when there is a thread, or when the system gives it none.  The
\* assignment to a std::thread that is joinable would terminate the process.
Start(t) ==
  /\ pc[t] = "starting" /\ ~terminated
  /\ \/ /\ MayStart
        /\ terminated' = joinable
        /\ joinable' = TRUE
     \/ UNCHANGED <<joinable, terminated>>
  /\ Return(t)
  /\ UNCHANGED <<net, handles, serving, calls>>

\* Mutant: stop unlocks before it joins.
StopUnlocked(t) ==
  /\ pc[t] = "stopping" /\ ~terminated
  /\ pc' = [pc EXCEPT ![t] = IF joinable THEN "joining" ELSE "idle"]
  /\ _mtx' = None
  /\ UNCHANGED <<net, handles, joinable, serving, terminated, calls>>

\* stop joins the server thread, with _mtx held.
Stop(t) ==
  /\ pc[t] = "stopping" /\ ~terminated
  /\ IF joinable
     THEN pc' = [pc EXCEPT ![t] = "joining"] /\ UNCHANGED _mtx
     ELSE Return(t)
  /\ UNCHANGED <<net, handles, joinable, serving, terminated, calls>>

\* The new thread: uv_udp_recv_start and uv_run.
Serve ==
  /\ joinable /\ ~serving /\ ~terminated
  /\ serving' = TRUE
  /\ UNCHANGED <<net, handles, _mtx, joinable, terminated, pc, calls>>

\* A read error: UdpServer closes its socket.
ReadError ==
  /\ serving /\ ~terminated
  /\ queue' = queue \ {"_server"}
  /\ UNCHANGED <<net, loop, allocated, threads>>

------------------------------------------------------------------------------
(* The destructors *)

Destroy ==
  /\ net = "alive" /\ ~terminated
  /\ \A t \in Thread : pc[t] = "idle"
  /\ net' = "destroying"
  /\ UNCHANGED <<handles, threads>>

\* Mutant: ~GossipNet detaches the thread.
JoinedAlways == TRUE

\* ~GossipNet joins the thread, if there is one.
Joined == ~joinable

\* The members of UdpServer, last one first: _async, _server ...
FreeHandles ==
  /\ \/ net = "unwinding"
     \/ net = "destroying" /\ Joined
  /\ allocated' = {}
  /\ net' = "freed"
  /\ UNCHANGED <<queue, loop, threads>>

\* ... and then _loop.  LoopDeleter goes through the queue, to see whether it is
\* empty and to close what is in it: with a handle that has been freed, anything
\* may happen.
DeleteLoop ==
  /\ net = "freed"
  /\ IF queue \subseteq allocated
     THEN net' = "dead" /\ loop' = FALSE /\ queue' = {}
     ELSE net' = "undefined" /\ UNCHANGED <<loop, queue>>
  /\ UNCHANGED <<allocated, threads>>

Next ==
  \/ MakeLoop \/ InitSocket \/ BindServer \/ MakeAsync
  \/ \E t \in Thread : Call(t) \/ Lock(t) \/ Start(t) \/ Stop(t)
  \/ Serve \/ ReadError
  \/ Destroy \/ FreeHandles \/ DeleteLoop

Spec == Init /\ [][Next]_vars

\* A thread that is in a call goes on when it can.  The calls are finitely many,
\* so a mutex that is not fair still lets each one in.
Fairness == \A t \in Thread : WF_vars(Lock(t)) /\ WF_vars(Start(t)) /\ WF_vars(Stop(t))

FairSpec == Spec /\ Fairness

------------------------------------------------------------------------------
\* The state has its types; a mutex is held by the thread that is past it, and
\* only a living object is called.
TypeOK ==
  /\ net \in Stages
  /\ queue \subseteq Handle /\ allocated \subseteq Handle
  /\ loop \in BOOLEAN /\ joinable \in BOOLEAN
  /\ serving \in BOOLEAN /\ terminated \in BOOLEAN
  /\ _mtx \in Thread \cup {None}
  /\ pc \in [Thread -> {"idle", "start", "starting", "stop", "stopping", "joining"}]
  /\ \A t \in Thread : pc[t] \in {"starting", "stopping", "joining"} <=> _mtx = t
  /\ calls \in [Thread -> 0 .. MaxCalls]
  /\ net # "alive" => \A t \in Thread : pc[t] = "idle"

\* The server thread runs over a loop and handles that are there, from start to
\* the end of the process, whoever starts, stops and destroys the object, and
\* _async is one of them: send reaches it.
ServerAlive == serving => loop /\ "_async" \in queue /\ allocated = Handle

\* No std::thread is replaced while it is joinable, and none destroyed: either
\* calls std::terminate.
NeverTerminates == ~terminated /\ (joinable => net \in {"alive", "destroying"})

\* Every call of start and stop returns or throws, unless a stop has found the
\* thread that a start has made: that one, and what waits behind it, do not.
CallsReturn ==
  \A t \in Thread :
    (pc[t] # "idle") ~> ((pc[t] = "idle") \/ \E u \in Thread : pc[u] = "joining")

\* stop stops the server, as its name and the TODO of udp_server.h:59 say, and
\* returns.  It does not hold after a start.
StopReturns == \A t \in Thread : (pc[t] = "stop") ~> (pc[t] = "idle")

\* What the comments of LoopDeleter (uv_utils.cpp:40 and 41) count on: the
\* handles' memory is not released before the loop is closed.  It does not hold:
\* _async and _server are destroyed before _loop (udp_server.h:93 to 97).
HandlesOutliveLoop == loop => queue \subseteq allocated
==============================================================================
