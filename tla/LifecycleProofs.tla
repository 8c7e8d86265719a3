--------------------------- MODULE LifecycleProofs ---------------------------
(***************************************************************************)
(* What holds from a GossipNet's constructor to the end of the process, for *)
(* any number of threads and of calls.                                      *)
(***************************************************************************)
EXTENDS Lifecycle, TLAPS

\* What the constructor has made when it comes to each stage.
Constructed ==
  /\ net \in {"socket", "bind", "async", "alive", "destroying"} => loop
  /\ net \in {"async", "bind"} => "_server" \in allocated
  /\ net \in {"alive", "destroying"} => allocated = Handle /\ "_async" \in queue

\* The inductive invariant: the server thread is one that start made, start runs
\* only when the object is complete, and nothing is freed while it is there.
LifecycleInv ==
  /\ TypeOK /\ Constructed /\ NeverTerminates
  /\ serving => joinable

LEMMA LifecycleInit == Init => LifecycleInv
<1> SUFFICES ASSUME Init PROVE LifecycleInv
  OBVIOUS
<1>1. TypeOK
  <2>1. net \in Stages /\ queue \subseteq Handle /\ allocated \subseteq Handle
    BY DEF Init, Stages
  <2>2. /\ loop \in BOOLEAN /\ joinable \in BOOLEAN
        /\ serving \in BOOLEAN /\ terminated \in BOOLEAN
    BY DEF Init
  <2>3. calls \in [Thread -> 0 .. MaxCalls]
    BY LifecycleAssumption DEF Init
  <2>4. /\ _mtx = None
        /\ pc \in [Thread -> {"idle"}] /\ \A t \in Thread : pc[t] = "idle"
    BY DEF Init
  <2> QED
    BY <2>1, <2>2, <2>3, <2>4, LifecycleAssumption DEF TypeOK
<1>2. Constructed /\ NeverTerminates /\ (serving => joinable)
  BY DEF Init, Constructed, NeverTerminates
<1> QED
  BY <1>1, <1>2 DEF LifecycleInv

\* The steps of the constructor leave the threads alone.
LEMMA LifecycleConstructor ==
  LifecycleInv /\ (MakeLoop \/ InitSocket \/ BindServer \/ MakeAsync) => LifecycleInv'
<1> SUFFICES ASSUME LifecycleInv, MakeLoop \/ InitSocket \/ BindServer \/ MakeAsync
             PROVE  LifecycleInv'
  OBVIOUS
<1> USE DEF LifecycleInv, TypeOK, Constructed, NeverTerminates, Stages, Handle, threads
<1>1. CASE MakeLoop
  BY <1>1 DEF MakeLoop
<1>2. CASE InitSocket
  BY <1>2 DEF InitSocket, InitHandle
<1>3. CASE BindServer
  BY <1>3 DEF BindServer, handles
<1>4. CASE MakeAsync
  BY <1>4 DEF MakeAsync, InitHandle
<1> QED
  BY <1>1, <1>2, <1>3, <1>4

\* The mutex lets one thread be in start or stop.
LEMMA LifecycleCalls ==
  ASSUME LifecycleInv, NEW t \in Thread, Call(t) \/ Lock(t) \/ Start(t) \/ Stop(t)
  PROVE  LifecycleInv'
<1> USE LifecycleAssumption
    DEF LifecycleInv, TypeOK, Constructed, NeverTerminates, handles
<1>1. CASE Call(t)
  BY <1>1 DEF Call
<1>2. CASE Lock(t)
  BY <1>2 DEF Lock
<1>3. CASE Start(t)
  <2>1. pc' = [pc EXCEPT ![t] = "idle"] /\ _mtx' = None
    BY <1>3 DEF Start, Return
  <2>2. /\ terminated' = FALSE /\ joinable' \in BOOLEAN
        /\ joinable => joinable'
        /\ net = "alive"
        /\ UNCHANGED <<net, queue, loop, allocated, serving, calls>>
    <3>1. CASE MayStart /\ terminated' = joinable /\ joinable' = TRUE
      BY <1>3, <3>1 DEF Start, MayStart
    <3>2. CASE UNCHANGED <<joinable, terminated>>
      BY <1>3, <3>2 DEF Start
    <3> QED
      BY <1>3, <3>1, <3>2 DEF Start
  <2>3. TypeOK'
    <3>1. _mtx = t
      BY <1>3 DEF Start
    <3>2. \A u \in Thread : pc'[u] \notin {"starting", "stopping", "joining"} /\ _mtx' # u
      BY <2>1, <3>1
    <3>3. pc' \in [Thread -> {"idle", "start", "starting", "stop", "stopping", "joining"}]
      BY <2>1
    <3> QED
      BY <2>1, <2>2, <3>2, <3>3
  <2>4. Constructed' /\ NeverTerminates' /\ (serving' => joinable')
    BY <2>2
  <2> QED
    BY <2>3, <2>4
<1>4. CASE Stop(t)
  BY <1>4 DEF Stop, Return
<1> QED
  BY <1>1, <1>2, <1>3, <1>4

\* The destructor gets no further while there is a thread to join.
LEMMA LifecycleRest ==
  LifecycleInv /\ (Serve \/ ReadError \/ Destroy \/ FreeHandles \/ DeleteLoop) => LifecycleInv'
<1> SUFFICES ASSUME LifecycleInv, Serve \/ ReadError \/ Destroy \/ FreeHandles \/ DeleteLoop
             PROVE  LifecycleInv'
  OBVIOUS
<1> USE DEF LifecycleInv, TypeOK, Constructed, NeverTerminates, Stages, Handle, handles, threads
<1>1. CASE Serve
  BY <1>1 DEF Serve
<1>2. CASE ReadError
  BY <1>2 DEF ReadError
<1>3. CASE Destroy
  BY <1>3 DEF Destroy
<1>4. CASE FreeHandles
  BY <1>4 DEF FreeHandles, Joined
<1>5. CASE DeleteLoop
  BY <1>5 DEF DeleteLoop
<1> QED
  BY <1>1, <1>2, <1>3, <1>4, <1>5

LEMMA LifecycleInductive == Spec => []LifecycleInv
<1>1. LifecycleInv /\ [Next]_vars => LifecycleInv'
  <2> SUFFICES ASSUME LifecycleInv, [Next]_vars
               PROVE  LifecycleInv'
    OBVIOUS
  <2>1. CASE Next
    BY <2>1, LifecycleConstructor, LifecycleCalls, LifecycleRest DEF Next
  <2>2. CASE UNCHANGED vars
    BY <2>2 DEF vars, LifecycleInv, TypeOK, Constructed, NeverTerminates
  <2> QED
    BY <2>1, <2>2
<1> QED
  BY <1>1, LifecycleInit, PTL DEF Spec

\* The types, with the mutex: whoever is past the lock_guard of start or stop
\* holds _mtx, for any number of threads.
THEOREM LifecycleTypes == Spec => []TypeOK
BY LifecycleInductive, PTL DEF LifecycleInv

\* The server thread never runs over a loop or a handle that has been freed,
\* however start, stop, read errors and the destructor interleave.
THEOREM LifecycleServerAlive == Spec => []ServerAlive
<1>1. LifecycleInv => ServerAlive
  BY DEF LifecycleInv, Constructed, NeverTerminates, ServerAlive
<1> QED
  BY <1>1, LifecycleInductive, PTL

\* No std::thread that is joinable is assigned to or destroyed.
THEOREM LifecycleNeverTerminates == Spec => []NeverTerminates
BY LifecycleInductive, PTL DEF LifecycleInv
==============================================================================
