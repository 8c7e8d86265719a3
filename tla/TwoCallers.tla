------------------------------ MODULE TwoCallers ------------------------------
(***************************************************************************)
(* GossipNet as it is used: the server thread runs the commands, which     *)
(* call update and ack, and a thread of the application calls ping, the    *)
(* only thing that starts an exchange.  The two share _members and         *)
(* _recently_updated_members and no lock: _mtx is for start and stop.      *)
(*                                                                         *)
(* Unsynchronised accesses to a hash table are a data race.  What the      *)
(* module allows is the best that can come of it, every step of GossipNet  *)
(* atomic.  That is enough to refute; nothing is shown to hold here.       *)
(***************************************************************************)
EXTENDS GossipNet

\* The locals of the application's call; the server thread's are GossipNet's.
VARIABLES pinging, pingFresh, pingStable, pingSent

serverLocals == <<todo, building, fresh, stable, sent>>
pingLocals == <<pinging, pingFresh, pingStable, pingSent>>
callers == <<vars, pingLocals>>

\* The application's thread: it does not call update.
Ping == INSTANCE GossipNet
          WITH todo <- << >>, building <- pinging,
               fresh <- pingFresh, stable <- pingStable, sent <- pingSent

InitCallers == Init /\ Ping!Init

ServerStep == Next /\ UNCHANGED pingLocals

PingStep ==
  /\ Ping!BuildRumors \/ Ping!AddStable \/ Ping!Send
  /\ UNCHANGED serverLocals

NextCallers == ServerStep \/ PingStep

SpecCallers == InitCallers /\ [][NextCallers]_callers

\* What MemberSet::add asserts (member_set.cpp:55) of the members that the two
\* threads are about to add.  It does not hold: while one thread carries a member
\* from the recently updated ones to the stable ones, the other finds it in
\* neither, and records it a second time.
AddAssertion == \A node \in stable \cup pingStable : Members!AddAsserted(node)
==============================================================================
