-------------------------- MODULE GossipNetHistory ---------------------------
(***************************************************************************)
(* GossipNet with a history variable: how many messages have carried the   *)
(* current news about each recently updated member, counted up to the      *)
(* limit for all members, the largest.                                     *)
(***************************************************************************)
EXTENDS GossipNetProperties

\* A multiple (lambda is a size_t) of a logarithm grows with the argument.
ASSUME SpreadAssumption ==
  \A m, n \in 1 .. Cardinality(Id) : m <= n => SpreadLimit[m] <= SpreadLimit[n]

VARIABLE carried

hvars == <<vars, carried>>

HInit == Init /\ carried = [id \in Id |-> 0]

Sends(id) == sent = None /\ sent' # None /\ View[id] \in sent'.fresh

HNext ==
  /\ Next
  /\ carried' = [id \in Id |->
                   IF View'[id] # View[id] \/ recent'[id] = None THEN 0
                   ELSE IF Sends(id) /\ carried[id] < SpreadLimit[Cardinality(Id)]
                   THEN carried[id] + 1
                   ELSE carried[id]]

HSpec == HInit /\ [][HNext]_hvars

\* "Each new member info will be spread max_spreaded_num times before stable"
\* (gossip_net.cpp:158), counting the messages sent since the news came in, and
\* so is the news that a member FAILED before it is forgotten.
SpreadBeforeStable ==
  [][\A id \in Id : InRecent(id) /\ ~InRecent(id)' =>
       carried[id] >= SpreadLimit[Size]]_hvars

\* News that ages: when messages keep being sent, every recently updated member
\* becomes stable or is dropped, unless news keeps coming in.
News == UpdateRumor /\ recent' # recent

Drains ==
  []<><<Send>>_vars => <>[](Recent!RecentIds = {}) \/ []<><<News>>_vars
==============================================================================
