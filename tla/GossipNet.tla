------------------------------ MODULE GossipNet ------------------------------
(***************************************************************************)
(* class GossipNet: the membership state of one process and the two things *)
(* done to it.  update(rumors) takes in what a message said; _build_rumors,*)
(* which ack and ping call, picks what the next message will say.          *)
(*                                                                         *)
(* The calls are made one at a time, as the server thread makes them.  A   *)
(* call is a sequence of steps, one per iteration of its loop: no other    *)
(* call starts before it is over.                                          *)
(***************************************************************************)
EXTENDS NodeOrder, Sequences, FiniteSets

CONSTANTS
  None, End,
  MaxRumorNum,      \* GossipNetOptions::max_rumor_num
  SpreadLimit,      \* size |-> size_t(lambda * log(size)) + 1
  Batches,          \* the rumor sequences update is called with
  NDEBUG            \* TRUE for a build that compiles assert away

ASSUME GossipNetAssumption ==
  /\ None \notin Node /\ None \notin [node : Node, counter : Nat]
  /\ None \notin [fresh : SUBSET Node, filler : Seq(Node)]
  /\ End \notin Id
  /\ IsFiniteSet(Id)
  /\ MaxRumorNum \in Nat
  /\ SpreadLimit \in [0 .. Cardinality(Id) -> Nat \ {0}]
  /\ Batches \subseteq Seq(Node) \ {<< >>}
  /\ NDEBUG \in BOOLEAN

VARIABLES
  members, order, iter,   \* _members
  recent,                 \* _recently_updated_members
  todo,                   \* the rumors update has still to look at
  building,               \* inside _build_rumors
  fresh, stable,          \* its rumors and what is left of its stable_rumors
  sent                    \* what the last call handed to _server.send, or None

vars == <<members, order, iter, recent, todo, building, fresh, stable, sent>>

Members == INSTANCE MemberSet
Recent  == INSTANCE RecentlyUpdatedSet

Idle == todo = << >> /\ ~building

Init ==
  /\ Members!Init
  /\ Recent!Init
  /\ todo = << >>
  /\ building = FALSE
  /\ sent = None

------------------------------------------------------------------------------
(* update *)

Update(rumors) ==
  /\ Idle
  /\ todo' = rumors
  /\ sent' = None
  /\ UNCHANGED <<members, order, iter, recent, building, fresh, stable>>

\* One iteration: a rumor leaves the stable members for the recent ones when
\* it is news, and is merged there when the member is not stable.
UpdateRumor ==
  /\ todo # << >>
  /\ LET rumor == Head(todo)
     IN  /\ Members!TryUpdate(rumor)
         /\ IF Members!Adopts(rumor)
            THEN Recent!Add(rumor)
            ELSE UNCHANGED <<recent, fresh, stable>>
  /\ todo' = Tail(todo)
  /\ UNCHANGED <<building, sent>>

------------------------------------------------------------------------------
(* ack and ping *)

Size == Cardinality(Members!MemberIds) + Cardinality(Recent!RecentIds)

BuildRumors ==
  /\ Idle
  /\ building' = TRUE
  /\ Recent!Fetch(MaxRumorNum, SpreadLimit[Size])
  /\ sent' = None
  /\ UNCHANGED <<members, order, iter, todo>>

\* One iteration of the loop over stable_rumors.
AddStable ==
  /\ building
  /\ \E node \in stable :
       /\ NDEBUG \/ Members!AddAsserted(node)
       /\ Members!Add(node)
       /\ stable' = stable \ {node}
  /\ UNCHANGED <<recent, todo, building, fresh, sent>>

\* Mutant: the rumors already taken are not subtracted.
WantedAll == MaxRumorNum

Wanted == MaxRumorNum - Cardinality(fresh)

\* The rest of the message is filled from the stable members.
Message == [fresh |-> fresh, filler |-> Members!Fetched(Wanted)]

\* ack and ping, once they have their rumors.
Send ==
  /\ building
  /\ stable = {}
  /\ NDEBUG \/ Members!FetchAsserted(Wanted)
  /\ Members!Fetch(Wanted)
  /\ sent' = Message
  /\ building' = FALSE
  /\ fresh' = {}
  /\ UNCHANGED <<recent, todo, stable>>

Next ==
  \/ \E rumors \in Batches : Update(rumors)
  \/ UpdateRumor
  \/ BuildRumors
  \/ AddStable
  \/ Send

Spec == Init /\ [][Next]_vars
==============================================================================
