------------------------------ MODULE Commands -------------------------------
(***************************************************************************)
(* The commands of one process: a request that the server thread has read  *)
(* is dispatched by name, its arguments are parsed, the membership takes   *)
(* in what it says, and messages go out.  Anybody may send any request, at *)
(* any time and any number of times.  A command runs to its end before the *)
(* next one starts.                                                        *)
(*                                                                         *)
(* GossipNet's two sets are the view of Membership, which GossipNet is     *)
(* shown to implement; its _tasks are those of PendingLists, on which      *)
(* nothing calls timeout_tasks.                                            *)
(***************************************************************************)
EXTENDS ParseNode, SequencesExt, FiniteSets

CONSTANTS
  Request,      \* the requests that may arrive
  None, Null,
  Me,           \* _self.id, which nobody ever sets
  MaxTasks      \* bound on the ping-reqs that are accepted

ASSUME CommandsAssumption ==
  /\ Request \subseteq [name : STRING, args : Seq(STRING)]
  /\ \A request \in Request, type \in {"self", "peer", "rumor"} :
       \A i \in DOMAIN request.args :
         Fields(type, request.args, i) =>
           request.args[i + 1] \in Id /\ Number[request.args[i + 4]] \in Version
  /\ None \notin Node
  /\ Null \notin [dest : Id, peer : Id, number : Nat]
  /\ MaxTasks \in Nat

\* A PingReqTask, and a number to tell it from others like it.
PingReqTask == [dest : Id, peer : Id, number : 1 .. MaxTasks]

\* Task(peer.id), as the constructor has it.
TaskId == [task \in PingReqTask |-> task.peer]

VARIABLES
  view,         \* the belief about each member
  task_index, timeout_index, now, results, added, returned, checks,   \* _tasks
  running,      \* FALSE when a null task has ended the process
  sent,         \* the messages sent by the last command
  asks,         \* history: the ping-reqs accepted, by <<requester, peer>>
  acks,         \* history: the acks passed on, by <<to whom, in whose name>>
  last          \* history: the last request, and whether a command accepted it

tasks == <<task_index, timeout_index, now, results, added, returned, checks>>
vars  == <<view, tasks, running, sent, asks, acks, last>>

Tasks == INSTANCE PendingLists
           WITH Task <- PingReqTask, IdOf <- TaskId, MaxTime <- 0

Init ==
  /\ view = [id \in Id |-> None]
  /\ Tasks!Init
  /\ running = TRUE
  /\ sent = << >>
  /\ asks = [pair \in Id \X Id |-> 0] /\ acks = asks
  /\ last = None

------------------------------------------------------------------------------
(* What the commands call *)

IsNews(known, rumor) == known[rumor.id] = None \/ Older(known[rumor.id], rumor)

\* update, one rumor after the other.
Updated(rumors) ==
  LET known[i \in 0 .. Len(rumors)] ==
        IF i = 0 THEN view
        ELSE IF IsNews(known[i - 1], rumors[i])
             THEN [known[i - 1] EXCEPT ![rumors[i].id] = rumors[i]]
             ELSE known[i - 1]
  IN  known[Len(rumors)]

\* The views after that many calls of _build_rumors.  Each may forget FAILED
\* members, but none that it is the first to spread.
Settled(known, builds) ==
  LET failed == {id \in Id : known[id] # None /\ known[id].status = Failed}
      spread == {id \in failed : builds > (IF known[id] = view[id] THEN 0 ELSE 1)}
  IN  {[id \in Id |-> IF id \in ids THEN None ELSE known[id]] : ids \in SUBSET spread}

Handled(request, accepted) == last' = [request |-> request, accepted |-> accepted]

------------------------------------------------------------------------------
(* The commands, when their arguments can be parsed *)

Ping(request, beyond) ==
  LET args == ParseArgs(request.args, beyond)
  IN  /\ request.name = "ping"
      /\ args # Error
      /\ view' \in Settled(Updated(Append(args.rumors, args.self)), 1)
      /\ sent' = <<[name |-> "ack", dest |-> args.self.id, self |-> Me]>>
      /\ UNCHANGED <<tasks, running, asks, acks>>

\* PingReqTask(cmd_args.peer.id, cmd_args.self): what the call names peer is the
\* task's dest, what it names self is the task's peer.
PingReq(request, beyond) ==
  LET args == ParsePingReqArgs(request.args, beyond)
      task == [dest |-> args.peer.id, peer |-> args.self.id,
               number |-> Cardinality(added) + 1]
  IN  /\ request.name = "ping-req"
      /\ args # Error
      /\ Cardinality(added) < MaxTasks
      /\ view' \in Settled(Updated(Append(args.rumors, args.self)), 1)
      /\ sent' = <<[name |-> "ping", dest |-> args.peer.id, self |-> Me]>>
      /\ Tasks!Add(task)
      /\ asks' = [asks EXCEPT ![<<args.self.id, args.peer.id>>] = @ + 1]
      /\ UNCHANGED <<running, acks>>

\* The acks of the tasks that wait under id, in their order (PingReqTask::run).
Relayed(id) ==
  [i \in DOMAIN task_index[id] |->
    [name |-> "ack", dest |-> task_index[id][i].task.dest, self |-> task_index[id][i].task.peer]]

\* How many of the messages go to the first one in the name of the second one.
Count(pair, messages) ==
  Cardinality({i \in DOMAIN messages : <<messages[i].dest, messages[i].self>> = pair})

\* A null task ends the process, by the assertion or by the call through it.
\* Such tasks are in front of all others: none has been run then.
Ack(request, beyond) ==
  LET args == ParseArgs(request.args, beyond)
  IN  /\ request.name = "ack"
      /\ args # Error
      /\ Tasks!DoTask(args.self.id)
      /\ running' = (Null \notin results')
      /\ sent' = IF running' THEN Relayed(args.self.id) ELSE << >>
      /\ view' \in Settled(Updated(Append(args.rumors, args.self)), Len(sent'))
      /\ acks' = [pair \in Id \X Id |-> acks[pair] + Count(pair, sent')]
      /\ UNCHANGED asks

\* Command::run catches what _parse_args throws; _handle only logs a name that
\* no command is registered for.
Rejected(request, beyond) ==
  /\ \/ request.name \in {"ping", "ack"} /\ ParseArgs(request.args, beyond) = Error
     \/ request.name = "ping-req" /\ ParsePingReqArgs(request.args, beyond) = Error
     \/ request.name \notin {"ping", "ping-req", "ack"}
  /\ sent' = << >>
  /\ UNCHANGED <<view, tasks, running, asks, acks>>

Accepted(request, beyond) ==
  Ping(request, beyond) \/ PingReq(request, beyond) \/ Ack(request, beyond)

Next ==
  /\ running
  /\ \E request \in Request, beyond \in Statuses \cup {Unknown} :
       \/ Accepted(request, beyond) /\ Handled(request, TRUE)
       \/ Rejected(request, beyond) /\ Handled(request, FALSE)

Spec == Init /\ [][Next]_vars

------------------------------------------------------------------------------
Message == [name : {"ping", "ack"}, dest : Id, self : Id \cup {Me}]

TypeOK ==
  /\ view \in [Id -> Node \cup {None}]
  /\ \A id \in Id : view[id] # None => view[id].id = id
  /\ Tasks!TypeOK
  /\ running \in BOOLEAN
  /\ sent \in Seq(Message)
  /\ asks \in [Id \X Id -> 0 .. MaxTasks] /\ acks \in [Id \X Id -> 0 .. MaxTasks]

\* What a message says of members, wherever it says it: found without parsing
\* from the front.  It is beyond doubt if no node begins inside of another one,
\* as when a member has the name of a type.
Nodes(args, types) == {i \in DOMAIN args : \E type \in types : Fields(type, args, i)}

Apart(args) ==
  \A i, j \in Nodes(args, {"self", "peer", "rumor"}) : i < j => i + 5 <= j

\* What command.cpp:31 has a message say of the node at i: a rumor ends with its
\* status.
SaidStatus(args, i) ==
  IF args[i] = "rumor" /\ i + 5 <= Len(args) /\ args[i + 5] \in Statuses THEN args[i + 5]
  ELSE Alive

SaidNodes(args) == {NodeAt(args, i, SaidStatus(args, i)) : i \in Nodes(args, {"self", "rumor"})}

\* A message counts as a whole or not at all.  If its command accepts it, the
\* process knows every member that the message speaks of in a version at least as
\* new, unless as FAILED, whatever the order of its rumors; a member it does not
\* know afterwards has just been forgotten.  If the message is rejected, nothing
\* that stood in front of the fault has left a trace.  Of the statuses that the
\* message gives this says nothing: StatusTaken does.
AllOrNothing ==
  [][IF last'.accepted
     THEN Apart(last'.request.args) =>
          \A node \in SaidNodes(last'.request.args) :
            IF view'[node.id] = None THEN view[node.id] # None \/ Len(sent') > 1
            ELSE view'[node.id].status # Failed => view'[node.id].version >= node.version
     ELSE UNCHANGED <<view, tasks>> /\ sent' = << >>]_vars

\* The tasks that wait, under whatever id, with that peer and dest.
Waiting(pair) ==
  {task \in added : <<task.peer, task.dest>> = pair
     /\ \E id \in Id : \E i \in DOMAIN task_index[id] : task_index[id][i].task = task}

\* A ping-req that was accepted waits, or has led to one ack between the two
\* members that it names: its task is never run twice, nor dropped, and no ack is
\* passed on that nobody asked for, as long as the process lives.  Which of the
\* two gets the ack, and when, is the matter of PeerAckAnswers.
AckedOnce ==
  running => \A a, b \in Id :
    asks[a, b] + asks[b, a] =
      (acks[b, a] + Cardinality(Waiting(<<a, b>>)))
      + (acks[a, b] + Cardinality(Waiting(<<b, a>>)))

------------------------------------------------------------------------------
\* A request that is as the comments of command.cpp describe it is accepted.  It
\* does not hold as soon as anything follows self.
DocumentedUnderstood == last # None /\ Documented(last.request) => last.accepted

\* A rumor carries a status (command.cpp:31), and the belief about a member is at
\* least as new, and as bad, as every message has it that was accepted.  It does
\* not hold: parse_node looks for the status one token too late, and takes a rumor
\* that ends with SUSPECTED or FAILED for one of a member that is alive.
StatusTaken ==
  [][last'.accepted /\ Apart(last'.request.args) =>
       \A node \in SaidNodes(last'.request.args) :
         view'[node.id] # None => ~Older(view'[node.id], node)]_vars

\* The declaration of PingReqTask (task.h:52) names its arguments id and node,
\* and command.cpp:63 passes the peer's id: the task waits for the peer's ack.
\* When that comes, everybody who asked for it has been sent an ack in the peer's
\* name.  It does not hold: task.cpp:22 takes the two for each other.  The task
\* waits for an ack of the requester, and then sends one to the peer.
PeerAckAnswers ==
  [][\A peer \in Id :
       /\ running' /\ last'.accepted
       /\ last'.request.name = "ack" /\ last'.request.args[2] = peer
       => \A id \in Id : acks'[id, peer] = asks[id, peer]]_vars
==============================================================================
