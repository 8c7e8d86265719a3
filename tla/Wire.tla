-------------------------------- MODULE Wire ---------------------------------
(***************************************************************************)
(* The messages that GossipNet::ping and ack build, against the parser     *)
(* that reads them on the other side and the form that the commands'       *)
(* comments give them.  A word (a type, an id, a status) is one byte of    *)
(* text; _self, which nobody sets, has the empty id.                       *)
(***************************************************************************)
EXTENDS Resp, ParseNode

CONSTANTS
  Port,     \* the port that goes with every node
  Self,     \* what _self may be
  Rumors    \* the sequences that _build_rumors may return

ASSUME WireAssumption ==
  /\ Port \in Nat /\ Self \subseteq Node /\ Rumors \subseteq Seq(Node)
  /\ Id \cup Statuses \cup {"ping", "ack", "self", "rumor", "ip"} \subseteq STRING

Word(token) == IF token = "" THEN << >> ELSE <<token>>

\* Mutant: append_status is ignored.
AppendNodeStatus(type, node, append_status) ==
  AppendSimpleString(Word(type)) \o AppendSimpleString(Word(node.id))
    \o AppendSimpleString(<<"ip">>) \o AppendSimpleString(Decimal[Port])
    \o AppendSimpleString(Decimal[node.version])
    \o AppendSimpleString(Word(node.status))

AppendNode(type, node, append_status) ==
  AppendSimpleString(Word(type)) \o AppendSimpleString(Word(node.id))
    \o AppendSimpleString(<<"ip">>) \o AppendSimpleString(Decimal[Port])
    \o AppendSimpleString(Decimal[node.version])
    \o IF append_status THEN AppendSimpleString(Word(node.status)) ELSE << >>

\* What ping and ack hand to _server.send.
Built(name, self, rumors) ==
  AppendArray(1 + 5 + 6 * Len(rumors))
    \o AppendSimpleString(Word(name))
    \o AppendNode("self", self, FALSE)
    \o FlattenSeq([i \in DOMAIN rumors |-> AppendNode("rumor", rumors[i], TRUE)])

------------------------------------------------------------------------------
(* What it is meant to say *)

Part5(type, node) ==
  <<Word(type), Word(node.id), <<"ip">>, Decimal[Port], Decimal[node.version]>>

OwnRequest(name, self, rumors) ==
  [name |-> Word(name),
   args |-> Part5("self", self)
              \o FlattenSeq([i \in DOMAIN rumors |->
                               Append(Part5("rumor", rumors[i]), Word(rumors[i].status))])]

OwnDatagram ==
  {[data |-> Built(name, self, rumors), written |-> <<OwnRequest(name, self, rumors)>>, own |-> TRUE] :
     name \in {"ping", "ack"}, self \in Self, rumors \in Rumors}

\* What arrives is what a client wrote in its memory, cut off anywhere, or what a
\* node has built.
ASSUME ArrivalAssumption ==
  \A arrived \in Datagram :
    \/ arrived \in OwnDatagram
    \/ /\ arrived.written \in Seq(Request) /\ Len(EncodedAll(arrived.written)) <= SizeMax
       /\ IsPrefix(arrived.data, EncodedAll(arrived.written))

\* The lines of a datagram: the elements of a RESP array of simple strings.
Lines(data) ==
  LET ends == SelectSeq([i \in DOMAIN data |-> i], LAMBDA i : data[i] = "\n")
  IN  [k \in DOMAIN ends |-> SubSeq(data, IF k = 1 THEN 1 ELSE ends[k - 1] + 1, ends[k] - 2)]

Token(line) == IF Len(line) = 1 THEN "" ELSE line[2]

\* Read as RESP, a message that a process sends is one array of simple strings,
\* of the length it announces, and a request in the form that the comments of
\* command.cpp give (31 and 81): the count that ping and ack compute, and what
\* _append_node appends for a sender and for a rumor, agree.
OwnDocumented ==
  datagram.own =>
    LET lines   == Lines(datagram.data)
        strings == Tail(lines)
    IN  /\ lines[1] = <<"*">> \o Decimal[Len(strings)]
        /\ \A i \in DOMAIN strings : strings[i][1] = "+"
        /\ Documented([name |-> Token(strings[1]),
                       args |-> [i \in 1 .. Len(strings) - 1 |-> Token(strings[i + 1])]])

\* A process understands what another one sends it.  It does not hold: the
\* builder writes simple strings, +str\r\n, and the parser wants bulk strings,
\* $n\r\nxxxxx\r\n, as the comments beside them say (resp.h:59, resp.cpp:112).
OwnUnderstood ==
  outcome # "parsing" /\ datagram.own => requests = datagram.written
==============================================================================
