------------------------------ MODULE ParseNode ------------------------------
(***************************************************************************)
(* parse_node and parse_rumors: how the arguments of a command, a sequence *)
(* of tokens, are read.  The arguments are kept token by token because the *)
(* code tells a status from the next rumor by looking ahead in them.       *)
(*                                                                         *)
(* An iterator is an index; args.end() is Len(args) + 1.  For six tokens   *)
(* parse_node reads *args.end(): `beyond' is what parse_status makes of    *)
(* the memory there.                                                       *)
(***************************************************************************)
EXTENDS NodeOrder, Sequences

CONSTANTS
  Number,   \* [the tokens that std::from_chars can read -> their values]
  Error     \* an Error is thrown

ASSUME ParseAssumption == Number \in [DOMAIN Number -> Nat]

Unknown  == "UNKNOWN"
Statuses == {Alive, Suspected, Failed}

ParseStatus(token) == IF token \in Statuses THEN token ELSE Unknown

\* The five tokens from first on are a node of that type.
Fields(type, args, first) ==
  /\ first + 4 <= Len(args)
  /\ args[first] = type
  /\ {args[first + 3], args[first + 4]} \subseteq DOMAIN Number

\* Mutant: the port is taken for the version.
NodeAtPort(args, first, status) ==
  [id |-> args[first + 1], version |-> Number[args[first + 3]], status |-> status]

NodeAt(args, first, status) ==
  [id |-> args[first + 1], version |-> Number[args[first + 4]], status |-> status]

\* With more than five tokens left it is the seventh that is tried as a status.
Peek(args, first, beyond) ==
  IF first + 6 <= Len(args) THEN ParseStatus(args[first + 6]) ELSE beyond

\* The node, and the iterator: the sixth token is skipped when the seventh is
\* not a status.
ParseNode(type, args, first, beyond) ==
  LET more   == first + 4 < Len(args)
      status == IF more THEN Peek(args, first, beyond) ELSE Alive
  IN  IF ~Fields(type, args, first) THEN Error
      ELSE IF status = Unknown
           THEN [node |-> NodeAt(args, first, Alive), first |-> first + 6]
           ELSE [node |-> NodeAt(args, first, status), first |-> first + 5]

\* Mutant: the rumors up to the first bad one are taken.
ParseRumorsLeniently(args, first, beyond) ==
  LET from[i \in first .. Len(args) + 1] ==
        LET parsed == ParseNode("rumor", args, i, beyond)
        IN  IF i > Len(args) \/ parsed = Error THEN << >>
            ELSE <<parsed.node>> \o from[parsed.first]
  IN  from[first]

ParseRumors(args, first, beyond) ==
  LET from[i \in first .. Len(args) + 1] ==
        LET parsed == ParseNode("rumor", args, i, beyond)
        IN  IF i > Len(args) THEN << >>
            ELSE IF parsed = Error \/ from[parsed.first] = Error THEN Error
            ELSE <<parsed.node>> \o from[parsed.first]
  IN  from[first]

\* PingCommand::_parse_args and AckCommand::_parse_args.
ParseArgs(args, beyond) ==
  LET self   == ParseNode("self", args, 1, beyond)
      rumors == ParseRumors(args, self.first, beyond)
  IN  IF self = Error \/ rumors = Error THEN Error
      ELSE [self |-> self.node, rumors |-> rumors]

\* PingReqCommand::_parse_args.
ParsePingReqArgs(args, beyond) ==
  LET self   == ParseNode("self", args, 1, beyond)
      peer   == ParseNode("peer", args, self.first, beyond)
      rumors == ParseRumors(args, peer.first, beyond)
  IN  IF self = Error \/ peer = Error \/ rumors = Error THEN Error
      ELSE [self |-> self.node, peer |-> peer.node, rumors |-> rumors]

------------------------------------------------------------------------------
\* What command.cpp:31, 53 and 81 say of the arguments: self, for a ping-req
\* peer, and any number of rumors that end with a status.
Part(type, args, first) == Fields(type, args, first) /\ args[first + 1] \in Id

DocumentedRumors(args, first) ==
  /\ first <= Len(args) + 1
  /\ (Len(args) + 1 - first) % 6 = 0
  /\ \A i \in first .. Len(args) :
       (i - first) % 6 = 0 => Part("rumor", args, i) /\ args[i + 5] \in Statuses

Documented(request) ==
  /\ Part("self", request.args, 1)
  /\ \/ request.name \in {"ping", "ack"} /\ DocumentedRumors(request.args, 6)
     \/ /\ request.name = "ping-req"
        /\ Part("peer", request.args, 6) /\ DocumentedRumors(request.args, 11)
==============================================================================
