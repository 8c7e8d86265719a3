------------------------------- MODULE MCWire --------------------------------
EXTENDS Wire
MCId == {"", "a"}
MCNumber == [token \in {"1", "2", "7"} |-> SelectInSeq(Digit, LAMBDA d : d = token) - 1]
MCSelf == Node
MCRumors == BoundedSeq({node \in Node : node.id = "a" /\ node.version = 1}, 2)

\* Requests without and with arguments, among them an empty one and one that is
\* long enough for a length of two digits.
Long == [i \in 1 .. 11 |-> "x"]
Written ==
  {[name |-> name, args |-> args] :
     name \in {<<"p">>, <<"a", "c", "k">>},
     args \in {<< >>, <<<<"x">>>>, <<<<"$", "1">>, << >>>>, <<Long, Long, <<"x">>>>, [i \in 1 .. 9 |-> <<"x">>]}}

Pairs == Written \X Written

Cuts(reqs) ==
  LET data == EncodedAll(reqs)
  IN  {[data |-> SubSeq(data, 1, n), written |-> reqs, own |-> FALSE] : n \in 0 .. Len(data)}

MCDatagram ==
  UNION {Cuts(reqs) : reqs \in {<<request>> : request \in Written} \cup Pairs}
  \cup OwnDatagram
==============================================================================
