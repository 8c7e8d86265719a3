----------------------------- MODULE MCCommands ------------------------------
EXTENDS Commands
\* Members may have any name: two have the name of a status.
MCId == {"a", "b", "SUSPECTED", "FAILED"}

MCNumber == [token \in {"1", "2", "7946"} |->
               CASE token = "1" -> 1 [] token = "2" -> 2 [] token = "7946" -> 7946]

Part5(type, id, version) == <<type, id, "ip", "7946", version>>
Self(id, version)  == Part5("self", id, version)
Peer(id, version)  == Part5("peer", id, version)
Rumor(id, version) == Part5("rumor", id, version)
Pad == <<"-">>

Requests(name, args) == [name : {name}, args : args]

\* self alone, and self with a rumor in the form that the comments describe.
Plain == {Self(id, version) : id \in {"a", "b"}, version \in {"1", "2"}}
WithStatus == {Self("a", "2") \o Rumor("b", "1") \o <<"SUSPECTED">>}

\* What parse_node takes: a token in place of each status but the last.
Padded ==
  {Self("a", version) \o Pad \o Rumor("b", rumor) : version, rumor \in {"1", "2"}}
  \cup {Self("b", "1") \o Pad \o Rumor("a", "2") \o Pad \o Rumor("a", "1")}

\* The status of a rumor, which is looked for one token further on: at the end, and
\* in front of a rumor that has none.
Spoken ==
  {Self("a", "1") \o Pad \o Rumor("b", "1") \o <<"SUSPECTED">>,
   Self("a", "1") \o Pad \o Rumor("b", "1") \o <<"FAILED">> \o Rumor("a", "1")}

\* A member with the name of a status, where the status of self is looked for.
Named == {Self("a", version) \o Rumor(id, "1") : version \in {"1", "2"}, id \in {"SUSPECTED", "FAILED"}}

\* One token too many, and a version that is no number behind a good rumor.
Faulty ==
  {Self("b", "2") \o Pad,
   Self("b", "2") \o Pad \o Rumor("a", "1") \o Pad \o Rumor("a", "x")}

AskPlain == {Self("a", "1") \o Peer("b", "1")}
AskPadded ==
  {Self("a", "1") \o Pad \o Peer("b", "1"), Self("b", "2") \o Pad \o Peer("a", "1"),
   Self("a", "1") \o Pad \o Peer("b", "1") \o Pad \o Rumor("b", "2")}

MCRequest ==
  Requests("ping", Plain \cup WithStatus \cup Padded \cup Spoken \cup Named \cup Faulty)
  \cup Requests("ping-req", AskPlain \cup AskPadded)
  \cup Requests("ping_req", AskPlain)
  \cup Requests("ack", Plain \cup WithStatus \cup Padded \cup Spoken)
==============================================================================
