-------------------------- MODULE MCGossipNetHistory -------------------------
EXTENDS GossipNetHistory, TLC
\* lambda = 2: size_t(2 log 1) + 1 = 1, size_t(2 log 2) + 1 = 2 and
\* size_t(2 log 3) + 1 = 3.
MCSpreadLimit == [size \in 0 .. Cardinality(Id) |-> IF size = 0 THEN 1 ELSE size]
MCBatches == {<<node>> : node \in Node}
==============================================================================
