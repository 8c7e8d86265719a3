----------------------------- MODULE MCGossipNet -----------------------------
EXTENDS GossipNetProperties, TLC
\* lambda = 1: size_t(log 1) + 1 = size_t(log 2) + 1 = 1, size_t(log 3) + 1 = 2.
\* Entry 0, where log diverges, is never used on a member: there is none.
MCSpreadLimit == [size \in 0 .. Cardinality(Id) |-> IF size < 3 THEN 1 ELSE 2]
\* The calls the commands make with at most one rumor: the sender, alive, comes
\* last.  And any one rumor, as another caller of update may pass it.
MCBatches ==
  {<<node>> : node \in Node} \cup
  {<<rumor, self>> : rumor \in Node, self \in {node \in Node : node.status = Alive}}
Symmetry == Permutations(Id)
==============================================================================
