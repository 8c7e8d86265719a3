---------------------------- MODULE MCTwoCallers ----------------------------
EXTENDS TwoCallers

\* The members that there are rumors about.  A member that is recorded twice is
\* counted twice, and SpreadLimit has to have a value for that.
CONSTANT Reported    \* some of Id

MCSpreadLimit == [size \in 0 .. Cardinality(Id) |-> 1]
MCBatches == {<<node>> : node \in {n \in Node : n.id \in Reported}}
==============================================================================
