--------------------------- MODULE MCPendingLists ----------------------------
EXTENDS PendingLists
\* Two tasks wait for one member and one for another.
MCTask == 1 .. 3
MCIdOf == [task \in MCTask |-> IF task = 3 THEN "b" ELSE "a"]
==============================================================================
