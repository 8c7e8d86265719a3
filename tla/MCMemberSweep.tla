---------------------------- MODULE MCMemberSweep ----------------------------
EXTENDS MemberSweep, TLC
Symmetry == Permutations(Id)
==============================================================================
