----------------------- MODULE MCRecentlyUpdatedFetch -----------------------
EXTENDS RecentlyUpdatedFetch, TLC
Symmetry == Permutations(Id)
==============================================================================
