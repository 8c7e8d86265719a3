SPECIFICATION Spec
CONSTANTS
  Id = {a, b, c, d}
  Version = {0, 1}
  None = None
  End = End
  MaxFetch = 5
SYMMETRY Symmetry
INVARIANTS TypeOK FetchedOnce
PROPERTY SweepComplete
