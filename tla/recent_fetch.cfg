SPECIFICATION Spec
CONSTANTS
  Id = {a, b, c}
  Version = {0}
  None = None
  Sizes = {0, 1, 2, 3}
  Limits = {1, 2}
SYMMETRY Symmetry
INVARIANTS TypeOK
PROPERTY ImplementsSet
