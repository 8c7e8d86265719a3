SPECIFICATION Spec
CONSTANTS
  Id = {a, b, c}
  Version = {0, 1}
  None = None
  End = End
  MaxRumorNum = 2
  SpreadLimit <- MCSpreadLimit
  Batches <- MCBatches
  NDEBUG = TRUE
SYMMETRY Symmetry
INVARIANTS TypeOK OnePlace StableNotFailed IteratorValid MessageSound
PROPERTY ImplementsMembership
