SPECIFICATION Spec
CONSTANTS
  Id = {a, b, c}
  Version = {0, 1}
  None = None
  End = End
  MaxRumorNum = 2
  SpreadLimit <- MCSpreadLimit
  Batches <- MCBatches
  NDEBUG = FALSE
SYMMETRY Symmetry
CHECK_DEADLOCK FALSE
INVARIANT FetchAssertion
