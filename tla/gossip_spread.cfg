SPECIFICATION HSpec
CONSTANTS
  Id = {a, b, c}
  Version = {0}
  None = None
  End = End
  MaxRumorNum = 2
  SpreadLimit <- MCSpreadLimit
  Batches <- MCBatches
  NDEBUG = TRUE
PROPERTIES SpreadBeforeStable Drains
