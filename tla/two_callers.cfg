SPECIFICATION SpecCallers
CONSTANTS
  Id = {a, b}
  Reported = {a}
  Version = {0, 1}
  None = None
  End = End
  MaxRumorNum = 2
  SpreadLimit <- MCSpreadLimit
  Batches <- MCBatches
  NDEBUG = TRUE
INVARIANT AddAssertion
