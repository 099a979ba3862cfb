CONSTANTS
  N = 3
  SetSize = 2
  NumBins = 3
  NumCores = 2
  MaxBinSize = 1
  MaxColumns = 3
  Key <- MCKey
  Value <- MCValue
  Dummy = 0
  Hashings <- MCHashings
  EleIndex <- MCEleIndex
  Strategies = {"POLYNOMIALS"}
  None = None
SPECIFICATION Spec
CHECK_DEADLOCK FALSE
INVARIANTS
  PublishedIsRight
