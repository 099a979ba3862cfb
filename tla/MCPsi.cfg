CONSTANTS
  N = 3
  SetSize = 2
  NumBins = 3
  NumCores = 2
  MaxBinSize = 1
  MaxColumns = 3
  Key <- MCKey
  Value <- MCValue
  Dummy = 0
  Hashings <- MCHashings
  EleIndex <- MCEleIndex
  Strategies = {"NAIVE_METHOD_SMALL_N", "SIMPLE_HASH", "POLYNOMIALS",
                "POLYNOMIALS_SIMPLE_HASH", "BLOOM_FILTER"}
  None = None
SPECIFICATION Spec
CHECK_DEADLOCK FALSE
INVARIANTS
  StreamsAgree
PROPERTIES
  ImplementsPsi
