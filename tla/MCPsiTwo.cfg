CONSTANTS
  N = 2
  SetSize = 3
  NumBins = 4
  NumCores = 2
  MaxBinSize = 1
  MaxColumns = 3
  Key <- MCKeyTwo
  Value <- MCValueTwo
  Dummy = 0
  Hashings <- MCHashingsTwo
  EleIndex <- MCEleIndex
  Strategies = {"NAIVE_METHOD_SMALL_N", "SIMPLE_HASH", "POLYNOMIALS",
                "NAIVE_METHOD_LARGE_N", "GAUSS_SIMPLE_HASH", "TWO_PARTY"}
  None = None
SPECIFICATION FairSpec
CHECK_DEADLOCK FALSE
INVARIANTS
  ExactWhenHashed
  OnlyOwnXor
PROPERTIES
  RunEnds
