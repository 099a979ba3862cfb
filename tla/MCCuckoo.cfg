CONSTANTS
  NumEles = 3
  NumBins = 4
SPECIFICATION Spec
INVARIANTS
  RestsAtAnAddress
  HeldOnce
  NoSilentLoss
  CompleteInfo
  FailureIsContained
  HashedByIsNotDummy
CHECK_DEADLOCK FALSE
