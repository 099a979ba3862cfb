CONSTANTS
  NumEles = 4
  NumBins = 5
  NumTasks = 6
  Addresses <- MCOneAddress
SPECIFICATION Spec
CHECK_DEADLOCK FALSE
INVARIANTS
  NeverDies
