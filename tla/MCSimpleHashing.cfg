CONSTANTS
  NumEles = 5
  NumBins = 6
  NumTasks = 2
  Addresses <- MCAddresses
SPECIFICATION Spec
CHECK_DEADLOCK FALSE
INVARIANTS
  NeverPastBin
  ThreadsDoNotMatter
  PolynomialsAnswer
  OneRealPerBin
  SpillHarmsNobodyElse
