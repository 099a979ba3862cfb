CONSTANTS
  HfValue <- MCHfValue
  None = None
  Inputs <- MCInputs
  NumElements = 3
  NumHashes = 3
  NumSlots = 16
  Digests <- MCDigests
  Systems <- MCSystems
  IntBits = 12
  Counts = {2, 3, 4, 5, 6}
SPECIFICATION Spec
CHECK_DEADLOCK FALSE
INVARIANTS
  SameWhereverItLies
  ApartUnlessForgotten
  FilterAnswers
  AgreesWithSearch
  ZeroStaysZero
