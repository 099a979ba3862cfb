CONSTANTS
  RegisterBits = 8
  CodeWordBits = 2
  NumOtBlocks = 2
  Word = 64
  Room = 1
  Setups <- MCSetups
SPECIFICATION FairSpec
CHECK_DEADLOCK FALSE
INVARIANTS
  BatchesMatch
  WholeUnlessShared
PROPERTIES
  BothFinish
