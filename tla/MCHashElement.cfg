CONSTANTS
  HfValue <- MCHfValue
  None = None
  Inputs <- MCPowerOfTwo
  NumElements = 3
  NumHashes = 3
  NumSlots = 16
  Digests <- OneDigest
  Systems = {}
  IntBits = 12
  Counts = {}
SPECIFICATION Spec
CHECK_DEADLOCK FALSE
INVARIANTS
  HashedByPermutation
