CONSTANTS
  N = 4
  Leader = 2
  SetSize = 2
  Capacities = {2, 3}
SPECIFICATION FairSpec
CHECK_DEADLOCK FALSE
INVARIANTS
  ReadsWhatWasMeant
  RingSumsEverything
  DecryptedByEveryone
  StuckOnlyInPoly
PROPERTIES
  EveryoneEnds
