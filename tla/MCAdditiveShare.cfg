CONSTANTS
  N = 4
  MaxCrashes = 1
SPECIFICATION FairSpec
INVARIANTS
  SharesCancel
  NoSubsetCancels
  GarbageOnlyFromDead
PROPERTIES
  EveryPartyReturns
CHECK_DEADLOCK FALSE
