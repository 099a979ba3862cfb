CONSTANTS
  N = 3
  Cores = {1, 2}
  MayDie = {1, 2}
SPECIFICATION FairSpec
CHECK_DEADLOCK FALSE
INVARIANTS
  SocketsMeet
  ShortOfSockets
  NoCircleOfWaits
  RunsTogether
  ReceivesWhatItExpects
  ResultsOfTheLiving

  
