SPECIFICATION FairSpec
CONSTANTS
  N = 2
  Nil = Nil
  Accepted <- Blocks
  Honest = {0, 1}
  Faulty = {}
  FaultyMessages = {}
  MaxRound = 1
  MaxHeight = 2
  MaxMined <- OnlyFirst
  MaxRetry <- None
  MaxStops <- OnlyFirst
PROPERTIES NextHeight Progress
CHECK_DEADLOCK FALSE
