SPECIFICATION Spec
CONSTANTS
  N = 2
  Nil = Nil
  Accepted <- Blocks
  Honest = {0, 1}
  Faulty = {}
  FaultyMessages = {}
  MaxRound = 2
  MaxHeight = 1
  MaxMined <- One
  MaxRetry <- None
  MaxStops <- None
INVARIANT OnlyLegitProposals
CHECK_DEADLOCK FALSE
