SPECIFICATION Spec
CONSTANTS
  N = 2
  Nil = Nil
  Accepted <- Blocks
  Honest = {0, 1}
  Faulty = {}
  FaultyMessages = {}
  MaxRound = 0
  MaxHeight = 2
  MaxMined <- One
  MaxRetry <- None
  MaxStops <- One
CHECK_DEADLOCK FALSE
INVARIANTS TimerRuns SentIsStored
PROPERTY NeverBack
