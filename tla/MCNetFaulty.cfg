SPECIFICATION Spec
CONSTANTS
  N = 4
  Nil = Nil
  Accepted <- AllButB
  Honest = {1}
  Faulty = {0, 2, 3}
  FaultyMessages <- AnyVotes
  MaxRound = 2
  MaxHeight = 1
  MaxMined <- None
  MaxRetry <- None
  MaxStops <- None
CONSTRAINT InOrder
CHECK_DEADLOCK FALSE
INVARIANTS NoPanic OneVotePerRound LockRule SameProposer 
PROPERTY NeverBack
