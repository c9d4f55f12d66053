SPECIFICATION SingleSpec
CONSTANTS
  h1 = h1
  h2 = h2
  h3 = h3
  f1 = f1
  b1 = b1
  b2 = b2
  nil = nil
  MaxRound = 1
  Honest <- MCHonest
  Faulty <- MCFaulty
  Value <- MCValue
  Nil = nil
  Round <- MCRound
SYMMETRY Symmetry
CHECK_DEADLOCK FALSE
INVARIANTS Agreement LocksHold
