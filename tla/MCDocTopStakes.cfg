SPECIFICATION Spec
CONSTANTS
  Parts = {"staking"}
  acc1 = acc1
  acc2 = acc2
  prov = prov
  NoProvider = NoProvider
CHECK_DEADLOCK FALSE
INVARIANT StateDBTakesTop
