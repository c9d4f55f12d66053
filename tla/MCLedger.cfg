SPECIFICATION Spec
CONSTANTS
  Parts = {"headers", "staking", "rewards", "pool", "journal", "forks", "rewinds", "crashes"}
  acc1 = acc1
  acc2 = acc2
  prov = prov
  NoProvider = NoProvider
CHECK_DEADLOCK FALSE
INVARIANTS HeadersJudged EVMTakesTop RewardsAddUp IndexesAgree PoolSettled HeadIsIndexed HeadLoads
 
