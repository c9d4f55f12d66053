SPECIFICATION Spec
CONSTANTS
  Parts = {"line", "fork", "full", "leaving", "fast"}
  f1 = f1
  f2 = f2
  a1 = a1
  a2 = a2
  b1 = b1
  g = g
  txs = txs
  none = none
  p1 = p1
  p2 = p2
CHECK_DEADLOCK FALSE
SYMMETRY Symmetry
INVARIANTS FetcherAccounts DownloadAccounts 
