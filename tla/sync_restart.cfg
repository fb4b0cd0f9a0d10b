SPECIFICATION FairSpec
CONSTANTS
  n1 = n1 n2 = n2 n3 = n3 t1 = t1 t2 = t2 p1 = p1 p2 = p2
  Nodes = {n1, n2}
  Txs = {t1, t2}
  Payers = {p1, p2}
  Payer <- OwnPayers
  Cost <- UnitCost
  Funds = 1
  BridgeTxs = {}
  Seeds = {n1}
  SyncFromSeeds = TRUE
  MaxBlocks = 2
  MaxCrashes = 1
INVARIANTS NothingTwice
PROPERTIES ExecutedIsSealed
CHECK_DEADLOCK FALSE
