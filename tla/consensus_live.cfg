SPECIFICATION FairSpec
CONSTANTS
  t1 = t1 t2 = t2 t3 = t3 t4 = t4 t5 = t5
  N = 2
  Txs = {t1, t2}
  StakeBy <- NoStake
  GenesisStake <- Stakes2
  GenesisDraw = 0
  Draws = {0, 350}
  MaxStake = 10000
  EpochLen = 2
  JailEpochs = 1
  MissThreshold = 2
  InactivityPct = 1
  EquivocationPct = 5
  MaxBlocks = 4
  MaxTimeouts = 3
  MaxCrashes = 0
INVARIANTS Agreement MissesAreWitnessed
PROPERTIES PendingIsSealed
CHECK_DEADLOCK FALSE
