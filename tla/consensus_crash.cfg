SPECIFICATION Spec
CONSTANTS
  t1 = t1 t2 = t2 t3 = t3 t4 = t4 t5 = t5
  N = 2
  Txs = {t1, t2}
  StakeBy <- T1Stakes
  GenesisStake <- Stakes2
  GenesisDraw = 0
  Draws = {0}
  MaxStake = 10000
  EpochLen = 2
  JailEpochs = 1
  MissThreshold = 3
  InactivityPct = 1
  EquivocationPct = 5
  MaxBlocks = 4
  MaxTimeouts = 1
  MaxCrashes = 1
INVARIANTS ChainsAreSound
PROPERTIES EquivocatorsArePenalised
CHECK_DEADLOCK FALSE
