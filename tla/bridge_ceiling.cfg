SPECIFICATION Spec
CONSTANTS
  n1 = n1 n2 = n2 n3 = n3 u1 = u1 u2 = u2 k1 = k1 k2 = k2
  nUSDT = nUSDT NOVA = NOVA
  Nodes = {n1, n2}
  Users = {u1}
  Keys = {k1, k2}
  Assets = {nUSDT, NOVA}
  Nova = NOVA
  Price <- OneUsd
  MinFee <- UnitFee
  FeeDivisor = 1000
  Amounts = {3}
  NodeStake = 5
  MaxNodes = 21
  RequiredSigs = 2
  NodeMinAge = 0
  Unbond = 1
  DailyLimit = 1
  Tier1 = 9
  Tier2 = 9
  ReviewLimit = 9
  Delay1 = 1
  Delay2 = 2
  ReviewDelay = 3
  NovaGenesis = 5
  MaxDeposits = 2
  MaxWithdrawals = 0
  MaxExits = 0
INVARIANTS HardCeiling
CHECK_DEADLOCK FALSE
