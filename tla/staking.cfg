SPECIFICATION Spec
CONSTANTS
  n1 = n1 n2 = n2
  Nodes = {n1, n2}
  StakeAmounts = {2, 4}
  UnstakeAmounts = {1}
  UpgradeAmounts = {1}
  TransferAmounts = {1}
  Wealth <- Uneven
  PoolGenesis = 12
  FundGenesis = 0
  Supply = 20
  MinStake = 4
  RecruitStake = 2
  MaxStake = 8
  MaxTotalStake = 12
  MinActive = 2
  Critical = 1
  Reward = 12
  Unbond = 1
  FreezeDays = 1
  MaxTransfers = 1
  MaxStakings = 3
  MaxIncidents = 1
INVARIANTS BooksBalance GradualExit
PROPERTIES OldStakeKept RewardArrives
