SPECIFICATION Spec
CONSTANTS
  n1 = n1 n2 = n2 n3 = n3 f1 = f1 f2 = f2 none = none
  None = none
  Size <- OneGb
  Nodes = {n1, n2}
  Cids = {f1, f2}
  Uploads = {f1}
  BaseQuota = 1
  GbPerStake = 1
  StakeAmounts = {10}
  Capacities = {1}
  Wealth <- OneStaker
  FundGenesis = 1
  SlashAfter = 2
  SlashPct = 10
  RewardPerGb = 1
  ReassignFee = 1
  HotFee = 1
  ChallengeFiles = 3
  MaxReplicas = 10
  MinHealthy = 2
  HotReplicas = 3
  ExitDays = 1
  MaxStake = 100
  MaxTotalStake = 1000
  MaxIncidents = 1
INVARIANTS RecordsAreSound MoneyIsEarned
PROPERTIES LeaversTakeNothing RedIsTold
