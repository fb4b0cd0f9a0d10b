SPECIFICATION FairSpec
CONSTANTS
  n1 = n1 n2 = n2 n3 = n3 u1 = u1 u2 = u2 k1 = k1 k2 = k2
  nUSDT = nUSDT NOVA = NOVA
  Nodes = {n1, n2}
  Users = {u1}
  Keys = {k1}
  Assets = {nUSDT, NOVA}
  Nova = NOVA
  Price <- NovaIsDearer
  MinFee <- UnitFee
  FeeDivisor = 1000
  Amounts = {2}
  NodeStake = 5
  MaxNodes = 21
  RequiredSigs = 2
  NodeMinAge = 1
  Unbond = 1
  DailyLimit = 2
  Tier1 = 3
  Tier2 = 9
  ReviewLimit = 4
  Delay1 = 1
  Delay2 = 2
  ReviewDelay = 2
  NovaGenesis = 5
  MaxDeposits = 2
  MaxWithdrawals = 1
  MaxExits = 1
INVARIANTS SettledIsEarned OneDepositPerSource MoneyAddsUp
PROPERTIES CreditOnce WithdrawalSettles
CHECK_DEADLOCK FALSE
