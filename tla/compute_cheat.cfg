SPECIFICATION Spec
CONSTANTS
  c = c w1 = w1 w2 = w2 w3 = w3 v1 = v1 v2 = v2 none = none
  t1 = t1 t2 = t2 h1 = h1 h2 = h2 h3 = h3
  People = {c, w1, w2, v1}
  None = none
  Supers = {w1, w2, v1}
  Capable = {w1, w2}
  TaskIds = {t1}
  LightTasks = {}
  Hashes = {h1, h2, h3}
  Bounties = {100}
  StakeAmounts = {150}
  InitRep <- Veterans
  InitStake <- AllStaked
  Wealth <- Poor
  MinNodes = 2
  DisputeQuorum = 1
  MinStake = 100
  MaxStake = 10000
  Publishers = {c}
  Stakers = {}
  Kinds = {"grab"}
  Expires = 1
  Window = 1
  Unbond = 1
  FundGenesis = 1
  AuditReward = 1
PROPERTY CheatZeroes
