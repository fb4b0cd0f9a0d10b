SPECIFICATION FairSpec
CONSTANTS
  a = a b = b c = c none = none
  People = {a, b}
  None = none
  BridgeNodes = {a, b}
  Wealth <- Equal
  Staked <- Nothing
  FundGenesis = 1
  PayoutGenesis = 4
  MinPower = 2
  MinEndorsements = 1
  Confirmations = 2
  Discussion = 2
  Voting = 1
  FreezeVoting = 1
  TimeLock = 1
  Freeze = 2
  Types = {"fund", "payout", "freeze", "upgrade", "param", "arb"}
  Targets = {"nova:gov:execute"}
  Amounts = {2}
  MaxProposals = 1
INVARIANTS ProposalsAreSound NovaAddsUp
PROPERTIES IsResolved
