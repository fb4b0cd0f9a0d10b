SPECIFICATION Spec
CONSTANTS
  a1 = a1 a2 = a2 a3 = a3 bea = bea sam = sam meg = meg t1 = t1
  Arbs = {a1, a2, a3}
  Servings <- WithOrWithout
  Eligibles = {a1}
  Parties = {bea, sam}
  Buyers = {bea}
  Members = {meg}
  Ties = {}
  Trades = {t1}
  Wealth <- NovaOf
  EcoGenesis = 200
  StartRep = 31
  StartEnd = 2
  Week = 1
  VoteWindow = 0
  Month = 3
  Term = 4
  PanelSize = 2
  SecondSize = 1
  StreakLen = 2
  SuspectRepeat = 1
  AgreeMin = 1
  MalLimit = 1
  MalLockCount = 2
  ConfirmMin = 2
  Accusers = {meg, bea}
  Restless = {a1}
  MaxCases = 1
  LastFiling = 1
  MaxOps = 2
  MaxDay = 3
INVARIANTS BenchesAreSound
PROPERTIES NovaAddsUp VerdictsStand TwoAccusers
CHECK_DEADLOCK FALSE
