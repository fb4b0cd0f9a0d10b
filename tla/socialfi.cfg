SPECIFICATION Spec
CONSTANTS
    Creator = creator
    Users = {bot, bea}
    Jury = {jo, jan, jim}
    Bot = bot
    Owner = owner
    Wealth <- MCWealth
    Supply = 3
    FanPrice = 2
    Stakes = {3, 5}
    BondAmounts = {4, 6}
    FundAmounts = {5, 9}
    Royalties = {7, 10}
    BoxPrice = 4
    Reserves = {0, 5}
    Prizes = {0, 3}
    CuratePrice = 5
    FractionPrice = 3
    TextPrice = 5
    Budgets = {4, 8}
    Rate = 50
    Term = 1
    Release = 1
    JuryTimeout = 1
    Quorum = 2
    JuryMax = 3
    Games = {"fan", "rev", "mkt", "box", "cur", "frac", "bond", "text"}
    MaxOps = 8
    MaxDay = 4
INVARIANTS BooksBalance NothingCountsTwice
PROPERTIES RedeemingHurtsNobody EscrowHoldsDeposits SilenceEnds
CHECK_DEADLOCK FALSE
