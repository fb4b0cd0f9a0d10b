SPECIFICATION Spec
CONSTANTS
    ann = ann
    bob = bob
    cat = cat
    chainlink = chainlink
    pyth = pyth
    binance = binance
    Users = {ann, bob, cat}
    Wealth <- MCWealth
    Genesis <- MCGenesis
    Parts <- MCParts
    MaxOps <- MCMaxOps
    MaxDay <- MCMaxDay
    Unit <- MCUnit
    FirstReserves <- MCFirst
    Tokens <- MCTokens
    Amounts0 <- MCAmounts0
    Amounts1 <- MCAmounts1
    Rates = {20}
    MinLiquidity = 1000
    Sources = {chainlink, pyth, binance}
    Prices = {20, 22, 100}
    Contents = {song}
    OracleStake = 500
    MaxOracles = 3
    Cooling = 1
    VerifyReward = 1
    VerifyCap = 5
    VerifyTerm = 1
    MaxRequests = 1
    FirstNodes = {ann, bob}
    Payee = cat
    Validators <- MCValidators
    SeedNodes <- MCValidators
    Spendings = {380, 500}
    Window = 5
    Week = 4
    Month = 2
    FreezeFor = 4
    EcoLine = 40
    ValLine = 50
    ReserveLine = 2500
    Compensation = 5
    Subsidy = 100
    SailPrice = 100
    SailTotal = 1
    Artists = {ann}
    Workers = {bob, cat}
    Weight <- MCWeight
    WorkPrices = {10}
    TriggerFee = 2
    SpendAmounts = {10, 20, 30}
    SpendLimit = 20
    Approvals = 2
    PendingTerm = 1
    SubCreator = ann
    Tiers <- MCTiers
    MonthDays = 1
    Files = {tune}
    tune = tune
    PinDays = {1}
    DayReward = 3
    ProofReward = 2
    MaxCommit = 6
    MaxHolders = 2
    ChainLen = 2
    OrderDays = {1}
    OrderSums = {8}
    Replicas = {1, 2}
    FirstProviders = {bob, cat}
    Owners = {ann, bob}
    MaxOrders = 1
    Kind <- MCKind
    Holdings <- MCHoldings
    EvmAddrs = {e1, e2}
    e1 = e1
    e2 = e2
    AmountFee = 1
    UnitFee = 1
    PayGas = 1
    BurnGas = 2
    EvmAmounts = {1, 2}
    EvmSums = {2496}
    Contracts = {k1, k2}
    k1 = k1
    k2 = k2
    Deployed = {k1}
    Born = {k2}
    Callers = {ann}
    LeastGas = 1
    GasCosts = {1, 3000}
    SlotValues = {1}
    CallValues = {5}
    MaxDepth = 2
    MaxSteps = 3
    EarlyNodes = {n1}
    n1 = n1
    n2 = n2
    EarlyFund = 100
    Airdrop = 20
    ScaleGrant = 50
    MinerReward = 30
    LightReward = 10
    MaxMiners = 2
    MaxLight = 2
    LockFor = 2
    MonthLen = 1
    ReleaseDay = 2
    QualifyDays = 1
    EarlyUsers = {ann, bob}
    Visitors = {bob}
    DidKinds = {email}
    email = email
    Makers = {ann}
    Bound = {ann}
    DidStake <- MCStaked
    VoterMin = 1000
    MinVotes = 2
    AppTerm = 1
    DidSums = {2000}
    FomoNodes = {n1, n2}
    Buys <- MCBuys
    ShortWindow = 3
    LongWindow = 8
    ShortLimit = 10
    LongLimit = 15
    CoolFor = 3
INVARIANTS LimitsHold ClaimsAreEarned
PROPERTIES NovaAddsUp SharesKeepTheirWorth TwoNodesAgree
SYMMETRY MCSymmetry
CHECK_DEADLOCK FALSE
