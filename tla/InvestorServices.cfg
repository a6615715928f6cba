SPECIFICATION Spec
CONSTANTS
    \* fund orders
    Investors = {i1}
    Schemes = {1, 2, 3, 4}
    Traded = {1}
    Navs = {2, 3}
    UnitScale = 4
    StepSize = 2
    ConfirmationDelay = 1
    LastAsOf = 2
    Sweepers = {w1, w2}
    Lumpsums = {1, 2}
    RedeemedUnits = {1, 2}
    Plans <- MCPlans
    MonthLength <- MCMonths
    LastDay = 5
    Weights <- MCWeights
    MaxFundOrders = 4
    MaxClientOrders = 3
    MaxInstalments = 3
    GoalTargets = {1, 5}
    GoalMonths = {0, 1, 3}
    GoalContributions = {0, 1}
    MonthlyGrowth <- MCGrowth
    \* the other desks
    Auctions <- MCAuctions
    BidQuantities = {1, 2}
    Yields = {1, 2}
    MaxBids = 4
    RetirementTypes <- MCTypes
    Births = {0, 1}
    Years = {1, 2, 3}
    Contributions = {1, 2}
    MaxPensions = 1
    MaxMovements = 3
    Notes <- MCNotes
    Principals = {33, 50}
    IndexReturns <- MCReturns
    MaxNotes = 2
    Symbols <- MCSymbols
    Currencies = {"INR", "USD"}
    FxRates <- MCRates
    FundingAmounts = {41, 500}
    FractionScale = 10
    MaxGlobalOrders = 2
    Bonds <- MCBonds
    Holders = {h1, h2}
    LadderTotals = {1, 7}
    MaxLadders = 2
    Products <- MCProducts
    ApplicantAges = {30, 121}
    Coverages = {10000}
    MaxQuotes = 2
    \* market-data
    Feeds = {"engine", "simulator"}
    Listed = {1, 2}
    Publishes <- MCPublishes
    CandleInterval = 2
    RetainedTicks = 2
    RetainedCandles = 2
    RetainedColumns = 3
    AlertTerms <- MCAlerts
    Durable = TRUE
    LastSecond = 2
    MaxPublishes = 3
    MaxTradePublishes = 2
    MaxAlerts = 1
    Clients = {c1}
    ChannelCapacity = 2
    WireRoom = 2
    MaxConnections = 2
    CandidateTicks <- MCTicks
    BucketSizes = {1, 2}
    Fractions = {0, 50, 70, 150}
    FootprintInterval = 2
    Devices = {d1}
    WatchedSymbols = {s1, s2}
    LastMilli = 3
    MaxChanges = 3
INVARIANTS
    FundsAreSound
    QuotesAreSound
SYMMETRY MCSymmetry
CHECK_DEADLOCK FALSE
