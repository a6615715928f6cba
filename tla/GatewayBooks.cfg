SPECIFICATION Spec
CONSTANTS
    \* pledges, loans and the lending desk
    CollateralRequests = {r1, r2}
    HeldShares <- MCHeld
    Haircut <- MCHaircut
    ReferencePrices = {3}
    Quantities = {1, 2}
    LoanAmounts = {1, 2}
    UtilizedMargins = {0, 3}
    LoanToValue = 50
    MaxCollateralCalls = 4
    \* strategies' limits and schedules
    TokenUnits = 2
    LimitConfigs <- MCConfigs
    SecondsPerDay = 2
    LastSecond = 2
    Notionals = {2}
    MaxReservations = 3
    MaxLimitChanges = 1
    ParentQuantities = {1, 7}
    TwapWindows <- MCWindows
    SliceCounts = {1, 2, 4}
    VolumeCurves <- MCCurves
    PovConfigs <- MCPov
    PollTimes = {0, 1, 3, 5}
    Volumes = {0, 3, 7, 12}
    MaxAlgoCalls = 5
    \* orders made of orders
    CandidateLegs <- MCLegs
    SettlementPrices = {0, 1, 2, 3, 4, 5, 6, 7, 8, 9, 10, 11}
    CandidateBaskets <- MCBaskets
    CoverQuantities = {1, 2}
    WordSize = 64
    \* positions that change without a trade
    ActionRequests = {r1, r2}
    Instruments = {"demo", "other"}
    SeedQuantities = {2}
    SeedCosts = {3}
    Ratios <- MCRatios
    Dividends = {1}
    ReinvestmentPrices = {0, 3}
    Fills = {1}
    MaxPositionCalls = 4
    Traders = {a1, a2}
    MarketMaker = mm
    MilliShareUnitsPerWholeShare = 4
    MilliQuantities = {1, 6}
    PaperPrices = {1, 3}
    MaxPaperOrders = 3
    Followers = {a1, a2}
    Strategies = {s1, s2}
    \* what watches an account
    Evaluations = {r1, r2}
    Borrowed = {7, 9}
    PledgedWorth = {0, 7, 10}
    LongPositions <- MCLongs
    LastPrices <- MCLastPrices
    ExecutionPrices = {1, 3}
    StrayNotionals = {0, 2}
    TargetPercent = 75
    Markers = {a1, a2, mm}
    MarkedQuantities = {1, 2}
    MarkedPrices = {1, 2, 5}
    MaxMarkedFills = 3
    FnoOrders = {o1, o2}
    CoolingOff = 2
    LastMoment = 4
    Submissions = {o1, o2, o3, o4}
    RecentWindow = 2
    Lookback = 4
    MinimumCount = 2
    Multiplier = 2
    RapidGap = 1
    Cooldown = 2
    MaxHistory = 3
    \* the sessions of institutions
    Sessions = {1, 2}
    OrderIds = {1, 2}
    ValidIds = {1}
    MaxLines = 4
INVARIANTS
    CollateralIsSound
    OrderPatternsAreSound
    PositionsAreSound
CHECK_DEADLOCK FALSE
