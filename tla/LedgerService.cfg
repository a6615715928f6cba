SPECIFICATION Spec
CONSTANTS
    client = client
    w1 = w1
    w2 = w2
    d1 = d1
    m1 = m1
    x1 = x1
    wallet = wallet
    OtherAccounts <- Others
    WalletRequests = {r1, r2}
    WalletOwners = {client, Firm}
    ForeignWallet <- Foreign
    Native = "INR"
    WalletRates <- Rates
    RateScale = 2
    WalletCash = "cash"
    Clearing = "clearing"
    WalletAmounts = {1, 2}
    WalletEntry = wallet
    NoWalletCall = NoWalletCall
    MaxWalletCalls = 3
    Desks = {"funding", "commits", "wallets", "wallet commits"}
    Clients = {client}
    Firm = Firm
    CustodyPool = CustodyPool
    Suspense = Suspense
    Entries <- Names
    NoSnapshot = NoSnapshot
    MaxRestores = 1
    MaxLostAnswers = 1
    WithdrawalIds = {w1, w2}
    WithdrawalOf <- Withdrawals
    WithdrawalSweeps = {sweep}
    SettlementHold = 1
    MaxDay = 2
    Nothing = Nothing
    DepositIds = {d1}
    DepositOf <- Deposits
    Confirmations = {c1, c2}
    NoDeposit = NoDeposit
    MandateIds = {m1}
    MandateOf <- Mandates
    MandateSweeps = {sweep}
    Period = 1
    MaxFailures = 2
    LastDay = 2
    NoMandate = NoMandate
    OutsideEntries = {x1}
    OutsideLines <- Settlement
SYMMETRY Overlapping
CHECK_DEADLOCK FALSE
INVARIANTS
    CustodyPoolMirrorsClientMoney
    DepositsArePostedOnce
    PayoutsMatchStatuses
    BalancesAreCovered
    MandateDebitsFollowTheSchedule
