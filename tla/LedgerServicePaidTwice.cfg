SPECIFICATION Spec
CONSTANTS
    client = client
    w1 = w1
    w2 = w2
    d1 = d1
    m1 = m1
    x1 = x1
    wallet = wallet
    OtherAccounts <- Others
    WalletRequests = {}
    WalletOwners = {}
    ForeignWallet <- NoForeign
    Native = "INR"
    WalletRates <- Rates
    RateScale = 2
    WalletCash = "cash"
    Clearing = "clearing"
    WalletAmounts = {1, 2}
    WalletEntry = wallet
    NoWalletCall = NoWalletCall
    MaxWalletCalls = 0
    Desks = {"funding"}
    Clients = {client}
    Firm = Firm
    CustodyPool = CustodyPool
    Suspense = Suspense
    Entries <- Names
    NoSnapshot = NoSnapshot
    MaxRestores = 0
    MaxLostAnswers = 0
    WithdrawalIds = {w1}
    WithdrawalOf <- OneWithdrawal
    WithdrawalSweeps = {sweep1, sweep2}
    SettlementHold = 1
    MaxDay = 2
    Nothing = Nothing
    DepositIds = {d1}
    DepositOf <- Deposits
    Confirmations = {c1}
    NoDeposit = NoDeposit
    MandateIds = {}
    MandateOf <- NoMandates
    MandateSweeps = {}
    Period = 1
    MaxFailures = 2
    LastDay = 2
    NoMandate = NoMandate
    OutsideEntries = {}
    OutsideLines <- NoMandates
CHECK_DEADLOCK FALSE
INVARIANTS
    WithdrawalsArePaidOnce
