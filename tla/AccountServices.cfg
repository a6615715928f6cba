SPECIFICATION Spec
CONSTANTS
    \* kyc-onboarding
    Accounts = {a1, a2}
    Absent = Absent
    Amounts = {1, 2}
    MaxVerifications = 2
    PointValues = {1, 3, 5}
    MaxHolders = 3
    MaxHolderIds = 5
    NomineeInputs <- MCNomineeInputs
    \* backoffice
    Customers = {c1, c2}
    Nobody = Nobody
    Agents = {g1, g2}
    Nominees = {n1, n2}
    MaxTickets = 2
    MaxMessages = 3
    MaxTrail = 5
    Checks = {k1, k2}
    MaxCredits = 2
    \* auth
    e1 = e1
    Emails = {e1}
    Addresses = {ip1}
    Spellings <- MCSpellings
    Unknown = Unknown
    Origins <- MCOrigins
    Home <- MCHome
    Usual = l1
    Distance <- MCDistance
    KilometersPerTick = 50
    Logins = {l1, l2}
    MaxTime = 2
    MaxTokens = 3
    MaxSecrets = 2
    MaxAttemptLog = 3
    MaxTries = 3
    LoginLimit = 2
    RegisterLimit = 1
    RateWindow = 2
    TokenLifetime = 2
    AccessLifetime = 1
    FailureThreshold = 2
    LookbackWindow = 2
    \* api-gateway
    Clients = {p1, p2}
    RemoteAddresses = {ip1}
    Tenants = {t1, t2}
    TierLimits <- MCTierLimits
    EventTypes = {filled}
    MaxClock = 2
    MaxKeys = 2
    MaxRequests = 4
    MaxSubscriptions = 2
    MaxTrailLength = 2
    MaxRestarts = 1
    MaxAttempts = 2
    Thresholds <- MCThresholds
    SampleValues = {0, 1}
    MaxSamples = 5
INVARIANTS
    OnboardingIsSound
    CasesAreSound
    SessionsAreSound
    GatewayIsSound
CHECK_DEADLOCK FALSE
