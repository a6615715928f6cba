SPECIFICATION FairSpec
CONSTANTS
    order = order
    retry = retry
    amo = amo
    key = key
    Submissions = {order, retry, amo}
    KeyOf <- KeysOfSubmissions
    IsAfterMarket = {amo}
    Keys = {key}
    NoKey = NoKey
    NoAnswer = NoAnswer
    FailureThreshold = 2
    MaxEvents = 2
INVARIANTS
    OneAnswerPerKey
    QueuedOrdersAreHeldOnce
PROPERTIES
    PersistedKeysAreNotPlacedAgain
    TradingResumes
    EveryRequestEnds
