SPECIFICATION FairSpec
CONSTANTS
    alice = alice
    bob = bob
    Accounts = {alice, bob}
    MaxOrders = 3
    Menu <- StopSellAndBuy
    MaxQuantity = 2
    NoRequest = NoRequest
    SeedMargin <- SmallMargin
    SeedHolding <- TwoHeld
    ExposureLimit = 4
    MaxPledges = 1
    Faults <- AllFaults
CHECK_DEADLOCK FALSE
INVARIANTS
    ExposureIsAccountedFor
    PositionsFollowTheLedger
    WorkingSellsStayReserved
    MarginMirrorsTheLedger
PROPERTIES
    EverySubmissionIsAcknowledged
