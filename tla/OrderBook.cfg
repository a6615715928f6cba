SPECIFICATION BookSpec
CONSTANTS
    LowestPrice = 1
    HighestPrice = 3
    NoPrice = NoPrice
    Menu <- AnyMenu
    MaxSubmissions = 4
CONSTRAINT WithinOneMenu
CHECK_DEADLOCK FALSE
INVARIANTS
    BookTypeOK
    BookNeverCrossed
    OrdersAreConserved
    NoEligibleStopIsLeftArmed
PROPERTIES
    PriceTimePriority
    NoFillBeyondTheLimit
    EveryCallReturns
