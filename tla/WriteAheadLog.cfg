SPECIFICATION LogSpec
CONSTANTS
    Orders = {o1, o2}
    NoOrder = NoOrder
    PartialWrites <- AllPartialWrites
    MaxTrades = 1
    MaxCommands = 3
    MaxCrashes = 2
    MaxAppendErrors = 1
CHECK_DEADLOCK FALSE
INVARIANTS
    LogTypeOK
    FreshlyLoggedAcksAreDurable
    AckedCommandsAreDurableInACleanLog
    ReplayIsFaithful
PROPERTIES
    EndedLinesNeverChange
    ReplayedHistoryIsKept
