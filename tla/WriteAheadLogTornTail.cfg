SPECIFICATION LogSpec
CONSTANTS
    Orders = {o1, o2}
    NoOrder = NoOrder
    PartialWrites <- AllPartialWrites
    MaxTrades = 0
    MaxCommands = 3
    MaxCrashes = 2
    MaxAppendErrors = 0
CHECK_DEADLOCK FALSE
INVARIANTS
    AckedCommandsAreDurable
