\* IndexModulus is twice Capacity, so that both indices wrap around twice.
SPECIFICATION EngineSpec
CONSTANTS
    Items = {a, b}
    NoItem = NoItem
    Capacity = 2
    IndexModulus = 4
    MaxPushes = 5
    Clients = {1, 2, 3}
    LineKinds = {"order", "unpriced stop", "cancel", "query", "blank"}
    RingCapacity = 1
CHECK_DEADLOCK FALSE
INVARIANTS
    HandOffsAreSound
PROPERTIES
    ImplementsBoundedFifo
    ThreadsMoveOn
