SPECIFICATION LibrarySpec
CONSTANTS
    p1 = p1
    p2 = p2
    p3 = p3
    NULL = NULL
    Data = {p1, p2, p3}
    MaxSize = 5
    MaxHeld = 2
    Chains = {1, 2}
    Messages <- TwoMessages
    Foreign <- OneForeign
    IOSize = 6
    Margin = 3
    MaxLoad = 2
    Names = {1, 2, 3, 4, 5, 6, 7, 8, 9, 10}
    Nil = Nil
    ArpCache = 4
    TableSize = 4
    Self = 1
    Wrap = 32
    Rates = {2, 6}
    SmallDelay = 3
    ValidPeriod = 9
    Sweeps = 3
INVARIANTS RefsExact QueuedIntact ArrivesIntact SearchTree NeverMissed
PROPERTIES FifoSpec OrderKept
