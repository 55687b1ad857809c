CONSTANTS
    c1 = c1
    c2 = c2
    u = u
    NULL = NULL
    Clients <- MCClients
    Upstream = u
    Names <- MCNames
    Setups <- MCSetups
    MaxSent = 2
    MaxEnded = 1
    a = a
    b = b
    Askers = {a, b}
    Interval = 6
    Retries = 1
    Delays = {0, 1}
    Leases = {7, 9}
    Nobody = Nobody
    Byte = 2
    MapSize = 24
    Positions <- Starts
    Extents <- Lengths
    Ranges <- BitRanges
    WordRanges <- WholeWords
SPECIFICATION ServersSpec
INVARIANTS OneOutside Conserved OwnAnswers LeaseTimed TransfersExact
PROPERTIES Answered DhcpAnswered ToldTruly
CHECK_DEADLOCK FALSE
