CONSTANTS
    a = a
    b = b
    w = w
    m1 = m1
    m2 = m2
    m3 = m3
    NULL = NULL
    Endpoints <- MCEndpoints2
    Wakes <- MCWakes
    Fast <- MCFast
    Messages <- MCMessages2
    MaxHeld = 1
    c1 = c1
    c2 = c2
    Requesters <- MCRequesters
    Kcpfpg = Kcpfpg
    Files = {"image"}
    Faults = {"fork", "config", "file"}
    Unused = Unused
SPECIFICATION LiveSpec
INVARIANT Accounted
PROPERTIES Delivered TransferAnswered
CHECK_DEADLOCK FALSE
