CONSTANTS
    r1 = r1
    r2 = r2
    NULL = NULL
    Requests <- MCRequests2
    Halts <- MCHalts
    Budget = 1
SPECIFICATION Spec
PROPERTY NoSendTerminating
CHECK_DEADLOCK FALSE
