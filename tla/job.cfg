CONSTANTS
    r1 = r1
    r2 = r2
    NULL = NULL
    Requests <- MCRequests2
    Halts <- MCHalts
    Budget = 2
CONSTRAINT MCEffort
SPECIFICATION FairSpec
INVARIANTS OneOutstanding OwnReply NobodyForgotten SleepsOnlyIdle
PROPERTIES WokenOnce Told Handled
CHECK_DEADLOCK FALSE
