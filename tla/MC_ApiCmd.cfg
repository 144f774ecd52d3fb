CONSTANTS
    c1 = c1
    c2 = c2
    Callers = {c1, c2}
    Ops <- OpsSplit
    Timeouts = {0, 1, 2}
    MaxCalls = 2
    MaxTime = 2
    Finalizes = TRUE
SPECIFICATION Spec
INVARIANTS  WaitersTracked NothingUsedAfterReturn
CHECK_DEADLOCK FALSE
