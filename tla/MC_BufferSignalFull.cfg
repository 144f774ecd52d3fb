CONSTANTS
    Signals = {"s1", "s2"}
    Topics = {"t1", "t2"}
    Unsupported = {"t2"}
    Ids = {1}
    Offered <- Given
    NoTopic = "none"
    CreateFails = TRUE
    SlowJoin = FALSE
    MaxCmds = 5
    MaxData = 1
    MaxQ = 2
SPECIFICATION AllSpec
INVARIANT AssertsHold
