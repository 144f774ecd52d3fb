CONSTANTS
    RetryMax = 1
    PingRetries = 2
    Blobs = 1
    Modes = {"defaults", "resume"}
    MaxOpens = 2
    MaxQueue = 2
    MaxTxn = 3
    MaxLoss = 1
    MaxResets = 1
    MaxPower = 1
    MaxEvents = 2
    CloseMidRestore = TRUE
    Reopens = FALSE
    ShortReplies = FALSE
SPECIFICATION Spec
INVARIANTS SequenceFollowsMode ResponsesFit
CHECK_DEADLOCK FALSE
