CONSTANTS
    Profiles <- MCProfiles
    Dec = 1
    Ring = 8
    SignalRate = 8
    MinFs = 2
    NMax = 5
    Fss = {1, 2, 8}
    Ns = {0, 3}
    Gs = {1, 3}
    Fps = {4}
    Cap = 5
    FrameLen = 2
    IdleAcks = FALSE
    Timely = TRUE
    Settled = TRUE
    GpiLive = FALSE
    StaleOpen = FALSE
    Span = 3
    MaxCmds = 3
    MaxFaults = 1
SPECIFICATION AllSpec
INVARIANTS  NothingMissing  
 
CHECK_DEADLOCK FALSE
