CONSTANTS
    Outstanding = 2
    RescanCount = 2
    MaxQueue = 1
    MaxLives = 2
    MaxFaults = 2
    CloseIsSlow = FALSE
    ClaimFails = FALSE
SPECIFICATION FairSpec
INVARIANTS TerminatedIsLast
PROPERTIES BackendProgress SilentDeathRecovers
