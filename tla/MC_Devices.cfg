CONSTANTS
    OnInstrument = TRUE
    Window = 1
    Profiles <- AllProfiles
    Overlap = FALSE
    Orderly = TRUE
    MaxCmds = 5
    MaxFaults = 1
SPECIFICATION AllSpec
INVARIANTS SettingsFollow 
 
CHECK_DEADLOCK FALSE
