CONSTANTS
    Pages <- MCPages
    Blocks <- MCBlocks
    PagesPerRecord = 2
    Ranges = 2
    Profiles <- Apart
    Exclusive = TRUE
    Prompt = TRUE
    Faults = {"err", "flip"}
    MaxCmds = 3
    MaxFaults = 1
SPECIFICATION AllSpec
INVARIANTS  IrreversibleOnlySafe
PROPERTIES  WaitsKept 
CHECK_DEADLOCK FALSE
