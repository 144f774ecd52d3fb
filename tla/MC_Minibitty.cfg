CONSTANTS
    FrameIds = 3
    TrackIds = 2
    Instances = {"c", "s"}
    Cmds <- CmdsBasic
    Gathers = FALSE
    TimesOut = FALSE
    MaxInputs = 2
    MaxConnects = 3
SPECIFICATION AllSpec
INVARIANTS LinkKept
PROPERTIES AnswersFit 
CHECK_DEADLOCK FALSE
