CONSTANTS
    MaxLives = 2
    MaxPublish = 2
    Subscribes = TRUE
    FastReplug = FALSE
    Finalizes = TRUE
SPECIFICATION AllSpec
INVARIANTS DevicesAgree FreedSafely
PROPERTIES GoneIsNoticed EveryCallReturns
