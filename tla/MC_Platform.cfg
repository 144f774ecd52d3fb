CONSTANTS
    Producers = {p1, p2, p3}
    PipeCapacity = 2
    MaxPush = 2
SPECIFICATION AllSpec
INVARIANTS NoLostWakeup  
PROPERTIES FifoSpec ListsAreSequences PlatformProgress
