\* One history whose eviction may fail.
CONSTANTS
    Runs = {1}
    MaxActivations = 3
    ExecutorSize = 2
    OwnExecutor = TRUE
    HasCodec = FALSE
    DeadlockDetection = TRUE
    SafeEviction = TRUE
    HasHook = TRUE
    CoreRefuses = FALSE
SPECIFICATION RFairSpec
CHECK_DEADLOCK FALSE
PROPERTY ReplayEnds
