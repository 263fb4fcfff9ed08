\* Two histories of up to two activations and the eviction, with a codec.
CONSTANTS
    Runs = {1, 2}
    MaxActivations = 3
    ExecutorSize = 2
    OwnExecutor = TRUE
    HasCodec = TRUE
    DeadlockDetection = TRUE
    SafeEviction = TRUE
    HasHook = TRUE
    CoreRefuses = FALSE
SPECIFICATION RFairSpec
CHECK_DEADLOCK FALSE
INVARIANTS RTypeOK ResultsBelong FailuresReported
PROPERTY ReplayEndsUnlessUnevicted
