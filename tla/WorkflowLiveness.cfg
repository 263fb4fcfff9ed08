\* Two runs of two activations, one thread, a codec, under fairness.
CONSTANTS
    Runs = {r1, r2}
    MaxActivations = 2
    ExecutorSize = 1
    OwnExecutor = TRUE
    HasCodec = TRUE
    DeadlockDetection = TRUE
    SafeEviction = TRUE
    HasHook = TRUE
    CoreRefuses = FALSE
SPECIFICATION FairSpec
CHECK_DEADLOCK FALSE
INVARIANT TypeOK
PROPERTIES ActivationsAnswered ShutdownEndsLoop ImplementsPollLoop
