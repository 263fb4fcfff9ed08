\* Two runs of three activations, two threads, a hook, refused completions.
CONSTANTS
    Runs = {r1, r2}
    MaxActivations = 3
    ExecutorSize = 2
    OwnExecutor = TRUE
    HasCodec = FALSE
    DeadlockDetection = TRUE
    SafeEviction = TRUE
    HasHook = TRUE
    CoreRefuses = TRUE
SPECIFICATION Spec
SYMMETRY Symmetry
CHECK_DEADLOCK FALSE
INVARIANTS CacheAgrees InstanceExclusive
