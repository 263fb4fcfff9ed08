\* A cancel that arrives while a failure is being encoded.
CONSTANTS
    Tokens = {t1}
    AsyncCodec = TRUE
    ThreadExecutor = TRUE
    QueueSize = 1
    Heartbeaters = {t1}
    MaxHeartbeats = 0
    MaxCancels = 2
SPECIFICATION Spec
CHECK_DEADLOCK FALSE
INVARIANT EndsDone
