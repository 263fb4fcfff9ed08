\* Two activities, their heartbeats, cancels, the drain and the shutdown, without
\* a suspending codec.
CONSTANTS
    Tokens = {t1, t2}
    AsyncCodec = FALSE
    ThreadExecutor = TRUE
    QueueSize = 2
    Heartbeaters = {t1}
    MaxHeartbeats = 2
    MaxCancels = 1
SPECIFICATION Spec
CHECK_DEADLOCK FALSE
INVARIANTS TypeOK ReportedOnce EndsDone CancelledMeansAsked HeartbeatsFlushed HeartbeatsInOrder
PROPERTY ImplementsPollLoop
CONSTRAINT SecondHeartbeatAlone
