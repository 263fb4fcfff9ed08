\* One activity with a suspending codec and a process executor, under fairness.
CONSTANTS
    Tokens = {t1}
    AsyncCodec = TRUE
    ThreadExecutor = FALSE
    QueueSize = 1
    Heartbeaters = {t1}
    MaxHeartbeats = 2
    MaxCancels = 2
SPECIFICATION FairSpec
CHECK_DEADLOCK FALSE
INVARIANT DoneUncancellable
PROPERTIES ActivityEnds BrokenExecutorStopsPolling ShutdownCompletes
