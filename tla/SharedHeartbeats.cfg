\* Three activities, the default single poller thread, a queue that fills up.
CONSTANTS
    Activities = {a1, a2, a3}
    Pollers = {p1}
    QueueSize = 2
    MaxHeartbeats = 2
SPECIFICATION FairSpec
CHECK_DEADLOCK FALSE
INVARIANTS TypeOK Flushed NothingLeft ProcessorPresent
PROPERTIES UnregisterEnds ProcessorStops
