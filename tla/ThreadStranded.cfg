\* A cancel that comes before the thread is known.
CONSTANTS
    Activities = {a1}
    Threads = {t1}
    MaxShield = 2
    MaxCancels = 2
SPECIFICATION Spec
CHECK_DEADLOCK FALSE
INVARIANT NoStrandedCancel
