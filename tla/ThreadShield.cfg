\* Two activities on two threads that are reused, nested shields, two cancels each.
CONSTANTS
    Activities = {a1, a2}
    Threads = {t1, t2}
    MaxShield = 2
    MaxCancels = 2
SPECIFICATION Spec
SYMMETRY Symmetry
CHECK_DEADLOCK FALSE
INVARIANTS TypeOK ShieldHolds 
