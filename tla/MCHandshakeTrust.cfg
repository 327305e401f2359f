\* A retry after only one user asked to remember the other device.
SPECIFICATION Spec
CONSTANTS
    d1 = d1
    d2 = d2
    t1 = t1
    Device = {d1, d2}
    Transfers = {t1}
    From <- OneFrom
    To <- OneTo
    MaxSessions = 2
    MaxActive = 1
    MaxCrashes = 0
    NoRecord = NoRecord
INVARIANTS NoMutualWait
CHECK_DEADLOCK FALSE
