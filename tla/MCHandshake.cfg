\* One transfer and its retry; every answer, broken connection and one crash.
SPECIFICATION Spec
CONSTANTS
    d1 = d1
    d2 = d2
    t1 = t1
    Device = {d1, d2}
    Transfers = {t1}
    From <- OneFrom
    To <- OneTo
    MaxSessions = 2
    MaxActive = 1
    MaxCrashes = 1
    NoRecord = NoRecord
INVARIANTS TypeOK StreamsVouched PermitsShared AlikeNeverStuck
PROPERTIES PairingPromised
CHECK_DEADLOCK FALSE
