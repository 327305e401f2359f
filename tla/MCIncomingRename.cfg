\* A crash between the rename and the end of the rows.
SPECIFICATION Spec
CONSTANTS
    Files = {f1}
    Chunks = {k1}
    Channels = {c1}
    MaxAttempts = 2
    MaxCrashes = 1
    Commands = {}
    MayCancel = FALSE
    MayLosePart = FALSE
    MayFail = FALSE

INVARIANT EveryCopyIntact
CHECK_DEADLOCK FALSE
