\* Two files, two channels, cancels by both users, lost .part files.
SPECIFICATION Spec
CONSTANTS
    Files = {f1, f2}
    Chunks = {k1}
    Channels = {c1, c2}
    MaxAttempts = 1
    MaxCrashes = 0
    Commands = {"Pause", "Resume", "Retry"}
    MayCancel = TRUE
    MayLosePart = TRUE
    MayFail = TRUE
SYMMETRY Symmetry
INVARIANTS TypeOK CompletedDelivered RemainingCoversMissing CancelledForgets
CHECK_DEADLOCK FALSE
