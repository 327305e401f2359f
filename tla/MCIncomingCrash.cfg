\* Two chunks, an attempt overtaken by another, a crash at any step.
SPECIFICATION Spec
CONSTANTS
    Files = {f1}
    Chunks = {k1, k2}
    Channels = {c1}
    MaxAttempts = 2
    MaxCrashes = 1
    Commands = {}
    MayCancel = FALSE
    MayLosePart = FALSE
    MayFail = FALSE
SYMMETRY Symmetry
INVARIANT FirstDeliveryIntact
PROPERTY ProgressSurvives
CHECK_DEADLOCK FALSE
