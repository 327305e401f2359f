\* Two transfers into one directory, a retry, a file of another program.
SPECIFICATION Spec
CONSTANTS
    Words <- ManyWords
    Safe <- Slashes
    Lower <- Cases
    Clean <- Windows
    Fold <- Cases
    t1 = t1
    t2 = t2
    Transfers = {t1, t2}
    Selections <- Choices
    MaxRetries = 1
    MaxForeign = 1
    MaxSuffix = 4
SYMMETRY Symmetry
INVARIANTS TypeOK Kept FailsForCause
CHECK_DEADLOCK FALSE
