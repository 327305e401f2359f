\* Two transfers compete for one permit, over one retry and one restart, and
\* any save of a record may fail.
SPECIFICATION Spec
CONSTANTS
    Transfers = {t1, t2}
    MaxActive = 1
    MaxAttempts = 2
    MaxRestarts = 1
    MaxRetries = 1
    MaxUnsaved = 1
    NoRecord = NoRecord
SYMMETRY Symmetry
INVARIANTS TypeOK OneLiveTask RetryableIsQuiet PermitsAddUp
PROPERTIES OrphansOnlyUnsaved TerminalIsFinal
CHECK_DEADLOCK FALSE
