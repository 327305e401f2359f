\* Up to two chunks, two commands of either user and one failure.
SPECIFICATION FairSpec
CONSTANTS
    MaxChunks = 2
    Commands <- AllCommands
    MaxCommands = 2
    MaxTroubles = 1
INVARIANTS TypeOK CompletedTogether  CancelledOnRequest
PROPERTIES  BothEnd CancelEndsBoth
CHECK_DEADLOCK FALSE
