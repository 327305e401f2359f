\* One attempt of two channels with a pause or a failure, under fairness.
SPECIFICATION FairSpec
CONSTANTS
    Size = 3
    MaxChannels = 2
    Kinds <- AnyKind
    Buffer = 1
    MaxAttempts = 1
    MaxTroubles = 1
PROPERTY AllArrives
CHECK_DEADLOCK FALSE
