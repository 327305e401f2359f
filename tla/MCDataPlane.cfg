\* Two channels, a pause or a failure with a retry; every kind of source and target.
SPECIFICATION Spec
CONSTANTS
    Size = 3
    MaxChannels = 2
    Kinds <- AnyKind
    Buffer = 1
    MaxAttempts = 2
    MaxTroubles = 1
INVARIANTS TypeOK NothingForgotten ProgressHonest
PROPERTIES GivesUpForCause DeliveryPromised
CHECK_DEADLOCK FALSE
