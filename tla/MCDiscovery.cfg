\* One device, heard of from both sources, met, entered by hand, forgotten.
SPECIFICATION FairSpec
CONSTANTS
    Devices = {d1}
    Nobody = Nobody
    MaxSessions = 1
    MaxCommands = 2
    MaxMoves = 2
    MaxEvents = 2
INVARIANTS OnlineAsHeard
PROPERTIES EntryRight GoneShown
CHECK_DEADLOCK FALSE
