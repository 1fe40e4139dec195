SPECIFICATION FairSpec
CONSTANTS
    Cmds = {c1}
    NoCmd = NoCmd
    MaxSema = 1
    MaxStarts = 2
    UrbErrors = FALSE
    Signals = FALSE
    PollExpires = FALSE
INVARIANTS
    OneThread
    ControlWaitsForThread
PROPERTIES
    UnloadCompletes
    QueuedIsTaken
CHECK_DEADLOCK FALSE
