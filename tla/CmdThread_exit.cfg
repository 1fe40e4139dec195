SPECIFICATION Spec
CONSTANTS
    Cmds = {c1}
    NoCmd = NoCmd
    MaxSema = 1
    MaxStarts = 2
    UrbErrors = FALSE
    Signals = FALSE
    PollExpires = FALSE
INVARIANTS
    ExitFreesQueue
CHECK_DEADLOCK FALSE
