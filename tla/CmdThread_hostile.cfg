SPECIFICATION Spec
CONSTANTS
    Cmds = {c1}
    NoCmd = NoCmd
    MaxSema = 1
    MaxStarts = 2
    UrbErrors = TRUE
    Signals = TRUE
    PollExpires = TRUE
INVARIANTS
    TypeOK
    CmdOwnership
    NoLostWakeup
    SctxNoDangling
    SctxAnsweredOnce
    LateAckOnlyAfterDrain
CHECK_DEADLOCK FALSE
