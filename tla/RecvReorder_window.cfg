SPECIFICATION FairSpec
CONSTANTS
    M = 32
    W = 4
    First = 29
    Last = 34
    Sessions = 1
    MaxUp = 3
    DelBaFrom = {}
    Smp = TRUE
    Down = FALSE
INVARIANTS
    TypeOK
    WindowInv
    NoStuckFrame
    InOrder
    DropJustified
PROPERTIES
    RxReturns
CHECK_DEADLOCK FALSE
