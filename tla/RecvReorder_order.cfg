SPECIFICATION Spec
CONSTANTS
    M = 16
    W = 2
    First = 14
    Last = 17
    Sessions = 1
    MaxUp = 5
    DelBaFrom = {"peer"}
    Smp = FALSE
    Down = FALSE
INVARIANTS
    KeepsOrdering
CHECK_DEADLOCK FALSE
