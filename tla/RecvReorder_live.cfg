SPECIFICATION FairSpec
CONSTANTS
    M = 16
    W = 3
    First = 14
    Last = 16
    Sessions = 1
    MaxUp = 3
    DelBaFrom = {"own", "peer"}
    Smp = FALSE
    Down = TRUE
INVARIANTS
    FreedIsQuiet
PROPERTIES
    BufferedIsIndicated
CHECK_DEADLOCK FALSE
