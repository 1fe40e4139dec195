SPECIFICATION FairSpec
CONSTANTS
    Stas = {"s1", "s2"}
    Bmc = "bmc"
    Acs = {"be", "vo"}
    Be = "be"
    Uapsd <- MixedAndAll
    Aid <- LowAndHigh
    NFrames = 2
    Movers = {"s1"}
    Traffic = {"s1", "bmc"}
    PollRace = FALSE
    OverMax = 1
INVARIANTS
    TypeOK
    SleepAccounted
    TimTold
    BmcServed
PROPERTIES
    BmcLeaves
CHECK_DEADLOCK FALSE
