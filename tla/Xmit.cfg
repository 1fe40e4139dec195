SPECIFICATION FairSpec
CONSTANTS
    Acs <- TwoAcs
    Before <- VoFirst
    NFrames = 2
    StopAt = 1
    NBuf = 2
    Senders = 2
    Busies = {"survey"}
    CanFail = {"attrib", "coalesce", "submit", "urb"}
INVARIANTS
    TypeOK
    PoolAccounted
    KickDue
PROPERTIES
    KeepsContract
    Drains
CHECK_DEADLOCK FALSE
