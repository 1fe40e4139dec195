SPECIFICATION FairSpec
CONSTANTS
    MaxPs = 2
    Denying = {"scan", "join", "tx"}
    Calling = {"iface"}
INVARIANTS
    TypeOK
    BusyIsAwake
    WokenIsAwake
    SuspendAlone
    ChainAlive
PROPERTIES
    IdlePowersDown
