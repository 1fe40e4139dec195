SPECIFICATION Spec
CONSTANTS
    MaxRoam = 2
    MaxQ = 1
    ReauthLimit = 0
    ReassocLimit = 0
    MaxCh = 1
    Requests = {"connect", "disconnect"}
INVARIANTS
    TypeOK
    AttemptGoesOn
    JoinHasTimer
    LinkedAlone
