SPECIFICATION FairSpec
CONSTANTS
    MaxRoam = 0
    MaxQ = 1
    ReauthLimit = 0
    ReassocLimit = 0
    MaxCh = 1
    Requests = {"connect", "scan"}
INVARIANTS
    SurveyEnds
PROPERTIES
    ScanEnds
