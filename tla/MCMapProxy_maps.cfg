SPECIFICATION FairSpec
CONSTANTS
    Slots = {1, 2}
    Keys <- MCKeys
    Configs <- MCConfigs
    NoRules = NoRules
    MaxGeneration = 3
    Background = Background
INVARIANTS
    TypeOK
    AdmissionSound
PROPERTIES
    RevokedEnds
    ReservationsEnd
CHECK_DEADLOCK FALSE
