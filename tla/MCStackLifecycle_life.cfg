SPECIFICATION FairSpec
CONSTANTS
    Callers = {c1}
    Boot = Boot
    Nobody = Nobody
    BootStates = {TRUE, FALSE}
    MaxVersion = 3
    MaxPollers = 2
    c1 = c1
INVARIANTS
    TypeOK
    LiveSound
    PollerSound
    BootDriftEnds
PROPERTIES
    NoneHangs
