SPECIFICATION Spec
CONSTANTS
    Callers = {c1}
    Boot = Boot
    Nobody = Nobody
    BootStates = {TRUE}
    MaxVersion = 1
    MaxPollers = 2
    c1 = c1
INVARIANT Provisioned
