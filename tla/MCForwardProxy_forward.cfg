SPECIFICATION FairSpec
CONSTANTS
    Ports = {53, 80}
    Clients = {"client"}
    RuleSets <- MCRuleSets
    Slots = {1, 2}
    MaxApply = 3
INVARIANTS
    TypeOK
    ListenersSound
    OneDialPerClient
PROPERTIES
    OldRulesEnd
CHECK_DEADLOCK FALSE
