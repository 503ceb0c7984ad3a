SPECIFICATION FairSpec
CONSTANTS
    NoOwner = NoOwner
    Consumers = {c1, c2}
    Scopes = {s1, s2}
    Broken = {}
    Window = 0
    Limit = 1
    MaxRows = 2
    MaxFaults = 2
PROPERTIES
    ScopeOrderOnBus
CHECK_DEADLOCK FALSE
