SPECIFICATION SuiteSpec
CONSTANTS
    r1 = r1
    r3 = r3
    p1 = p1
    s1 = s1
    k1 = k1
    f1 = f1
    x = x
    y = y
    None = None
    NoKey = NoKey
    NoJob = NoJob
    Requests = {r1, r3}
    Workers = {x}
    Scopes = {s1}
    Keys = {k1}
    Prints = {f1}
    ScopeOf <- AllOneScope
    KeyOf <- NoKeys
    PrintOf <- SamePrint
    Order <- OneProvider
    Weight <- EvenWeights
    Width <- DoubleWidth
    QueueSize = 1
    ScopeMax = 3
    ScopeRate = 2
    MaxAttempts = 2
    Threshold = 2
    MaxCancels = 1
PROPERTIES
    CallsReturn
    WorkComesToAnEnd
CHECK_DEADLOCK FALSE
