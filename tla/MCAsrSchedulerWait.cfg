SPECIFICATION FairSpec
CONSTANTS
    r1 = r1
    r2 = r2
    r3 = r3
    w1 = w1
    w2 = w2
    p1 = p1
    p2 = p2
    s1 = s1
    k1 = k1
    f1 = f1
    NoKey = NoKey
    NoJob = NoJob
    Requests = {r1, r3}
    Workers = {w1}
    Scopes = {s1}
    Keys = {k1}
    Prints = {f1}
    ScopeOf <- AllOneScope
    KeyOf <- FirstTwoShareKey
    PrintOf <- SamePrint
    Order <- TwoProviders
    Weight <- EvenWeights
    Width <- SingleWidth
    QueueSize = 1
    ScopeMax = 3
    ScopeRate = 2
    MaxAttempts = 2
    Threshold = 1
    MaxCancels = 1
PROPERTIES
    NoUnboundedWait
CHECK_DEADLOCK FALSE
