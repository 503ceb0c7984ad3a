SPECIFICATION SuiteSpec
CONSTANTS
    m1 = m1
    m2 = m2
    o1 = o1
    o2 = o2
    k1 = k1
    r1 = r1
    r2 = r2
    r3 = r3
    p1 = p1
    s1 = s1
    f1 = f1
    None = None
    NoKey = NoKey
    NoJob = NoJob
    Requests = {r1, r2, r3}
    Workers = {m1, m2}
    Scopes = {s1}
    Keys = {k1}
    Prints = {f1}
    ScopeOf <- AllOneScope
    KeyOf <- FirstTwoShareKey
    PrintOf <- SamePrint
    Order <- OneProvider
    Weight <- EvenWeights
    Width <- DoubleWidth
    QueueSize = 1
    ScopeMax = 3
    ScopeRate = 2
    MaxAttempts = 2
    Threshold = 2
    MaxCancels = 1
    Devs = {m1, m2, k1}
    MaxKey = 2
    MaxGen = 2
    MaxFams = 2
    WindowLimit = 2
    TotalActive = 2
    MaxSessFaults = 2
SYMMETRY Symmetry
INVARIANTS
    SuiteTypeOK
    SpeechIsExact
    StreamIsContinuous
    GateIsExact
PROPERTIES
    SessionsAreBound
CHECK_DEADLOCK FALSE
