SPECIFICATION SuiteSpec
CONSTANTS
    m1 = m1
    m2 = m2
    s1 = s1
    s2 = s2
    NoOwner = NoOwner
    Consumers = {m1, m2}
    Scopes = {s1, s2}
    Broken = {}
    Window = 0
    Limit = 1
    MaxRows = 2
    MaxFaults = 1
    a = a
    b = b
    q1 = q1
    q2 = q2
    c3 = c3
    g1 = g1
    fa = fa
    ed = ed
    None = None
    Chunks = {m1, m2, c3}
    Cap = 2
    Quota = 2
    MaxUploads = 1
    MaxWavFaults = 1
    Builders = {m1, m2}
    MaxTerms = 2
    MaxCrashes = 1
SYMMETRY Symmetry
INVARIANTS
    SuiteTypeOK
    OutboxIsComplete
    UploadsAreOwned
    ChargesAreExact
    ArtifactsAreKept
    IndexIsFaithful
PROPERTIES
    OnlyScannerMoves
    OrderWhileAlone
    ScanIsExact
CHECK_DEADLOCK FALSE
