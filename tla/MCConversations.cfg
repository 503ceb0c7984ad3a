SPECIFICATION SuiteSpec
CONSTANTS
    m1 = m1
    m2 = m2
    r1 = r1
    s1 = s1
    k1 = k1
    g1 = g1
    g2 = g2
    e1 = e1
    e2 = e2
    q1 = q1
    t1 = t1
    t2 = t2
    None = None
    Procs = {s1}
    Tasks = {m1, m2}
    Home <- AllAtHome
    Segs = {g1, g2}
    Listed = 1
    MaxMeetings = 2
    MaxRequests = 3
    MaxFaults = 1
SYMMETRY Symmetry
INVARIANTS
    SuiteTypeOK
    MeetingsAreWhole
    MinutesAreCurrent
    MemoryIsSound
CHECK_DEADLOCK FALSE
