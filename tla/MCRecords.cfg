SPECIFICATION SuiteSpec
CONSTANTS
    r1 = r1
    r2 = r2
    r3 = r3
    c1 = c1
    c2 = c2
    k1 = k1
    a1 = a1
    other = other
    None = None
    NoKey = NoKey
    NoRun = NoRun
    RunIds = {r1, r2, r3}
    Callers = {c1}
    IdemKeys = {k1}
    ActiveKeys = {a1}
    Workers = {c1, c2, other}
    Identity <- SharedByTwo
    MaxEvents = 2
    MaxSaves = 1
    MaxLosses = 0
    Sockets = {c1, c2}
    Page = 2
    MaxChanges = 2
    MaxDrops = 1
    Migrators = {c1, c2}
    Builds = {"now", "older", "without", "drifted"}
    MaxStarts = 2
    MaxBreaks = 1
SYMMETRY Symmetry
INVARIANTS
    SuiteTypeOK
    RowsAreSound
    AnswersAreSound
    CallersAgree
    CheckpointsAreSound
    WaitersMissNothing
PROPERTIES
    MigrationIsSafe
CHECK_DEADLOCK FALSE
