SPECIFICATION SuiteSpec
CONSTANTS
    p1 = p1
    p2 = p2
    a = a
    b = b
    minutes = minutes
    memory = memory
    Hub = Hub
    None = None
    Free = Free
    Gone = Gone
    Contexts = {p1, p2}
    Prompts = {TRUE, FALSE}
    MaxAttempts = 2
    MaxReports = 0
    MaxAsks = 1
    MaxFaults = 2
SYMMETRY Symmetry
INVARIANTS
    SuiteTypeOK
    OutcomesAgree
    GivesUpWhenSpent
PROPERTIES
    TerminalIsFinal
    SyncIsFaithful
CHECK_DEADLOCK FALSE
