SPECIFICATION FairSpec
CONSTANTS
    Free = Free
    Gone = Gone
    Contexts = {p1}
    Prompts = {FALSE}
    MaxAttempts = 1
    MaxReports = 0
    MaxAsks = 1
    MaxFaults = 0
PROPERTIES
    LateRunnerIsCancelled
CHECK_DEADLOCK FALSE
