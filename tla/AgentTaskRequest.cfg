SPECIFICATION Spec
CONSTANTS
    Free = Free
    Gone = Gone
    Contexts = {p1}
    Prompts = {FALSE}
    MaxAttempts = 1
    MaxReports = 1
    MaxAsks = 1
    MaxFaults = 0
INVARIANTS
    OpenCommandHasRequest
CHECK_DEADLOCK FALSE
