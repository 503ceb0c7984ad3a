SPECIFICATION SuiteSpec
CONSTANTS
    memory = memory
    x = x
    y = y
    r1 = r1
    s1 = s1
    s2 = s2
    Hub = Hub
    None = None
    Free = Free
    Contexts = {x, y}
    Items = {s1, s2}
    Bad = {s2}
    Ends = {"succeeded", "cancelled"}
    MaxEvents = 2
    MaxFaults = 0
INVARIANTS
    ProjectionIsExact
PROPERTIES
    EverythingGetsThrough
CHECK_DEADLOCK FALSE
