SPECIFICATION Spec
CONSTANTS
    w1 = w1
    w2 = w2
    r1 = r1
    NoDeadline = NoDeadline
    NoHolder = NoHolder
    Workers = {w1, w2}
    Runs = {r1}
    Cancellers = {w1, w2}
    Unregistered = {}
    Deadlines = {1, NoDeadline}
    TTL = 2
    MaxClock = 3
    FaultClock = 0
    MaxFaults = 1
    MaxFence = 2
SYMMETRY WorkerSymmetry
INVARIANTS
    TypeOK
    DomainAppliedOnce
    OneExecutionPerTerm
PROPERTIES
    LostTermStaysLost
    OwnersAreExclusive
    ImplementsRunOutcome
CHECK_DEADLOCK FALSE
