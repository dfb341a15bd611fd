CONSTANTS
    a = a
    b = b
    c = c
    s1 = s1
    s2 = s2
    research = research
    NoNode = NoNode
    Node = {a, b}
    Kind = {research}
    MaxNodeAttempts = 2
    MaxNodes = 3
    Sched = {s1, s2}
    Plans <- Pair
    Concurrency = 2
    Answers = {"completed"}
    ChildOutcomes = {}
    AttemptCap = 2
    ReopenBy = {}
    GateCap = 3
    DeepResearch = TRUE
    IOFaults = TRUE

SPECIFICATION Spec

SYMMETRY Interchangeable

INVARIANTS
    AttemptsCoherent
    AutoStopHolds
