CONSTANTS
    a = a
    b = b
    c = c
    s1 = s1
    s2 = s2
    research = research
    NoNode = NoNode
    Node = {a}
    Kind = {research}
    MaxNodeAttempts = 1
    MaxNodes = 3
    Sched = {s1}
    Plans <- One
    Concurrency = 2
    Answers = {"completed", "failed", "fatal", "pausing", "cancelled", "detached", "unnamed"}
    ChildOutcomes = {"completed", "failed", "fatal"}
    AttemptCap = 2
    ReopenBy = {1}
    GateCap = 0
    DeepResearch = FALSE
    IOFaults = FALSE

SPECIFICATION FairSpec

INVARIANTS
    TypeOK
    AttemptCeilingHeld
    DetachedCompletionGenuine
    InFlightIsRunning

PROPERTIES
    AttemptHistoryImmutable
    LiveNodeSettles
