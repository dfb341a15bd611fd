CONSTANTS
    a = a
    b = b
    c = c
    s1 = s1
    s2 = s2
    research = research
    NoNode = NoNode
    Node = {a, b, c}
    Kind = {research}
    MaxNodeAttempts = 1
    MaxNodes = 3
    Sched = {s1}
    Plans <- ChainAndReplacement
    Concurrency = 1
    Answers = {"completed", "failed"}
    ChildOutcomes = {}
    AttemptCap = 1
    ReopenBy = {}
    GateCap = 0
    DeepResearch = FALSE
    IOFaults = FALSE

SPECIFICATION Spec

INVARIANTS
    ReadinessCurrent
    SupersessionResolves
    CompletedRunSettled

PROPERTIES
    StartsOnlyWhenActive
    ImplementsLedger
