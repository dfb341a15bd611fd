CONSTANTS
    Tasks = 2
    Workers = 2

SPECIFICATION GroupSpec

INVARIANTS
    AskShown

CHECK_DEADLOCK FALSE
