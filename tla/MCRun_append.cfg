CONSTANTS
    Scenarios <- Appended
    Concurrency = 1
    Retries = 1
    j1 = j1
    j2 = j2
    j3 = j3
    Job <- ScheduledJobs
    Far <- FarJobs
    MaxPending = 2

SPECIFICATION MCSpec

INVARIANTS
    CompletedStays

CHECK_DEADLOCK FALSE
