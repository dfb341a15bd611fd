CONSTANTS
    Scenarios <- Several
    Concurrency = 1
    Retries = 1
    j1 = j1
    j2 = j2
    j3 = j3
    Job <- ScheduledJobs
    Far <- FarJobs
    MaxPending = 2

SPECIFICATION MCFairSpec

INVARIANTS
    OneResult
    ApprovalsHeld
    LaunchedOnce

PROPERTIES
    NothingStartsOnceEnded
    StopObeyed
    DeadRunTold
    EndedJobDropped
    ScheduledJobSettles

CHECK_DEADLOCK FALSE
