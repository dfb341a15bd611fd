CONSTANTS
    Signature = {"clean", "edited", "edited again"}
    Finding = {"finding"}
    MaxAttempts = 1
    StalemateRepeats = 2
    Slots = 3
    QueueCap = 1

SPECIFICATION WatchdogSpec

INVARIANTS
    FollowUpsBounded

CHECK_DEADLOCK FALSE
