CONSTANTS
    r1 = r1
    r2 = r2
    r3 = r3
    Revival <- Revivals
    MaxTries = 2
    MaxChildren = 2
    MaxAttempt = 2
    MaxSteer = 2
    IdentityCap = 3
    q1 = q1
    q2 = q2
    Steer <- Steers
    Tasks = 3
    Workers = 2
    Signature = {"clean", "edited"}
    Finding = {"finding"}
    MaxAttempts = 1
    StalemateRepeats = 2
    Slots = 3
    QueueCap = 1

SPECIFICATION Spec

SYMMETRY Alike

INVARIANTS
    SessionExclusive
    RefusedNeverRuns
    ReplacementAlone
    EndedRunAnswers
    OneChildPerNode
    AbortReachesChild
    ControlHeld
    EndedNotDetached
    DetachedSpared
    SupersededReviewSilent

PROPERTIES
    BoundaryReviewRuns

CHECK_DEADLOCK FALSE
