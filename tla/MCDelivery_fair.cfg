CONSTANTS
    i1 = i1
    i2 = i2
    s1 = s1
    s2 = s2
    done = done
    broken = broken
    NoSession = NoSession
    Instance = {i1, i2}
    Session = {s1, s2}
    Result = {done, broken}
    Owner <- OneEach
    Urgent = {broken}
    Relayed = {done}
    Faults = {"poll", "unlink"}
    MaxWrites = 1

SPECIFICATION FairSpec

INVARIANTS
    OnlyOwnerTold
    RelayedNotNotified
    BacklogQuiet

PROPERTIES
    RevokedInstanceInert
    OwnedResultTold

CHECK_DEADLOCK FALSE
