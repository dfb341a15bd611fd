CONSTANTS
    i1 = i1
    i2 = i2
    s1 = s1
    s2 = s2
    done = done
    broken = broken
    NoSession = NoSession
    Instance = {i1}
    Session = {s1}
    Result = {done, broken}
    Owner <- AllOfFirst
    Urgent = {broken}
    Relayed = {}
    Faults = {"watch"}
    MaxWrites = 1

SPECIFICATION FairSpec

PROPERTIES
    UrgentResultTold

CHECK_DEADLOCK FALSE
