CONSTANTS
    i1 = i1
    i2 = i2
    s1 = s1
    s2 = s2
    done = done
    broken = broken
    NoSession = NoSession
    Instance = {i1, i2}
    Session = {s1, s2}
    Result = {done, broken}
    Owner <- AllOfFirst
    Urgent = {broken}
    Relayed = {}
    Faults = {"watch", "poll", "send"}
    MaxWrites = 1

SPECIFICATION Spec

SYMMETRY Interchangeable

INVARIANTS
    NotifiedOnce
    HandlingConsistent
    DeletedOnlyWhenTold

CHECK_DEADLOCK FALSE
