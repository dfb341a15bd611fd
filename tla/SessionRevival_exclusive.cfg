CONSTANTS
    Revival = {r1, r2}
    MaxTries = 2
    MaxChildren = 1

SPECIFICATION RevivalSpec

INVARIANT OneWriter

CHECK_DEADLOCK FALSE
