SPECIFICATION Spec
CONSTANTS
    p1 = p1
    p2 = p2
    p3 = p3
    Procs = {p1, p2, p3}
    Last <- MCLast
    Unrepeatable = {3}
    MaxFaults = 4
INVARIANTS
    InOrder
    SuccessMeansAll
    StuckOnlyIfApplied
PROPERTY AllSucceed
CHECK_DEADLOCK FALSE
