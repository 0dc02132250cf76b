SPECIFICATION Spec
CONSTANTS
    c1 = c1
    c2 = c2
    c3 = c3
    w1 = w1
    w2 = w2
    NoProcess = NoProcess
    Clients = {c1, c2, c3}
    Workers = {w1, w2}
    MaxMessages = 1
    Commands = {"launch", "attach", "list", "respawn"}
    Faults = {}
    CrashPoints = {"wait", "interactive"}
SYMMETRY Symmetry
INVARIANTS
    LeaseExclusive
CHECK_DEADLOCK FALSE
