SPECIFICATION Spec
CONSTANTS
    c1 = c1
    c2 = c2
    w1 = w1
    w2 = w2
    NoProcess = NoProcess
    Clients = {c1, c2}
    Workers = {w1, w2}
    MaxMessages = 2
    Commands = {"launch", "send"}
    Faults = {"foreign"}
    CrashPoints = {}
SYMMETRY Symmetry
INVARIANTS
    MessageKept
CHECK_DEADLOCK FALSE
