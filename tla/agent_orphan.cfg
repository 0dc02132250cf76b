SPECIFICATION Spec
CONSTANTS
    c1 = c1
    c2 = c2
    w1 = w1
    w2 = w2
    w3 = w3
    NoProcess = NoProcess
    Clients = {c1, c2}
    Workers = {w1, w2, w3}
    MaxMessages = 2
    Commands = {"launch", "send", "respawn", "stop", "remove", "attach"}
    Faults = {"foreign"}
    CrashPoints = {"record", "launchRecord", "erase"}
SYMMETRY Symmetry
INVARIANTS
    TurnExclusive
CHECK_DEADLOCK FALSE
