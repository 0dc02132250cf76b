SPECIFICATION Spec
CONSTANTS
    c1 = c1
    c2 = c2
    c3 = c3
    w1 = w1
    w2 = w2
    NoProcess = NoProcess
    Clients = {c1, c2, c3}
    Workers = {w1, w2}
    MaxMessages = 2
    Commands = {"launch", "send", "respawn", "respawnAll", "stop", "remove", "attach", "list"}
    Faults = {"spawn"}
    CrashPoints = {"enter", "kill", "drop", "refill", "clear", "blank", "unstop", "spawn", "restore", "restop", "mark", "erase", "wait", "interactive", "turn", "detach", "launchSpawn", "candidate", "reap"}
SYMMETRY Symmetry
INVARIANTS
    OneWorker
    ExitMeansIdle
    StoppedMeansIdle
    RemovedMeansIdle
    AnswerReachesWorker
CHECK_DEADLOCK FALSE
