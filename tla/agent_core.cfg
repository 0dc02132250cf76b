SPECIFICATION Spec
CONSTANTS
    c1 = c1
    c2 = c2
    w1 = w1
    w2 = w2
    w3 = w3
    NoProcess = NoProcess
    Clients = {c1, c2}
    Workers = {w1, w2, w3}
    MaxMessages = 3
    Commands = {"launch", "send", "respawn", "respawnAll", "stop", "remove", "attach"}
    Faults = {"spawn", "record", "death"}
    CrashPoints = {}
SYMMETRY Symmetry
INVARIANTS
    TypeOK
    OneWorker
    LeaseExclusive
    ExitMeansIdle
    StoppedMeansIdle
    RemovedMeansIdle
    MessageKept
    InOrder
    AnswerReachesWorker
PROPERTIES
    NoNeedlessRerun
    FailedRespawnRestores
    StopSticks
    ImplementsSessionOwner
CHECK_DEADLOCK FALSE
