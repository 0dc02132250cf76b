SPECIFICATION MCSpec
CONSTANTS
    Sessions = {1, 2, 3}
    NoSession = 0
    Tasks = {1, 2}
    Period = 2
    MaxEarly = 1
    Lifetime = 5
    MaxTime = 5
INVARIANTS
    CronTypeOK
    RunsOnce
CHECK_DEADLOCK FALSE
