SPECIFICATION MCSpec
CONSTANTS
    Ids = {1, 2, 3, 4, 5}
    Teammates = {4, 5}
    Tasks = {1, 2, 3}
    Limit = 2
    MaxRetained = 2
    MaxIterations = 2
    MaxMessages = 2
    MaxRuns = 2
    Nesting = TRUE
INVARIANTS
    TypeOK
    WithinLimit
    RunningIsRegistered
    DeliveredIsRead
    OneOwner
PROPERTIES
    HistoryGrows
CHECK_DEADLOCK FALSE
