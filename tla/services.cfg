SPECIFICATION MCSpec
CONSTANTS
    Teammates = {n1}
    NoOne = noone
    Missing = missing
    MaxTasks = 3
    MaxIds = 3
    Threads = {1, 2, 3}
    Fallbacks = 2
    Budget = 3
    MaxCost = 2
    Processes = {1, 2, 3}
    Nobody = 0
    Calls = {1, 2}
    Askers = {1, 2}
    Views = {1, 2}
    Approvals = FALSE
    MaxRequests = 3
    Senders = {1, 2}
    Bypassing = {1}
    MaxDelivered = 2
    MaxHeld = 2
INVARIANTS
    TypesOK
    StoreReadable
    FollowsOverloads
    OneCallBeyond
    RunningIsWorked
    AnswerIsForRequest
    HeldBySettings
PROPERTIES
    CompletedStays
    CallsKept
    StopEnds
    TeardownReleases
CHECK_DEADLOCK FALSE
