SPECIFICATION AskSpec
CONSTANTS
    Askers = {t1}
    Views = {v1}
    Approvals = TRUE
    MaxRequests = 3
INVARIANTS
    AnswerIsForRequest
CHECK_DEADLOCK FALSE
