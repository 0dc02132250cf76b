----------------------------- MODULE BackgroundPrompt -----------------------------
(***************************************************************************)
(* Approvals and questions of one background worker when several of its    *)
(* threads ask (the main loop and background subagents share the handler): *)
(* one request and one response file (background_agent_approval.py,        *)
(* background_agent_input.py), and the dashboards that answer              *)
(* (agent_view.py).  The transition lock makes a write with its checks one *)
(* step; the polling thread reads without it.                              *)
(***************************************************************************)
EXTENDS Integers

CONSTANTS
    Askers,      \* threads of the worker that ask
    Views,        \* dashboards of users
    Approvals,    \* the requests are approvals; questions otherwise
    MaxRequests   \* bound: requests raised

\* Assumed wherever the module is instantiated.
PromptAssumption == MaxRequests \in Nat /\ Approvals \in BOOLEAN

VARIABLES
    thread,    \* per thread, its request and what released it
    request,   \* the request file: an id, 0 when there is none
    response,  \* the response file: the id it names and the request its user saw
    shown,     \* per view, the request it shows and the last its user has seen
    raised     \* requests raised so far

askVars == <<thread, request, response, shown, raised>>

Requests == 1 .. MaxRequests
NoResponse == [id |-> 0, seen |-> 0]
Responses == [id : Requests, seen : Requests] \cup {NoResponse}
Running == [at |-> "running", id |-> 0, got |-> NoResponse]

AskTypeOK ==
    /\ thread \in [Askers -> [at : {"running", "waiting", "leaving"},
                               id : Requests \cup {0}, got : Responses]]
    /\ request \in Requests \cup {0}
    /\ response \in Responses
    /\ shown \in [Views -> [id : Requests \cup {0}, seen : Requests \cup {0}]]
    /\ raised \in 0 .. MaxRequests

AskInit ==
    /\ thread = [t \in Askers |-> Running]
    /\ request = 0
    /\ response = NoResponse
    /\ shown = [v \in Views |-> NoResponse]
    /\ raised = 0

\* The handler removes an old response and writes its request over any other.
Asks(t) ==
    /\ thread[t].at = "running"
    /\ raised < MaxRequests
    /\ raised' = raised + 1
    /\ request' = raised + 1
    /\ response' = NoResponse
    /\ thread' = [thread EXCEPT ![t] = [Running EXCEPT !.at = "waiting", !.id = raised + 1]]
    /\ UNCHANGED shown

\* _read_decision: a response that names the request releases the thread with its
\* decision, any other with an error.
Accepted(t) == IF response.id = thread[t].id THEN response ELSE NoResponse

Polls(t) ==
    /\ thread[t].at = "waiting"
    /\ response # NoResponse
    /\ thread' = [thread EXCEPT ![t] = [@ EXCEPT !.at = "leaving", !.got = Accepted(t)]]
    /\ UNCHANGED <<request, response, shown, raised>>

\* The finally block: its own request, and whatever response is there.
Leaves(t) ==
    /\ thread[t].at = "leaving"
    /\ request' = IF request = thread[t].id THEN 0 ELSE request
    /\ response' = NoResponse
    /\ thread' = [thread EXCEPT ![t] = Running]
    /\ UNCHANGED <<shown, raised>>

\* A dashboard refreshes what it shows.
Shows(v) ==
    /\ shown' = [shown EXCEPT ![v] =
         [id |-> request, seen |-> IF request = 0 THEN @.seen ELSE request]]
    /\ UNCHANGED <<thread, request, response, raised>>

\* The check of the request id.  A dashboard that shows a question or an approval
\* passes its id; one that shows no approval passes none, and the check is skipped.
Matches_Any(v) == TRUE
Matches(v) == request = shown[v].id \/ (Approvals /\ shown[v].id = 0)

\* The user answers the last request seen, which may be gone from the view by then,
\* or the view stale.
Decides(v) ==
    /\ shown[v].seen # 0
    /\ shown[v].id # 0 \/ Approvals
    /\ request # 0
    /\ Matches(v)
    /\ response = NoResponse
    /\ response' = [id |-> request, seen |-> shown[v].seen]
    /\ UNCHANGED <<thread, request, shown, raised>>

AskNext ==
    \/ \E t \in Askers : Asks(t) \/ Polls(t) \/ Leaves(t)
    \/ \E v \in Views : Shows(v) \/ Decides(v)

AskSpec == AskInit /\ [][AskNext]_askVars

-----------------------------------------------------------------------------
(* Properties *)

\* Whatever threads ask and leave in between, an answer releases only the request
\* its user has seen.
AnswerIsForRequest == \A t \in Askers :
    thread[t].got # NoResponse => thread[t].got.seen = thread[t].id
=============================================================================
