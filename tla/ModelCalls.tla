------------------------------- MODULE ModelCalls -------------------------------
(***************************************************************************)
(* The model requests of one run, made by the main loop and the subagent   *)
(* threads through one shared client: a strict cost budget                 *)
(* (model_budget.py) around a chain of fallback models                     *)
(* (model_fallback.py, model_fallback_state.py).                           *)
(*                                                                         *)
(* Model 0 is the primary model, model k the k-th fallback.  Without       *)
(* --max-budget-usd the threads call concurrently; with it, a lock makes   *)
(* one call after the other.                                               *)
(***************************************************************************)
EXTENDS Integers, FiniteSets

CONSTANTS
    Threads,    \* the main loop and the subagents
    Fallbacks,  \* number of --fallback-model entries
    Budget,     \* the value of --max-budget-usd, when it is given
    MaxCost     \* bound: cost of one response

\* Assumed wherever the module is instantiated.
CallsAssumption ==
    /\ Fallbacks \in Nat
    /\ Budget \in Nat \ {0}
    /\ MaxCost \in Nat \ {0}

VARIABLES
    budgeted,    \* --max-budget-usd is given
    call,        \* per thread, where its call is and which model it asks
    active,      \* active_index, 0 while the primary is in use
    overloaded,  \* models that have reported an overload
    spent,       \* estimated_cost_usd
    failure      \* the budget's latched failure

callVars == <<budgeted, call, active, overloaded, spent, failure>>

Models == 0 .. Fallbacks
Idle == [at |-> "idle", model |-> 0]
At(place, m) == [at |-> place, model |-> m]

CallTypeOK ==
    /\ budgeted \in BOOLEAN
    /\ call \in [Threads -> [at : {"idle", "entered", "asking"}, model : Models]]
    /\ active \in Models
    /\ overloaded \subseteq Models
    /\ spent \in Nat
    /\ failure \in {"none", "exceeded", "accounting"}

CallInit ==
    /\ budgeted \in BOOLEAN
    /\ call = [t \in Threads |-> Idle]
    /\ active = 0
    /\ overloaded = {}
    /\ spent = 0
    /\ failure = "none"

\* The budget's lock is held for the whole call.
LockFree_Skipped == TRUE
LockFree == \A u \in Threads : call[u].at = "idle"

\* The checks _call_response makes under the lock, then the request.
Enters(t) ==
    /\ call[t].at = "idle"
    /\ budgeted => LockFree /\ failure = "none" /\ spent < Budget
    /\ call' = [call EXCEPT ![t] = At("entered", 0)]
    /\ UNCHANGED <<budgeted, active, overloaded, spent, failure>>

\* _complete_request: the primary until some request has met its overload.
Chooses(t) ==
    /\ call[t].at = "entered"
    /\ call' = [call EXCEPT ![t] = At("asking", active)]
    /\ UNCHANGED <<budgeted, active, overloaded, spent, failure>>

\* ModelFallbackState.activate and advance: the model to ask next, 0 when none is left.
NextModel_Increment(m) == IF active = Fallbacks THEN 0 ELSE active + 1
NextModel_NoEnd(m) == IF active > m THEN active ELSE m + 1
NextModel(m) ==
    IF active > m THEN active
    ELSE IF m = Fallbacks THEN 0 ELSE m + 1

Overloads(t) ==
    LET m == call[t].model
        next == NextModel(m)
    IN  /\ call[t].at = "asking"
        /\ overloaded' = overloaded \cup {m}
        /\ active' = IF next = 0 THEN active ELSE next
        /\ call' = [call EXCEPT ![t] = IF next = 0 THEN Idle ELSE At("asking", next)]
        /\ UNCHANGED <<budgeted, spent, failure>>

\* Any other error ends the call.
Fails(t) ==
    /\ call[t].at = "asking"
    /\ call' = [call EXCEPT ![t] = Idle]
    /\ UNCHANGED <<budgeted, active, overloaded, spent, failure>>

\* A response with its cost is charged; one whose usage cannot be priced ends the
\* accounting, charged or not.
Charged(cost) ==
    /\ spent' = spent + cost
    /\ failure' = IF spent + cost >= Budget THEN "exceeded" ELSE failure

Unpriced(cost) ==
    /\ spent' = spent + cost
    /\ failure' = "accounting"

Responds(t) ==
    /\ call[t].at = "asking"
    /\ call' = [call EXCEPT ![t] = Idle]
    /\ IF budgeted
       THEN \/ \E cost \in 0 .. MaxCost : Charged(cost)
            \/ \E cost \in 0 .. MaxCost : Unpriced(cost)
       ELSE UNCHANGED <<spent, failure>>
    /\ UNCHANGED <<budgeted, active, overloaded>>

CallNext == \E t \in Threads :
    Enters(t) \/ Chooses(t) \/ Overloads(t) \/ Fails(t) \/ Responds(t)

CallSpec == CallInit /\ [][CallNext]_callVars

-----------------------------------------------------------------------------
(* Properties *)

\* However many threads meet an overload at once, the model in use is the one
\* after the last that reported one, and none before it was skipped.
FollowsOverloads ==
    /\ 0 .. active - 1 \subseteq overloaded
    /\ \A m \in overloaded : m <= active

\* Threads that call at once do not all pass the check of a budget that one of
\* them exhausts: at most one response is paid beyond it.
OneCallBeyond == spent < Budget + MaxCost
=============================================================================
