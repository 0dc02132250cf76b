------------------------------ MODULE MCServices ------------------------------
(* The smaller services in one run of TLC: the task graph of a session, model   *)
(* calls, a workflow, prompts of a background worker, messages of other         *)
(* sessions, and the release of background delegates.  No two of them share     *)
(* state: the initial state picks one, a step is a step of it, and every        *)
(* behavior is, for each module, one of its specification.                      *)
EXTENDS SessionTasks, ModelCalls, DynamicWorkflow, BackgroundPrompt, PeerInbox

VARIABLES
    service,
    task, registry, transcript, lead, run, sent

delegateVars == <<task, registry, transcript, lead, run, sent>>

\* A subagent that is resumed while a teardown runs.
DelegateTasks == {1, 2}

Delegates == INSTANCE BackgroundDelegate WITH
    Ids <- {1}, Tasks <- DelegateTasks, Teammates <- {}, Limit <- 2, MaxRetained <- 3,
    MaxIterations <- 1, MaxMessages <- 1, MaxRuns <- 2, Nesting <- FALSE

ASSUME CallsAssumption /\ WorkflowAssumption
ASSUME PromptAssumption /\ PeerAssumption /\ Delegates!DelegateAssumption

MCInit ==
    /\ service \in {"team", "lead", "calls", "flow", "questions", "delegates", "peers"}
    /\ Init
    /\ CallInit
    /\ FlowInit
    /\ AskInit
    /\ Delegates!Init
    /\ PeerInit
    /\ service # "calls" => ~budgeted
    /\ service # "flow" => ~overlap
    /\ service # "peers" => explicit = "none" /\ ~bypasses

\* With teammates two tasks, and three ids that a teammate asks for.
TeamBound == nextId' <= 3

\* The lead alone, with a third task: cycles of three.
LeadBound == reading' = reading /\ \A t \in DOMAIN tasks' : tasks'[t].owner = NoOne

\* Two sessions at once with one call, until two threads are at work at once, or
\* three one after the other with two calls.  They open in the order of their numbers.
FlowBound ==
    /\ ~doubled
    /\ \A p \in born' : p = 1 \/ p - 1 \in born'
    /\ overlap => 3 \notin born' /\ \A p \in Processes : runner'[p].made \subseteq {1}

MCNext ==
    /\ UNCHANGED service
    /\ \/ service = "team" /\ Next /\ TeamBound
       \/ service = "lead" /\ Next /\ LeadBound
       \/ service \notin {"team", "lead"} /\ UNCHANGED vars
    /\ IF service = "calls" THEN CallNext ELSE UNCHANGED callVars
    /\ IF service = "flow" THEN FlowNext /\ FlowBound ELSE UNCHANGED flowVars
    /\ IF service = "questions" THEN AskNext ELSE UNCHANGED askVars
    /\ IF service = "peers" THEN PeerNext ELSE UNCHANGED peerVars
    /\ IF service = "delegates" THEN Delegates!Next ELSE UNCHANGED delegateVars

allVars == <<service, vars, callVars, flowVars, askVars, peerVars, delegateVars>>

\* The fairness of FlowSpec and BackgroundDelegate!FairSpec.
MCSpec ==
    /\ MCInit
    /\ [][MCNext]_allVars
    /\ \A p \in Processes : WF_flowVars(Thread(p))
    /\ \A t \in DelegateTasks : WF_delegateVars(Delegates!Thread(t))
    /\ WF_delegateVars(Delegates!LeadGoesOn)

\* Every part of the state of every service has its type.
TypesOK ==
    /\ TypeOK
    /\ CallTypeOK
    /\ FlowTypeOK
    /\ AskTypeOK
    /\ PeerTypeOK

\* BackgroundDelegate!TeardownReleases: what a teardown has marked leaves the registry.
TeardownReleases == Delegates!TeardownReleases
=============================================================================
