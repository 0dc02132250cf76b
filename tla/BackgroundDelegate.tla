-------------------------- MODULE BackgroundDelegate --------------------------
(***************************************************************************)
(* Background subagents of one session: the in-process registry of         *)
(* background_delegate_runtime.py, the loop of a subagent thread           *)
(* (agent_delegate.py, agent_delegate_loop.py), the messages sent to it,   *)
(* and its transcript on disk (subagent_transcripts.py).                   *)
(*                                                                         *)
(* A task is one incarnation of a subagent: resuming subagent i starts     *)
(* another task with the same id.  Actors are the main loop of the session *)
(* (the lead) and one thread per task.                                     *)
(***************************************************************************)
EXTENDS Integers, FiniteSets, Functions

CONSTANTS
    Ids,            \* subagent ids, numbered as they are generated
    Teammates,      \* ids of named teammates: only they run TeammateIdle hooks
    Tasks,          \* BackgroundDelegateTask objects, numbered as they are created
    Limit,          \* VIBEAGENT_MAX_CONCURRENT_SUBAGENTS
    MaxRetained,    \* _MAX_RETAINED_TASKS
    MaxIterations,  \* max_iterations of every subagent
    MaxMessages,    \* bound: messages sent
    MaxRuns,        \* bound: runs of the agent, each ended by a teardown
    Nesting         \* subagents start background subagents of their own

\* Assumed wherever the module is instantiated.
DelegateAssumption ==
    /\ Ids \subseteq Nat \ {0}
    /\ Teammates \subseteq Ids
    /\ IsFiniteSet(Tasks)
    /\ Tasks \subseteq Nat \ {0}
    /\ Limit \in Nat \ {0}
    /\ MaxRetained \in Nat \ {0}
    /\ MaxIterations \in Nat \ {0}
    /\ MaxMessages \in Nat
    /\ MaxRuns \in Nat \ {0}
    /\ Nesting \in BOOLEAN

VARIABLES
    task,        \* every BackgroundDelegateTask with the place of its thread
    registry,    \* _TASKS: each object under a key, with the place of the key
    transcript,  \* subagents/<id>.json
    lead,        \* the operation the main loop is in
    run,         \* number of the current agent run
    sent         \* messages numbered so far

vars == <<task, registry, transcript, lead, run, sent>>

NoTask == 0
Message(n) == <<NoTask, n>>
Messages == {Message(n) : n \in 1 .. MaxMessages}
Responses == Tasks \X (1 .. MaxIterations)

Statuses == {"absent", "running", "completed", "failed", "cancelled"}
Results == Statuses \ {"absent", "running"}
\* Places of a thread that owns its subagent's transcript.
Looping == {"turn", "model", "retry", "tool", "finish", "final", "idle", "idle2", "batch"}
Owning == Looping \cup {"close", "close2", "ended"}
Places == Owning \cup {"unused", "created", "returned", "done", "gone"}

Blank == [id |-> NoTask, line |-> {}, born |-> 0, resumes |-> 0, followup |-> {},
          pc |-> "unused", turns |-> 0, cancel |-> FALSE, done |-> FALSE,
          discard |-> FALSE, notified |-> FALSE, accepting |-> TRUE,
          pending |-> {}, accepted |-> {}, context |-> {}, base |-> {},
          seen |-> {}, forgotten |-> {}, result |-> "failed"]

NoOperation == [op |-> "idle", id |-> NoTask, waits |-> NoTask, message |-> {},
                runs |-> 0, context |-> {}, matching |-> {}]

History == SUBSET (Messages \cup Responses)

TaskRecord ==
    [id : Ids \cup {NoTask}, line : SUBSET Tasks, born : 0 .. MaxRuns,
     resumes : Nat, followup : SUBSET Messages, pc : Places,
     turns : 0 .. MaxIterations, cancel : BOOLEAN, done : BOOLEAN,
     discard : BOOLEAN, notified : BOOLEAN, accepting : BOOLEAN,
     pending : SUBSET Messages, accepted : SUBSET Messages,
     context : History, base : History,
     seen : SUBSET Messages,     \* messages in a request its model has answered
     forgotten : History,        \* what compactions took out of the conversation
     result : Results]

Operation ==
    [op : {"idle", "wait", "resume", "start", "cancel", "drop"},
     id : Ids \cup {NoTask}, waits : Tasks \cup {NoTask}, message : SUBSET Messages,
     runs : Nat, context : History, matching : SUBSET Tasks]

\* A key goes to the end of the dictionary when it is entered and stays there when its
\* object is replaced: its place is the number of the task that was entered with it.
TypeOK ==
    /\ task \in [Tasks -> TaskRecord]
    /\ DOMAIN registry \subseteq Tasks
    /\ registry \in [DOMAIN registry -> Tasks]
    /\ transcript \in [Ids -> [status : Statuses, runs : Nat, history : History]]
    /\ lead \in Operation
    /\ run \in 1 .. MaxRuns
    /\ sent \in 0 .. MaxMessages

Init ==
    /\ task = [t \in Tasks |-> Blank]
    /\ registry = [t \in {} |-> t]
    /\ transcript = [i \in Ids |-> [status |-> "absent", runs |-> 0, history |-> {}]]
    /\ lead = NoOperation
    /\ run = 1
    /\ sent = 0

-----------------------------------------------------------------------------
(* The registry *)

Registered == DOMAIN registry

\* The object found under key i, or NoTask.
Found(i) ==
    LET holders == {t \in Registered : task[t].id = i}
    IN  IF holders = {} THEN NoTask ELSE CHOOSE t \in holders : TRUE

IsRunning(t) == t # NoTask /\ ~task[t].done

\* cancel_requested of a task: its own event or that of a task above it.
Cancelled(t) == \E u \in task[t].line : task[u].cancel

\* _TASKS.pop(key, None): whatever object is there now.
WithoutKeys(ids) == Restrict(registry, {t \in Registered : task[t].id \notin ids})

\* At the limit the oldest finished tasks go, reported or not.
Excess == Cardinality(Registered) - MaxRetained + 1
Older(set, t) == {u \in set : registry[u] < registry[t]}
Pruned_Oldest ==
    Restrict(registry, {t \in Registered : Cardinality(Older(Registered, t)) >= Excess})
Pruned ==
    LET finished == {t \in Registered : task[t].done}
    IN  Restrict(registry, {t \in Registered :
            t \in finished => Cardinality(Older(finished, t)) >= Excess})

\* _TASKS[key] = task
Entered(reg, t, i) ==
    LET replaced == {u \in DOMAIN reg : task[u].id = i}
        place    == IF replaced = {} THEN t ELSE reg[CHOOSE u \in replaced : TRUE]
    IN  [u \in (DOMAIN reg \ replaced) \cup {t} |-> IF u = t THEN place ELSE reg[u]]

MayStart_OneMore(i) ==
    /\ ~IsRunning(Found(i))
    /\ Cardinality({t \in Registered : ~task[t].done}) <= Limit
MayStart(i) ==
    /\ ~IsRunning(Found(i))
    /\ Cardinality({t \in Registered : ~task[t].done}) < Limit

\* The locked section of start_background_delegate_task and the thread's start.
Start(t, i, parent, resumes, context, followup) ==
    /\ task[t].pc = "unused"
    /\ \A u \in Tasks : u < t => task[u].pc # "unused"
    /\ MayStart(i)
    /\ registry' = Entered(Pruned, t, i)
    /\ task' = [task EXCEPT ![t] =
         [Blank EXCEPT !.id = i, !.pc = "created", !.resumes = resumes,
             !.base = context, !.followup = followup,
             !.line = {t} \cup (IF parent = NoTask THEN {} ELSE task[parent].line),
             !.born = IF parent = NoTask THEN run ELSE task[parent].born]]

\* A generated id is new; a teammate's name must have no transcript yet.
Unused(i) ==
    /\ transcript[i].status = "absent"
    /\ i \notin Teammates =>
         LET used == {task[t].id : t \in Tasks}
         IN  i \notin used /\ \A j \in Ids \ Teammates : j < i => j \in used

LeadStarts(t, i) ==
    /\ lead.op = "idle"
    /\ Unused(i)
    /\ Start(t, i, NoTask, 0, {}, {})
    /\ UNCHANGED <<transcript, lead, run, sent>>

SubagentStarts(p, t, i) ==
    /\ Nesting
    /\ task[p].pc = "tool"
    /\ task[p].id \notin Teammates
    /\ i \notin Teammates
    /\ Unused(i)
    /\ Start(t, i, p, 0, {}, {})
    /\ UNCHANGED <<transcript, lead, run, sent>>

-----------------------------------------------------------------------------
(* Messages to a subagent *)

\* The locked section of send_background_delegate_message accepts the next message.
Accept(t) ==
    /\ sent < MaxMessages
    /\ IsRunning(t)
    /\ task[t].accepting
    /\ sent' = sent + 1
    /\ task' = [task EXCEPT ![t] =
         [@ EXCEPT !.pending = task[t].pending \cup {Message(sent + 1)},
                   !.accepted = task[t].accepted \cup {Message(sent + 1)}]]

LeadSteers(i) ==
    /\ lead.op = "idle"
    /\ Accept(Found(i))
    /\ UNCHANGED <<registry, transcript, lead, run>>

\* The subagent is ending: wait for it, five seconds at most.
LeadMeetsEnding(i) ==
    /\ lead.op = "idle"
    /\ sent < MaxMessages
    /\ IsRunning(Found(i))
    /\ ~task[Found(i)].accepting
    /\ sent' = sent + 1
    /\ lead' = [NoOperation EXCEPT !.op = "wait", !.id = i, !.waits = Found(i),
                                   !.message = {Message(sent + 1)}]
    /\ UNCHANGED <<task, registry, transcript, run>>

\* The wait ends with the task or by its timeout.
LeadWaited ==
    /\ lead.op = "wait"
    /\ lead' = [lead EXCEPT !.op = "resume"]
    /\ UNCHANGED <<task, registry, transcript, run, sent>>

LeadMeetsEnded(i) ==
    /\ lead.op = "idle"
    /\ sent < MaxMessages
    /\ ~IsRunning(Found(i))
    /\ transcript[i].status # "absent"
    /\ sent' = sent + 1
    /\ lead' = [NoOperation EXCEPT !.op = "resume", !.id = i, !.message = {Message(sent + 1)}]
    /\ UNCHANGED <<task, registry, transcript, run>>

LeadReadsTranscript ==
    /\ lead.op = "resume"
    /\ lead' = [lead EXCEPT !.op = "start", !.runs = transcript[lead.id].runs,
                            !.context = transcript[lead.id].history]
    /\ UNCHANGED <<task, registry, transcript, run, sent>>

LeadResumes(t) ==
    /\ lead.op = "start"
    /\ Start(t, lead.id, NoTask, lead.runs, lead.context, lead.message)
    /\ lead' = NoOperation
    /\ UNCHANGED <<transcript, run, sent>>

\* Already running, or the limit is reached: the caller gets the error.
LeadRefused ==
    /\ lead.op = "start"
    /\ ~MayStart(lead.id) \/ \A t \in Tasks : task[t].pc # "unused"
    /\ lead' = NoOperation
    /\ UNCHANGED <<task, registry, transcript, run, sent>>

\* A teammate sends to another teammate.
PeerSends(p, i) ==
    /\ task[p].pc = "tool"
    /\ {task[p].id, i} \subseteq Teammates
    /\ task[p].id # i
    /\ Accept(Found(i))
    /\ UNCHANGED <<registry, transcript, lead, run>>

-----------------------------------------------------------------------------
(* Results, cancellation, teardown *)

\* collect_background_delegate_notifications, before a model turn of the lead.
LeadCollects ==
    /\ lead.op = "idle"
    /\ \E t \in Registered : task[t].done /\ ~task[t].notified
    /\ task' = [t \in Tasks |-> IF t \in Registered /\ task[t].done
                                THEN [task[t] EXCEPT !.notified = TRUE] ELSE task[t]]
    /\ UNCHANGED <<registry, transcript, lead, run, sent>>

\* TaskOutput of a finished task, by the lead or by a subagent.
ReadsResult(t) ==
    /\ t \in Registered
    /\ task[t].done
    /\ ~task[t].notified
    /\ lead.op = "idle" \/ \E p \in Tasks : task[p].pc = "tool" /\ task[p].id \notin Teammates
    /\ task' = [task EXCEPT ![t].notified = TRUE]
    /\ UNCHANGED <<registry, transcript, lead, run, sent>>

\* TaskStop
StopsTask(t) ==
    /\ lead.op = "idle"
    /\ t \in Registered
    /\ ~task[t].cancel
    /\ task' = [task EXCEPT ![t].cancel = TRUE]
    /\ UNCHANGED <<registry, transcript, lead, run, sent>>

\* close_background_delegate_tasks at the end of a run of the agent: mark, cancel
\* and wait, drop.
CloseMarks ==
    /\ lead.op = "idle"
    /\ run < MaxRuns
    /\ task' = [t \in Tasks |-> IF t \in Registered THEN [task[t] EXCEPT !.discard = TRUE]
                                                    ELSE task[t]]
    /\ lead' = [NoOperation EXCEPT !.op = "cancel", !.matching = Registered]
    /\ UNCHANGED <<registry, transcript, run, sent>>

CloseCancels ==
    /\ lead.op = "cancel"
    /\ task' = [t \in Tasks |-> IF t \in lead.matching /\ ~task[t].done
                                THEN [task[t] EXCEPT !.cancel = TRUE] ELSE task[t]]
    /\ lead' = [lead EXCEPT !.op = "drop"]
    /\ UNCHANGED <<registry, transcript, run, sent>>

CloseDrops ==
    /\ lead.op = "drop"
    /\ registry' = WithoutKeys({task[t].id : t \in {u \in lead.matching : task[u].done}})
    /\ lead' = NoOperation
    /\ run' = run + 1
    /\ UNCHANGED <<task, transcript, sent>>

-----------------------------------------------------------------------------
(* The thread of a task *)

Checkpoint(t, context) ==
    transcript' = [transcript EXCEPT ![task[t].id] =
                     [@ EXCEPT !.status = "running", !.history = context]]

Goes(t, place) == task' = [task EXCEPT ![t].pc = place]
Ends(t, place, result) ==
    task' = [task EXCEPT ![t] = [@ EXCEPT !.pc = place, !.result = result]]

Creates(t) ==
    /\ task[t].pc = "created"
    /\ task[t].resumes = 0
    /\ transcript' = [transcript EXCEPT ![task[t].id] =
                        [status |-> "running", runs |-> 1, history |-> {}]]
    /\ task' = [task EXCEPT ![t] = [@ EXCEPT !.pc = "turn", !.turns = 1]]
    /\ UNCHANGED <<registry, lead, run, sent>>

Claimable_RunsOnly(t) == transcript[task[t].id].runs = task[t].resumes
Claimable(t) ==
    /\ transcript[task[t].id].status # "running"
    /\ transcript[task[t].id].runs = task[t].resumes

\* The messages a resumed subagent starts with: what the lead read, and its message.
Resumed_Afresh(t) == task[t].followup
Resumed(t) == task[t].base \cup task[t].followup

Claims(t) ==
    /\ task[t].pc = "created"
    /\ task[t].resumes > 0
    /\ Claimable(t)
    /\ LET context == Resumed(t)
       IN  /\ transcript' = [transcript EXCEPT ![task[t].id] =
                 [status |-> "running", runs |-> @.runs + 1, history |-> context]]
           /\ task' = [task EXCEPT ![t] =
                 [@ EXCEPT !.pc = "turn", !.turns = 1, !.context = context,
                           !.accepted = task[t].accepted \cup task[t].followup,
                           !.base = {}, !.followup = {}]]
    /\ UNCHANGED <<registry, lead, run, sent>>

ClaimFails(t) ==
    /\ task[t].pc = "created"
    /\ task[t].resumes > 0
    /\ ~Claimable(t)
    /\ Ends(t, "returned", "failed")
    /\ UNCHANGED <<registry, transcript, lead, run, sent>>

\* Refused by a policy, no worktree, or an error before the transcript is written.
SetupFails(t) ==
    /\ task[t].pc = "created"
    /\ Ends(t, "returned", "failed")
    /\ UNCHANGED <<registry, transcript, lead, run, sent>>

\* An exception after that ends the run; nobody closes the inbox.
Breaks(t) ==
    /\ task[t].pc \in Looping
    /\ Ends(t, "ended", "failed")
    /\ UNCHANGED <<registry, transcript, lead, run, sent>>

\* Top of an iteration: take the messages, then look at the cancellation.
TakesMessages(t) ==
    LET context == task[t].context \cup task[t].pending
    IN  /\ task[t].pc = "turn"
        /\ IF task[t].pending = {} THEN UNCHANGED transcript ELSE Checkpoint(t, context)
        /\ task' = [task EXCEPT ![t] =
             [@ EXCEPT !.context = context, !.pending = {},
                       !.pc = IF Cancelled(t) THEN "close" ELSE "model",
                       !.result = IF Cancelled(t) THEN "cancelled" ELSE task[t].result]]
        /\ UNCHANGED <<registry, lead, run, sent>>

\* What compact_delegate_message_history may leave of a conversation: all of it (below
\* the thresholds, refused by a hook, not shorter); the prompt; or the prompt and the
\* response whose tools returned images, when no message was taken since.
Compacted(t, response) ==
    {task[t].context, {}} \cup
    {kept \in {task[t].context \cap {response}} :
        task[t].context \cap Messages \subseteq task[t].seen}

\* The request is too long: compacted and sent again, once, with no checkpoint.
ContextLimit(t) ==
    /\ task[t].pc = "model"
    /\ \E context \in Compacted(t, <<t, task[t].turns - 1>>) \ {task[t].context} :
         task' = [task EXCEPT ![t] =
           [@ EXCEPT !.pc = "retry", !.context = context,
                     !.forgotten = task[t].forgotten \cup (task[t].context \ context)]]
    /\ UNCHANGED <<registry, transcript, lead, run, sent>>

ModelFails(t) ==
    /\ task[t].pc \in {"model", "retry"}
    /\ Ends(t, "close", "failed")
    /\ UNCHANGED <<registry, transcript, lead, run, sent>>

ModelCancelled(t) ==
    /\ task[t].pc \in {"model", "retry", "tool"}
    /\ Cancelled(t)
    /\ Ends(t, "close", "cancelled")
    /\ UNCHANGED <<registry, transcript, lead, run, sent>>

\* The response has tool calls, or is the last word.
Responds(t, place) ==
    LET context == task[t].context \cup {<<t, task[t].turns>>}
    IN  /\ task[t].pc \in {"model", "retry"}
        /\ ~Cancelled(t)
        /\ Checkpoint(t, context)
        /\ task' = [task EXCEPT ![t] =
             [@ EXCEPT !.context = context, !.pc = place,
                       !.seen = task[t].seen \cup (task[t].context \cap Messages)]]
        /\ UNCHANGED <<registry, lead, run, sent>>

\* The tools have run, or the finish tool was called, or a hook sends a subagent that
\* called it back to work: what is left of the iteration follows the tool calls.
ToolsEnd(t) ==
    /\ task[t].pc \in {"tool", "finish", "idle2"}
    /\ Goes(t, "batch")
    /\ UNCHANGED <<registry, transcript, lead, run, sent>>

FinishCalled(t) ==
    /\ task[t].pc = "tool"
    /\ Goes(t, "finish")
    /\ UNCHANGED <<registry, transcript, lead, run, sent>>

\* A hook of a tool, or of the batch, halts the turn.
ToolsHalt(t) ==
    /\ task[t].pc \in {"tool", "batch"}
    /\ Ends(t, "close", "failed")
    /\ UNCHANGED <<registry, transcript, lead, run, sent>>

\* Next iteration, or the limit of iterations.
Advanced_NoLimit(t) == [task[t] EXCEPT !.turns = @ + 1, !.pc = "turn"]
Advanced(t) ==
    IF task[t].turns < MaxIterations
    THEN [task[t] EXCEPT !.turns = @ + 1, !.pc = "turn"]
    ELSE [task[t] EXCEPT !.pc = "close", !.result = "failed"]

\* Tool results, or the feedback of a SubagentStop or TeammateIdle hook on a last word,
\* go to the model; the conversation may be compacted before.
Continues(t) ==
    /\ task[t].pc \in {"batch", "final", "idle"}
    /\ LET response == <<t, IF task[t].pc = "batch" THEN task[t].turns ELSE 0>>
       IN  \E context \in Compacted(t, response) :
             /\ Checkpoint(t, context)
             /\ task' = [task EXCEPT ![t] =
                  [Advanced(t) EXCEPT !.context = context,
                     !.forgotten = task[t].forgotten \cup (task[t].context \ context)]]
    /\ UNCHANGED <<registry, lead, run, sent>>

\* The last look at the inbox: messages defer the end, none closes it.
FinalMessages(t) ==
    LET context == task[t].context \cup task[t].pending
        next    == IF task[t].pc = "final" THEN Advanced(t) ELSE [task[t] EXCEPT !.pc = "batch"]
    IN  /\ task[t].pc \in {"final", "finish"}
        /\ task[t].pending # {}
        /\ Checkpoint(t, context)
        /\ task' = [task EXCEPT ![t] = [next EXCEPT !.context = context, !.pending = {}]]
        /\ UNCHANGED <<registry, lead, run, sent>>

\* Where a last word leads: a teammate's hook may still refuse it.
AfterFinal(t) ==
    IF task[t].id \notin Teammates THEN "ended"
    ELSE IF task[t].pc = "final"   THEN "idle"
    ELSE "idle2"

FinalEmpty_StaysOpen(t) ==
    /\ task[t].pc \in {"final", "finish"}
    /\ task[t].pending = {}
    /\ task' = [task EXCEPT ![t] = [@ EXCEPT !.result = "completed", !.pc = AfterFinal(t)]]
    /\ UNCHANGED <<registry, transcript, lead, run, sent>>

\* An empty report is a failure.
FinalEmpty(t) ==
    /\ task[t].pc \in {"final", "finish"}
    /\ task[t].pending = {}
    /\ \E result \in {"completed", "failed"} :
         task' = [task EXCEPT ![t] =
           [@ EXCEPT !.accepting = FALSE, !.result = result, !.pc = AfterFinal(t)]]
    /\ UNCHANGED <<registry, transcript, lead, run, sent>>

\* The TeammateIdle hook stops a teammate, or lets it end.
IdleHalt(t) ==
    /\ task[t].pc \in {"idle", "idle2"}
    /\ Ends(t, "ended", "failed")
    /\ UNCHANGED <<registry, transcript, lead, run, sent>>

Finishes(t) ==
    /\ task[t].pc \in {"idle", "idle2"}
    /\ Goes(t, "ended")
    /\ UNCHANGED <<registry, transcript, lead, run, sent>>

\* DelegateInbox.close drains twice; only a drain that finds nothing closes the inbox.
ClosesInbox(t) ==
    /\ task[t].pc \in {"close", "close2"}
    /\ task' = [task EXCEPT ![t] =
         [@ EXCEPT !.pending = {},
                   !.accepting = task[t].accepting /\ task[t].pending # {},
                   !.pc = IF task[t].pc = "close" THEN "close2" ELSE "ended"]]
    /\ UNCHANGED <<registry, transcript, lead, run, sent>>

Completes(t) ==
    /\ task[t].pc = "ended"
    /\ transcript' = [transcript EXCEPT ![task[t].id] =
                        [@ EXCEPT !.status = task[t].result, !.history = task[t].context]]
    /\ Goes(t, "returned")
    /\ UNCHANGED <<registry, lead, run, sent>>

\* done_event is set before the lock is taken for the clean-up.  What only the
\* thread used is forgotten.
SetsDone(t) ==
    /\ task[t].pc = "returned"
    /\ task' = [task EXCEPT ![t] =
         [@ EXCEPT !.pc = "done", !.done = TRUE, !.base = {}, !.followup = {},
             !.pending = {}, !.accepted = {}, !.context = {}, !.seen = {}, !.forgotten = {},
             !.turns = 0, !.resumes = 0]]
    /\ UNCHANGED <<registry, transcript, lead, run, sent>>

CleansUp_Forgets(t) ==
    /\ task[t].pc = "done"
    /\ Goes(t, "gone")
    /\ UNCHANGED <<registry, transcript, lead, run, sent>>

CleansUp(t) ==
    /\ task[t].pc = "done"
    /\ registry' = IF task[t].discard THEN WithoutKeys({task[t].id}) ELSE registry
    /\ Goes(t, "gone")
    /\ UNCHANGED <<transcript, lead, run, sent>>

-----------------------------------------------------------------------------

\* Steps the thread of t takes by itself.
Thread(t) ==
    \/ Creates(t) \/ Claims(t) \/ ClaimFails(t) \/ SetupFails(t)
    \/ TakesMessages(t) \/ ContextLimit(t) \/ ModelFails(t) \/ ModelCancelled(t)
    \/ Responds(t, "tool") \/ Responds(t, "final")
    \/ FinishCalled(t) \/ ToolsEnd(t) \/ ToolsHalt(t) \/ Continues(t)
    \/ FinalMessages(t) \/ FinalEmpty(t) \/ IdleHalt(t) \/ Finishes(t)
    \/ Breaks(t) \/ ClosesInbox(t) \/ Completes(t) \/ SetsDone(t) \/ CleansUp(t)

\* Steps of the lead within an operation it has begun.
LeadGoesOn ==
    \/ LeadWaited \/ LeadReadsTranscript \/ LeadRefused
    \/ \E t \in Tasks : LeadResumes(t)
    \/ CloseCancels \/ CloseDrops

LeadBegins ==
    \/ \E i \in Ids : LeadSteers(i) \/ LeadMeetsEnding(i) \/ LeadMeetsEnded(i)
    \/ \E t \in Tasks, i \in Ids : LeadStarts(t, i)
    \/ \E t \in Tasks : StopsTask(t) \/ ReadsResult(t)
    \/ LeadCollects \/ CloseMarks

Next ==
    \/ LeadBegins
    \/ LeadGoesOn
    \/ \E t \in Tasks : Thread(t)
    \/ \E p, t \in Tasks, i \in Ids : SubagentStarts(p, t, i)
    \/ \E p \in Tasks, i \in Ids : PeerSends(p, i)

Spec == Init /\ [][Next]_vars

\* Threads run, model calls and hooks have timeouts, and the lead ends what it began.
FairSpec ==
    /\ Spec
    /\ \A t \in Tasks : WF_vars(Thread(t))
    /\ WF_vars(LeadGoesOn)

-----------------------------------------------------------------------------
(* Properties *)

\* A message the sender was told is delivered does not stay behind in the inbox of a
\* subagent that completes: the model has answered a request with it, or a compaction took
\* it from the conversation.  The last look at the inbox and the refusal of later messages
\* are one step.
DeliveredIsRead ==
    \A t \in Tasks : /\ task[t].result = "completed"
                     => task[t].accepted \subseteq task[t].seen \cup task[t].forgotten

\* A name is given to one subagent.  Once a teardown is over a teammate whose start failed
\* may be started twice under its name.
NamedOnce(t) == run = 1 \/ task[t].id \notin Teammates

\* Two threads never continue the same subagent, and the transcript of a subagent
\* that works says so: the claim compares status and runs.
OneOwner ==
    \A t \in Tasks : task[t].pc \in Owning /\ NamedOnce(t) =>
        /\ transcript[task[t].id].status = "running"
        /\ \A u \in Tasks \ {t} : task[u].pc \in Owning => task[u].id # task[t].id

\* Places of a thread that runs: it counts against the limit.
Working(t) == task[t].pc \notin {"unused", "done", "gone"}

\* Until a teardown is over, background subagents that run at once stay within the
\* configured limit.
WithinLimit == run = 1 => Cardinality({t \in Tasks : Working(t)}) <= Limit

\* Until a teardown is over, a subagent that runs can be found: TaskOutput, TaskStop
\* and messages reach it, whatever was pruned.
RunningIsRegistered == run = 1 => \A t \in Tasks : Working(t) => t \in Registered

\* What the compactions of the threads of subagent i took out of its conversation.
Forgotten(i) == UNION {task[t].forgotten : t \in {u \in Tasks : task[u].id = i}}

\* Until a teardown is over, the history of a subagent that no TeammateIdle hook sends
\* back to work loses nothing but what its own thread compacts: no resumption, late
\* checkpoint or completion overwrites it with an older one.
HistoryGrows ==
    [][run = 1 => \A i \in Ids \ Teammates :
           transcript[i].history \subseteq transcript'[i].history \cup Forgotten(i)']_vars

\* What a teardown has marked leaves the registry.
TeardownReleases ==
    \A t \in Tasks : task[t].discard ~> t \notin Registered

-----------------------------------------------------------------------------
(* What README.md says of background subagents and the code does not do; the   *)
(* project's README, "Further disagreements", gives the executions.            *)

\* SendMessage steers a running subagent: the model of a subagent that completes has
\* answered a request with every message its sender was told is delivered.
DeliveredIsSeen ==
    \A t \in Tasks : task[t].result = "completed" => task[t].accepted \subseteq task[t].seen

\* A finished result stays until somebody has been given it or its session ended.
ResultIsKept ==
    \A t \in Tasks : task[t].done /\ ~task[t].notified /\ ~task[t].discard
                     => t \in Registered

\* After a teardown every subagent of the ended run, and everything these start
\* later, is told to stop.
LeftoversCancelled ==
    \A t \in Tasks : Working(t) /\ task[t].born < run => Cancelled(t)

\* A subagent that goes on for another turn takes messages.
WorkingTakesMessages ==
    \A t \in Tasks : task[t].pc \in {"turn", "model", "retry", "tool"} => task[t].accepting

\* The limit holds, and only compactions forget, whatever was torn down or sent back.
LimitAcrossRuns == Cardinality({t \in Tasks : Working(t)}) <= Limit
NothingForgotten ==
    [][\A i \in Ids :
           transcript[i].history \subseteq transcript'[i].history \cup Forgotten(i)']_vars

=============================================================================
