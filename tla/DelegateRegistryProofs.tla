------------------------ MODULE DelegateRegistryProofs ------------------------
(***************************************************************************)
(* The registry of background subagents and their transcripts, for any     *)
(* numbers of tasks, messages, teammates and runs: a subagent has one      *)
(* owner; until a teardown is over, a subagent that runs is found, the     *)
(* limit holds, and a transcript loses only what its thread compacts.      *)
(***************************************************************************)
EXTENDS BackgroundDelegateProofs, FiniteSetTheorems

\* The object of a key exists, and no two have the same key.
KeysUnique ==
    /\ \A t \in Registered : task[t].pc # "unused"
    /\ \A t, u \in Registered : task[t].id = task[u].id => t = u

\* done_event is set when the thread has nothing left but the clean-up.
DoneIsPlace == \A t \in Tasks : task[t].done <=> task[t].pc \in {"done", "gone"}

\* Until the teardown drops tasks, its marks are on no object that is in the way of a
\* subagent that runs.
Marks ==
    /\ lead.op \notin {"cancel", "drop"} => \A t \in Tasks : ~task[t].discard
    /\ \A t, u \in Tasks : task[t].discard /\ Working(u) /\ task[u].id = task[t].id => u = t

Keys ==
    /\ KeysUnique
    /\ DoneIsPlace
    /\ RunningIsRegistered
    /\ WithinLimit
    /\ run = 1 => Marks

RegistryInv == InboxInv /\ Keys

\* A subagent is started, and its transcript not yet written.
Fresh(t) == task[t].pc = "created" /\ task[t].resumes = 0

\* A subagent without a transcript has not begun: it is about to create it, alone under
\* its id, or its start failed.
Unwritten(t) ==
    /\ Fresh(t) /\ NamedOnce(t)
       => /\ transcript[task[t].id].status = "absent"
          /\ \A u \in Tasks \ {t} : Working(u) => task[u].id # task[t].id
    /\ task[t].pc # "unused" /\ transcript[task[t].id].status = "absent"
       => /\ task[t].accepting
          /\ Fresh(t) \/ task[t].pc \in {"returned", "done", "gone"}

\* A transcript begins with its first run.
Absent == \A i \in Ids :
    /\ transcript[i].status = "absent" <=> transcript[i].runs = 0
    /\ transcript[i].status = "absent" => transcript[i].history = {}

\* The lead waits for, and resumes, subagents that have a transcript.
LeadKnows ==
    /\ lead.op \in {"wait", "resume", "start"} => transcript[lead.id].status # "absent"
    /\ lead.op = "start" => lead.runs # 0

\* The transcript of a subagent that works holds its conversation, and may still hold
\* what a compaction took out of it.
Conversation == \A t \in Tasks : task[t].pc \in Owning /\ NamedOnce(t) =>
    /\ task[t].context \subseteq transcript[task[t].id].history
    /\ transcript[task[t].id].history \subseteq task[t].context \cup task[t].forgotten

Owners == (\A t \in Tasks : Unwritten(t)) /\ Absent /\ LeadKnows /\ OneOwner /\ Conversation

OwnerInv == RegistryInv /\ Owners

\* Places of a thread that may still add to the conversation, were it not a teammate's.
Adding == {"created", "turn", "model", "retry", "tool", "finish", "final", "batch"}

\* Without a TeammateIdle hook a closed inbox is the end, and nobody is idle.
ClosedEnds == \A t \in Tasks : task[t].id \notin Teammates =>
    /\ ~task[t].accepting => task[t].pc \notin Adding
    /\ task[t].pc \notin {"idle", "idle2"}

\* While the lead is about to resume a subagent, nobody adds to its transcript.
Settled ==
    /\ lead.op \in {"wait", "resume", "start"} /\ lead.id \notin Teammates
       => \A t \in Tasks : task[t].id = lead.id => task[t].pc \notin Adding
    /\ lead.op = "start" /\ lead.id \notin Teammates
       => transcript[lead.id].history \subseteq lead.context

\* A subagent that is about to be resumed has what its transcript holds.
Current == \A t \in Tasks :
    task[t].pc = "created" /\ task[t].resumes > 0 /\ task[t].id \notin Teammates
    => transcript[task[t].id].history \subseteq task[t].base

FirstRunInv ==
    /\ OwnerInv
    /\ ClosedEnds
    /\ run = 1 => Settled /\ Current

-----------------------------------------------------------------------------
(* What the steps do, as far as the registry and the transcripts go. *)

Rank(u) == <<u.id, u.pc, u.done, u.resumes, u.accepting, u.context, u.base, u.forgotten>>
Others(t) == \A u \in Tasks \ {t} : task'[u] = task[u]

\* Nothing the invariant speaks of changes but what the lead is doing.
Quiet ==
    /\ \A u \in Tasks : Rank(task'[u]) = Rank(task[u])
    /\ CloseMarks \/ \A u \in Tasks : task'[u].discard = task[u].discard
    /\ UNCHANGED <<registry, transcript, run>>

\* A task is made for subagent i.
Made(t, i, resumes, context) ==
    /\ task[t].pc = "unused"
    /\ Others(t)
    /\ Rank(task'[t]) = <<i, "created", FALSE, resumes, TRUE, {}, context, {}>>
    /\ ~task'[t].discard
    /\ MayStart(i)
    /\ UNCHANGED <<transcript, run>>

\* The transcript of task t gets a status, a number of runs and a history.
Writes(t, status, runs, history) ==
    /\ transcript'[task[t].id].status = status
    /\ transcript'[task[t].id].runs = runs
    /\ transcript'[task[t].id].history = history
    /\ \A j \in Ids \ {task[t].id} : transcript'[j] = transcript[j]

\* The thread of t takes a step and leaves the other tasks alone.
Moves(t) ==
    /\ Others(t)
    /\ task[t].pc # "unused"
    /\ task[t].id \in Ids
    /\ task'[t].id = task[t].id
    /\ task'[t].discard = task[t].discard
    /\ UNCHANGED <<lead, run>>

\* It works on its conversation; what the conversation loses is forgotten.
Works(t) ==
    /\ task[t].pc \in Owning \ {"ended"}
    /\ task'[t].pc \in Owning
    /\ task'[t].done = task[t].done
    /\ task[t].context \cup task[t].forgotten \subseteq task'[t].context \cup task'[t].forgotten
    /\ \/ UNCHANGED transcript /\ task'[t].context \subseteq task[t].context
       \/ Writes(t, "running", transcript[task[t].id].runs, task'[t].context)
    /\ registry' = registry
    /\ task'[t].pc \in Adding => /\ task[t].pc \in Adding \cup {"idle", "idle2"}
                                 /\ task'[t].accepting = task[t].accepting
    /\ task'[t].pc \in {"idle", "idle2"} => task[t].id \in Teammates
    /\ task[t].pc \in {"close", "close2"} => UNCHANGED transcript

\* The locked section of a start makes a task.
LEMMA MadeByStart ==
    ASSUME InboxInv, NEW t \in Tasks, NEW i, NEW parent, NEW resumes, NEW context, NEW followup,
           Start(t, i, parent, resumes, context, followup), UNCHANGED <<transcript, run>>
    PROVE  Made(t, i, resumes, context)
BY DEF Made, Start, Others, Rank, Blank, InboxInv, Typed, TaskTyped

\* The steps of senders and of the lead that leave the threads where they are.
LEMMA QuietLead ==
    ASSUME InboxInv,
           \/ \E i \in Ids : LeadSteers(i) \/ LeadMeetsEnding(i) \/ LeadMeetsEnded(i)
           \/ \E t \in Tasks : StopsTask(t) \/ ReadsResult(t)
           \/ LeadCollects \/ CloseMarks
           \/ LeadWaited \/ LeadReadsTranscript \/ LeadRefused \/ CloseCancels
           \/ \E p \in Tasks, i \in Ids : PeerSends(p, i)
           \/ UNCHANGED vars
    PROVE  Quiet
<1>0. task \in [Tasks -> TaskRecord]
  BY DEF InboxInv, Typed, TaskTyped
<1> USE DEF Quiet, Rank, TaskRecord
<1>a. ASSUME NEW t, Accept(t)
      PROVE  \A u \in Tasks : Rank(task'[u]) = Rank(task[u]) /\ task'[u].discard = task[u].discard
  BY <1>0, <1>a DEF Accept
<1>1. ASSUME NEW i \in Ids, LeadSteers(i) PROVE Quiet
  <2> HIDE DEF Rank, TaskRecord
  <2>1. Accept(Found(i)) /\ UNCHANGED <<registry, transcript, run>>
    BY <1>1 DEF LeadSteers
  <2> QED
    BY <1>a, <2>1
<1>2. ASSUME NEW i \in Ids, LeadMeetsEnding(i) \/ LeadMeetsEnded(i) PROVE Quiet
  BY <1>2 DEF LeadMeetsEnding, LeadMeetsEnded
<1>3. ASSUME NEW t \in Tasks, StopsTask(t) \/ ReadsResult(t) PROVE Quiet
  BY <1>0, <1>3 DEF StopsTask, ReadsResult
<1>4. CASE LeadCollects \/ CloseMarks
  BY <1>0, <1>4 DEF LeadCollects, CloseMarks
<1>5. CASE LeadWaited \/ LeadReadsTranscript \/ LeadRefused
  BY <1>5 DEF LeadWaited, LeadReadsTranscript, LeadRefused
<1>6. CASE CloseCancels
  BY <1>0, <1>6 DEF CloseCancels
<1>7. ASSUME NEW p \in Tasks, NEW i \in Ids, PeerSends(p, i) PROVE Quiet
  <2> HIDE DEF Rank, TaskRecord
  <2>1. Accept(Found(i)) /\ UNCHANGED <<registry, transcript, run>>
    BY <1>7 DEF PeerSends
  <2> QED
    BY <1>a, <2>1
<1>8. CASE UNCHANGED vars
  BY <1>8 DEF vars
<1> QED
  BY <1>1, <1>2, <1>3, <1>4, <1>5, <1>6, <1>7, <1>8

\* A step of a thread that works, from what it does to its task and its transcript.
LEMMA StepWorks ==
    ASSUME NEW t \in Tasks, task[t].pc \in Owning \ {"ended"}, task[t].id \in Ids,
           transcript \in [Ids -> [status : Statuses, runs : Nat, history : History]],
           Others(t), UNCHANGED <<registry, lead, run>>,
           task'[t].id = task[t].id, task'[t].discard = task[t].discard,
           task'[t].done = task[t].done, task'[t].pc \in Owning,
           task[t].context \cup task[t].forgotten \subseteq task'[t].context \cup task'[t].forgotten,
           \/ UNCHANGED transcript /\ task'[t].context \subseteq task[t].context
           \/ Checkpoint(t, task'[t].context) /\ task[t].pc \notin {"close", "close2"},
           task'[t].pc \in Adding => /\ task[t].pc \in Adding \cup {"idle", "idle2"}
                                    /\ task'[t].accepting = task[t].accepting,
           task'[t].pc \in {"idle", "idle2"} => task[t].id \in Teammates
    PROVE  Moves(t) /\ Works(t)
<1>1. Checkpoint(t, task'[t].context)
      => Writes(t, "running", transcript[task[t].id].runs, task'[t].context)
  BY DEF Checkpoint, Writes
<1>2. Moves(t)
  BY DEF Moves, Owning, Looping
<1>3. Works(t)
  <2> HIDE DEF Writes, Checkpoint, Others, Adding, Owning
  <2>1. UNCHANGED transcript \/ task[t].pc \notin {"close", "close2"}
    OBVIOUS
  <2> QED
    BY <1>1, <2>1 DEF Works
<1> QED
  BY <1>2, <1>3

\* The thread's steps but for its beginning and the clean-up.
LEMMA ThreadWorks ==
    ASSUME DelegateAssumption, InboxInv, NEW t \in Tasks,
           \/ TakesMessages(t) \/ ContextLimit(t) \/ ModelFails(t) \/ ModelCancelled(t)
           \/ Responds(t, "tool") \/ Responds(t, "final")
           \/ FinishCalled(t) \/ ToolsEnd(t) \/ ToolsHalt(t) \/ Continues(t)
           \/ FinalMessages(t) \/ FinalEmpty(t) \/ IdleHalt(t) \/ Finishes(t)
           \/ Breaks(t) \/ ClosesInbox(t)
    PROVE  Moves(t) /\ Works(t)
<1>0. /\ task \in [Tasks -> TaskRecord]
      /\ task[t] \in TaskRecord
      /\ transcript \in [Ids -> [status : Statuses, runs : Nat, history : History]]
      /\ task[t].pc # "unused" => task[t].id \in Ids
  BY DEF InboxInv, Typed, TaskTyped, RestTyped, AllInboxes, Inbox, Started
<1>a. ASSUME NEW next, task' = [task EXCEPT ![t] = next] PROVE task'[t] = next /\ Others(t)
  BY <1>0, <1>a DEF Others
<1> USE DEF Owning, Looping, Adding
<1>1. CASE TakesMessages(t)
  <2>1. task' = [task EXCEPT ![t] =
          [task[t] EXCEPT !.context = task[t].context \cup task[t].pending, !.pending = {},
                          !.pc = IF Cancelled(t) THEN "close" ELSE "model",
                          !.result = IF Cancelled(t) THEN "cancelled" ELSE task[t].result]]
    BY <1>1 DEF TakesMessages
  <2>2. /\ Others(t)
        /\ task'[t].id = task[t].id
        /\ task'[t].discard = task[t].discard
        /\ task'[t].done = task[t].done
        /\ task'[t].accepting = task[t].accepting
        /\ task'[t].context = task[t].context \cup task[t].pending
        /\ task'[t].forgotten = task[t].forgotten
        /\ task'[t].pc \in {"close", "model"}
    BY <1>0, <1>a, <2>1 DEF TaskRecord
  <2>3. \/ UNCHANGED transcript /\ task[t].pending = {}
        \/ Checkpoint(t, task'[t].context)
    BY <1>1, <2>2 DEF TakesMessages
  <2>4. task[t].pc = "turn" /\ UNCHANGED <<registry, lead, run>>
    BY <1>1 DEF TakesMessages
  <2> QED
    BY <1>0, <2>2, <2>3, <2>4, StepWorks
<1>2. CASE ModelFails(t) \/ ModelCancelled(t) \/ ToolsHalt(t) \/ IdleHalt(t) \/ Breaks(t)
  <2>1. PICK place \in {"close", "ended"}, result \in {"failed", "cancelled"} :
          Ends(t, place, result)
    BY <1>2 DEF ModelFails, ModelCancelled, ToolsHalt, IdleHalt, Breaks
  <2>2. /\ task[t].pc \in Looping
        /\ UNCHANGED <<registry, transcript, lead, run>>
    BY <1>2 DEF ModelFails, ModelCancelled, ToolsHalt, IdleHalt, Breaks
  <2>3. task' = [task EXCEPT ![t] = [task[t] EXCEPT !.pc = place, !.result = result]]
    BY <2>1 DEF Ends
  <2>4. /\ Others(t)
        /\ task'[t].id = task[t].id /\ task'[t].discard = task[t].discard
        /\ task'[t].done = task[t].done
        /\ task'[t].context = task[t].context /\ task'[t].forgotten = task[t].forgotten
        /\ task'[t].pc = place
    BY <1>0, <1>a, <2>3 DEF TaskRecord
  <2> QED
    BY <1>0, <2>2, <2>4, StepWorks
<1>3. ASSUME NEW place \in {"tool", "final"}, Responds(t, place) PROVE Moves(t) /\ Works(t)
  <2>1. task' = [task EXCEPT ![t] =
          [task[t] EXCEPT !.context = task[t].context \cup {<<t, task[t].turns>>}, !.pc = place,
                          !.seen = task[t].seen \cup (task[t].context \cap Messages)]]
    BY <1>3 DEF Responds
  <2>2. /\ Others(t)
        /\ task'[t].id = task[t].id /\ task'[t].discard = task[t].discard
        /\ task'[t].done = task[t].done /\ task'[t].accepting = task[t].accepting
        /\ task'[t].context = task[t].context \cup {<<t, task[t].turns>>}
        /\ task'[t].forgotten = task[t].forgotten
        /\ task'[t].pc = place
    BY <1>0, <1>a, <2>1 DEF TaskRecord
  <2>3. /\ task[t].pc \in {"model", "retry"} /\ UNCHANGED <<registry, lead, run>>
        /\ Checkpoint(t, task'[t].context)
    BY <1>3, <2>2 DEF Responds
  <2> QED
    BY <1>0, <2>2, <2>3, StepWorks
<1>4. CASE FinishCalled(t) \/ ToolsEnd(t) \/ Finishes(t)
  <2>1. PICK place \in {"finish", "batch", "ended"} : Goes(t, place)
    BY <1>4 DEF FinishCalled, ToolsEnd, Finishes
  <2>2. /\ task[t].pc \in {"tool", "finish", "idle", "idle2"}
        /\ UNCHANGED <<registry, transcript, lead, run>>
    BY <1>4 DEF FinishCalled, ToolsEnd, Finishes
  <2>3. task' = [task EXCEPT ![t] = [task[t] EXCEPT !.pc = place]]
    BY <2>1 DEF Goes
  <2>4. /\ Others(t)
        /\ task'[t].id = task[t].id /\ task'[t].discard = task[t].discard
        /\ task'[t].done = task[t].done /\ task'[t].accepting = task[t].accepting
        /\ task'[t].context = task[t].context /\ task'[t].forgotten = task[t].forgotten
        /\ task'[t].pc = place
    BY <1>0, <1>a, <2>3 DEF TaskRecord
  <2> QED
    BY <1>0, <2>2, <2>4, StepWorks
<1>5. CASE FinalMessages(t)
  <2> DEFINE next == IF task[t].pc = "final" THEN Advanced(t) ELSE [task[t] EXCEPT !.pc = "batch"]
  <2>1. task' = [task EXCEPT ![t] =
          [next EXCEPT !.context = task[t].context \cup task[t].pending, !.pending = {}]]
    BY <1>5 DEF FinalMessages
  <2>2. /\ next \in TaskRecord
        /\ next.id = task[t].id /\ next.discard = task[t].discard
        /\ next.done = task[t].done /\ next.accepting = task[t].accepting
        /\ next.forgotten = task[t].forgotten
        /\ next.pc \in {"turn", "close", "batch"}
    <3>1. Advanced(t) \in TaskRecord /\ [task[t] EXCEPT !.pc = "batch"] \in TaskRecord
      BY <1>0, AdvancedTyped DEF TaskRecord, Places
    <3> QED
      BY <1>0, <3>1 DEF Advanced, TaskRecord
  <2>3. /\ Others(t)
        /\ task'[t].id = task[t].id /\ task'[t].discard = task[t].discard
        /\ task'[t].done = task[t].done /\ task'[t].accepting = task[t].accepting
        /\ task'[t].context = task[t].context \cup task[t].pending
        /\ task'[t].forgotten = task[t].forgotten
        /\ task'[t].pc \in {"turn", "close", "batch"}
    <3> HIDE DEF next, Owning, Looping, Adding
    <3>1. /\ Others(t)
          /\ task'[t] = [next EXCEPT !.context = task[t].context \cup task[t].pending, !.pending = {}]
      BY <1>a, <2>1
    <3> QED
      BY <2>2, <3>1 DEF TaskRecord
  <2>4. /\ task[t].pc \in {"final", "finish"} /\ UNCHANGED <<registry, lead, run>>
        /\ Checkpoint(t, task'[t].context)
    BY <1>5, <2>3 DEF FinalMessages
  <2> QED
    BY <1>0, <2>3, <2>4, StepWorks
<1>6. CASE FinalEmpty(t)
  <2>1. PICK result : task' = [task EXCEPT ![t] =
          [task[t] EXCEPT !.accepting = FALSE, !.result = result, !.pc = AfterFinal(t)]]
    BY <1>6 DEF FinalEmpty
  <2>2. /\ Others(t)
        /\ task'[t].id = task[t].id /\ task'[t].discard = task[t].discard
        /\ task'[t].done = task[t].done
        /\ task'[t].context = task[t].context /\ task'[t].forgotten = task[t].forgotten
        /\ task'[t].pc = AfterFinal(t)
    BY <1>0, <1>a, <2>1 DEF TaskRecord
  <2>3. /\ task[t].pc \in {"final", "finish"}
        /\ UNCHANGED <<registry, transcript, lead, run>>
    BY <1>6 DEF FinalEmpty
  <2>4. /\ AfterFinal(t) \in {"ended", "idle", "idle2"}
        /\ AfterFinal(t) \in {"idle", "idle2"} => task[t].id \in Teammates
    <3>1. CASE task[t].id \notin Teammates
      BY <3>1 DEF AfterFinal
    <3>2. CASE task[t].id \in Teammates
      BY <3>2 DEF AfterFinal
    <3> QED
      BY <3>1, <3>2
  <2> QED
    BY <1>0, <2>2, <2>3, <2>4, StepWorks
<1>7. CASE Continues(t)
  <2>1. PICK context \in SUBSET task[t].context :
          /\ Checkpoint(t, context)
          /\ task' = [task EXCEPT ![t] =
               [Advanced(t) EXCEPT !.context = context,
                  !.forgotten = task[t].forgotten \cup (task[t].context \ context)]]
    BY <1>7, CompactionShortens DEF Continues
  <2>2. /\ Advanced(t) \in TaskRecord
        /\ Advanced(t).id = task[t].id /\ Advanced(t).discard = task[t].discard
        /\ Advanced(t).done = task[t].done /\ Advanced(t).accepting = task[t].accepting
        /\ Advanced(t).pc \in {"turn", "close"}
    BY <1>0, AdvancedTyped DEF Advanced, TaskRecord
  <2>3. /\ Others(t)
        /\ task'[t].id = task[t].id /\ task'[t].discard = task[t].discard
        /\ task'[t].done = task[t].done /\ task'[t].accepting = task[t].accepting
        /\ task'[t].context = context
        /\ task'[t].forgotten = task[t].forgotten \cup (task[t].context \ context)
        /\ task'[t].pc \in {"turn", "close"}
    <3> HIDE DEF Owning, Looping, Adding
    <3>1. /\ Others(t)
          /\ task'[t] = [Advanced(t) EXCEPT !.context = context,
                           !.forgotten = task[t].forgotten \cup (task[t].context \ context)]
      BY <1>a, <2>1
    <3> QED
      BY <2>2, <3>1 DEF TaskRecord
  <2>4. task[t].pc \in {"batch", "final", "idle"} /\ UNCHANGED <<registry, lead, run>>
    BY <1>7 DEF Continues
  <2> QED
    BY <1>0, <2>1, <2>3, <2>4, StepWorks
<1>8. CASE ClosesInbox(t)
  <2>1. /\ task[t].pc \in {"close", "close2"}
        /\ task' = [task EXCEPT ![t] = task'[t]]
        /\ UNCHANGED <<registry, transcript, lead, run>>
    BY <1>0, <1>8 DEF ClosesInbox
  <2>2. /\ task'[t].id = task[t].id
        /\ task'[t].done = task[t].done
        /\ task'[t].discard = task[t].discard
        /\ task'[t].context = task[t].context
        /\ task'[t].forgotten = task[t].forgotten
        /\ task'[t].pc \in {"close2", "ended"}
    BY <1>0, <1>8 DEF ClosesInbox, TaskRecord
  <2>3. Others(t)
    BY <1>a, <2>1
  <2> QED
    BY <1>0, <2>1, <2>2, <2>3, StepWorks
<1>9. CASE ContextLimit(t)
  <2>1. PICK context \in SUBSET task[t].context :
          task' = [task EXCEPT ![t] =
            [task[t] EXCEPT !.pc = "retry", !.context = context,
               !.forgotten = task[t].forgotten \cup (task[t].context \ context)]]
    BY <1>9, CompactionShortens DEF ContextLimit
  <2>2. /\ Others(t)
        /\ task'[t].id = task[t].id /\ task'[t].discard = task[t].discard
        /\ task'[t].done = task[t].done /\ task'[t].accepting = task[t].accepting
        /\ task'[t].context = context
        /\ task'[t].forgotten = task[t].forgotten \cup (task[t].context \ context)
        /\ task'[t].pc = "retry"
    BY <1>0, <1>a, <2>1 DEF TaskRecord
  <2>3. task[t].pc = "model" /\ UNCHANGED <<registry, transcript, lead, run>>
    BY <1>9 DEF ContextLimit
  <2> QED
    BY <1>0, <2>1, <2>2, <2>3, StepWorks
<1> QED
  BY <1>1, <1>2, <1>3, <1>4, <1>5, <1>6, <1>7, <1>8, <1>9

\* The first and the last steps of a thread.
Begins(t) ==
    /\ task[t].pc = "created"
    /\ task[t].resumes = 0
    /\ task'[t].pc = "turn"
    /\ Rank(task'[t]) = Rank([task[t] EXCEPT !.pc = "turn"])
    /\ Writes(t, "running", 1, {})
    /\ registry' = registry

Reopens(t) ==
    /\ task[t].pc = "created"
    /\ task[t].resumes # 0
    /\ Claimable(t)
    /\ task'[t].pc = "turn"
    /\ task'[t].done = task[t].done
    /\ task'[t].accepting = task[t].accepting
    /\ task'[t].context = task[t].base \cup task[t].followup
    /\ Writes(t, "running", transcript[task[t].id].runs + 1, task'[t].context)
    /\ registry' = registry

Leaves(t) ==
    /\ task'[t].pc = "returned"
    /\ task'[t].done = task[t].done
    /\ task'[t].accepting = task[t].accepting
    /\ task'[t].forgotten = task[t].forgotten
    /\ \/ task[t].pc = "created" /\ UNCHANGED transcript
       \/ /\ task[t].pc = "ended"
          /\ \E result \in Results :
                Writes(t, result, transcript[task[t].id].runs, task[t].context)
    /\ registry' = registry

Concludes(t) ==
    /\ UNCHANGED transcript
    /\ task'[t].accepting = task[t].accepting
    /\ \/ /\ task[t].pc = "returned" /\ task'[t].pc = "done" /\ task'[t].done
          /\ registry' = registry
       \/ /\ task[t].pc = "done" /\ task'[t].pc = "gone" /\ task'[t].done = task[t].done
          /\ registry' = IF task[t].discard THEN WithoutKeys({task[t].id}) ELSE registry

\* A thread begins, reopens its transcript, works, leaves or concludes.
LEMMA ThreadMoves ==
    ASSUME DelegateAssumption, InboxInv, NEW t \in Tasks, Thread(t)
    PROVE  Moves(t) /\ (Begins(t) \/ Reopens(t) \/ Works(t) \/ Leaves(t) \/ Concludes(t))
<1>0. /\ task \in [Tasks -> TaskRecord]
      /\ transcript \in [Ids -> [status : Statuses, runs : Nat, history : History]]
      /\ task[t].pc # "unused" => task[t].id \in Ids
  BY DEF InboxInv, Typed, TaskTyped, RestTyped, AllInboxes, Inbox, Started
<1> USE DEF Moves, Others, TaskRecord
<1>1. CASE Creates(t)
  <2>1. Moves(t)
    BY <1>0, <1>1 DEF Creates
  <2>2. Begins(t)
    BY <1>0, <1>1 DEF Creates, Begins, Rank, Writes
  <2> QED
    BY <2>1, <2>2
<1>2. CASE Claims(t)
  <2>1. Moves(t)
    BY <1>0, <1>2 DEF Claims
  <2>2. Reopens(t)
    BY <1>0, <1>2 DEF Claims, Resumed, Reopens, Writes
  <2> QED
    BY <2>1, <2>2
<1>3. CASE ClaimFails(t) \/ SetupFails(t)
  <2>1. /\ task[t].pc = "created" /\ UNCHANGED <<registry, transcript, lead, run>>
        /\ task' = [task EXCEPT ![t] = [task[t] EXCEPT !.pc = "returned", !.result = "failed"]]
    BY <1>3 DEF ClaimFails, SetupFails, Ends
  <2>2. task'[t] = [task[t] EXCEPT !.pc = "returned", !.result = "failed"]
    BY <1>0, <2>1
  <2>3. Moves(t)
    BY <1>0, <2>1, <2>2
  <2>4. Leaves(t)
    BY <1>0, <2>1, <2>2 DEF Leaves
  <2> QED
    BY <2>3, <2>4
<1>4. CASE Completes(t)
  <2>1. Moves(t)
    BY <1>0, <1>4 DEF Completes, Goes
  <2>2. Leaves(t)
    BY <1>0, <1>4 DEF Completes, Goes, Leaves, Writes
  <2> QED
    BY <2>1, <2>2
<1>5. CASE SetsDone(t)
  BY <1>0, <1>5 DEF SetsDone, Concludes
<1>6. CASE CleansUp(t)
  BY <1>0, <1>6 DEF CleansUp, Goes, Concludes
<1> QED
  BY <1>1, <1>2, <1>3, <1>4, <1>5, <1>6, ThreadWorks DEF Thread

\* A subagent is started for the first time.
StartsFresh(t, i) ==
    /\ Unused(i)
    /\ \E parent \in Tasks \cup {NoTask} : Start(t, i, parent, 0, {}, {})
    /\ lead.op = "idle" \/ i \notin Teammates
    /\ UNCHANGED <<transcript, lead, run>>

\* Every step is of one of these kinds.
LEMMA Kinds ==
    ASSUME InboxInv, [Next]_vars
    PROVE  \/ Quiet
           \/ CloseDrops
           \/ \E t \in Tasks, i \in Ids : StartsFresh(t, i)
           \/ \E t \in Tasks : LeadResumes(t)
           \/ \E t \in Tasks : Thread(t)
<1>1. ASSUME NEW t \in Tasks, NEW i \in Ids, LeadStarts(t, i) PROVE StartsFresh(t, i)
  BY <1>1 DEF LeadStarts, StartsFresh
<1>2. ASSUME NEW p \in Tasks, NEW t \in Tasks, NEW i \in Ids, SubagentStarts(p, t, i)
      PROVE  StartsFresh(t, i)
  BY <1>2 DEF SubagentStarts, StartsFresh
<1> QED
  BY <1>1, <1>2, QuietLead DEF Next, LeadBegins, LeadGoesOn

-----------------------------------------------------------------------------
(* The registry. *)

\* What the lead is doing changes in few ways, and a teardown is not left half-way.
LEMMA LeadSteps ==
    ASSUME DelegateAssumption, InboxInv, [Next]_vars
    PROVE  \/ lead' = lead
           \/ lead'.op = "idle" /\ lead.op = "start"
           \/ lead'.op = "cancel" /\ CloseMarks
           \/ lead'.op = "drop" /\ lead.op = "cancel"
           \/ lead'.op = "idle" /\ CloseDrops
           \/ \E i \in Ids : LeadMeetsEnding(i) \/ LeadMeetsEnded(i)
           \/ LeadWaited
           \/ LeadReadsTranscript
<1>1. ASSUME NEW t \in Tasks, Thread(t) PROVE lead' = lead
  BY <1>1, ThreadMoves DEF Moves
<1>2. ASSUME \/ \E i \in Ids : LeadSteers(i)
             \/ \E t \in Tasks, i \in Ids : LeadStarts(t, i)
             \/ \E t \in Tasks : StopsTask(t) \/ ReadsResult(t)
             \/ LeadCollects
             \/ \E p, t \in Tasks, i \in Ids : SubagentStarts(p, t, i)
             \/ \E p \in Tasks, i \in Ids : PeerSends(p, i)
             \/ UNCHANGED vars
      PROVE  lead' = lead
  BY <1>2 DEF LeadSteers, LeadStarts, StopsTask, ReadsResult, LeadCollects, SubagentStarts,
              PeerSends, vars
<1>3. NoOperation.op = "idle"
  BY DEF NoOperation
<1>4. CASE LeadRefused \/ \E t \in Tasks : LeadResumes(t)
  BY <1>3, <1>4 DEF LeadRefused, LeadResumes
<1>5. CASE CloseMarks
  <2>1. lead' = [NoOperation EXCEPT !.op = "cancel", !.matching = Registered]
    BY <1>5 DEF CloseMarks
  <2>2. lead'.op = "cancel"
    BY <2>1 DEF NoOperation
  <2> QED
    BY <1>5, <2>2
<1>6. CASE CloseCancels
  <2>1. lead \in Operation /\ lead.op = "cancel" /\ lead' = [lead EXCEPT !.op = "drop"]
    BY <1>6 DEF CloseCancels, InboxInv, Typed, RestTyped
  <2> QED
    BY <2>1 DEF Operation
<1>7. CASE CloseDrops
  BY <1>3, <1>7 DEF CloseDrops
<1> QED
  BY <1>1, <1>2, <1>4, <1>5, <1>6, <1>7 DEF Next, LeadBegins, LeadGoesOn

\* Until a teardown is over, the object found under the key of a subagent that runs is
\* its task.
LEMMA RunningIsFound ==
    ASSUME DelegateAssumption, RegistryInv, run = 1, NEW t \in Tasks, Working(t)
    PROVE  Found(task[t].id) = t /\ IsRunning(t)
<1>1. t \in Registered /\ ~task[t].done /\ t # NoTask
  BY DEF RunningIsRegistered, Working, RegistryInv, Keys, DoneIsPlace, NoTask, DelegateAssumption
<1>2. Found(task[t].id) \in Registered /\ task[Found(task[t].id)].id = task[t].id
  BY <1>1, Lookup
<1> QED
  BY <1>1, <1>2 DEF RegistryInv, Keys, KeysUnique, IsRunning

\* The tasks that count against the limit are those that run.
LEMMA RunningCount ==
    ASSUME RegistryInv, run = 1
    PROVE  {t \in Registered : ~task[t].done} = {t \in Tasks : Working(t)}
BY DEF RegistryInv, Keys, KeysUnique, DoneIsPlace, RunningIsRegistered, Working, Places,
       InboxInv, Typed, RegistryTyped

\* A start registers its task, leaves the ones that run, and keeps the limit.
LEMMA StartReaches ==
    ASSUME DelegateAssumption, RegistryInv, run = 1,
           NEW t \in Tasks, NEW i \in Ids, NEW parent, NEW resumes, NEW context, NEW followup,
           Start(t, i, parent, resumes, context, followup), UNCHANGED <<transcript, run>>
    PROVE  RunningIsRegistered' /\ WithinLimit'
<1>0. InboxInv /\ RegistryTyped /\ RunningIsRegistered /\ run' = 1
  BY DEF RegistryInv, Keys, InboxInv, Typed
<1>1. Made(t, i, resumes, context)
  BY <1>0, MadeByStart
<1>2. /\ \A u \in Tasks \ {t} : task'[u] = task[u]
      /\ task'[t].pc = "created"
      /\ task[t].pc = "unused"
  BY <1>1 DEF Made, Others, Rank
<1>3. ASSUME NEW u \in Tasks, Working(u) PROVE u \in Registered'
  <2>1. Found(task[u].id) = u /\ IsRunning(u)
    BY <1>3, RunningIsFound
  <2>2. task[u].id # i
    BY <1>1, <2>1 DEF Made, MayStart
  <2>3. u \in Registered /\ ~task[u].done
    BY <1>0, <1>3, <2>1 DEF RunningIsRegistered, IsRunning
  <2> QED
    BY <1>0, <2>2, <2>3, StartEnters
<1>4. t \in Registered'
  BY <1>0, StartEnters
<1>5. RunningIsRegistered'
  BY <1>2, <1>3, <1>4 DEF RunningIsRegistered, Working
<1> DEFINE running == {u \in Tasks : Working(u)}
<1>6. {u \in Tasks : Working(u)'} = running \cup {t}
  BY <1>2 DEF Working
<1>7. Cardinality(running) < Limit
  BY <1>1, RunningCount DEF Made, MayStart
<1>8. IsFiniteSet(running) /\ t \notin running
  BY <1>2, FS_Subset DEF Working, DelegateAssumption
<1>9. Cardinality(running) \in Nat /\ Limit \in Nat
  BY <1>8, FS_CardinalityType DEF DelegateAssumption
<1>10. Cardinality(running \cup {t}) = Cardinality(running) + 1
  <2> HIDE DEF running
  <2> QED
    BY <1>8, FS_AddElement
<1>11. WithinLimit'
  <2>1. Cardinality(running \cup {t}) <= Limit
    BY <1>7, <1>9, <1>10
  <2>2. {u \in Tasks : Working(u)}' = running \cup {t}
    BY <1>6
  <2> QED
    BY <2>1, <2>2 DEF WithinLimit
<1> QED
  BY <1>5, <1>11

\* Fewer tasks run: the limit still holds.
LEMMA FewerRun ==
    ASSUME DelegateAssumption, WithinLimit, run = 1,
           \A u \in Tasks : Working(u)' => Working(u)
    PROVE  WithinLimit'
<1> DEFINE before == {u \in Tasks : Working(u)}
           after == {u \in Tasks : Working(u)'}
<1>1. after \subseteq before
  OBVIOUS
<1>2. IsFiniteSet(before)
  BY FS_Subset DEF DelegateAssumption
<1>3. /\ Cardinality(after) <= Cardinality(before)
      /\ Cardinality(before) \in Nat /\ Cardinality(after) \in Nat
  <2> HIDE DEF before, after
  <2> QED
    BY <1>1, <1>2, FS_Subset, FS_CardinalityType
<1>4. Cardinality(before) <= Limit /\ Limit \in Nat
  BY DEF WithinLimit, DelegateAssumption
<1>5. Cardinality(after) <= Limit
  BY <1>3, <1>4
<1> QED
  BY <1>5 DEF WithinLimit

\* A subagent that runs is found, and the limit holds, after every step of a run.
LEMMA ReachNext ==
    ASSUME DelegateAssumption, RegistryInv, [Next]_vars, run' = 1
    PROVE  RunningIsRegistered' /\ WithinLimit'
<1>0. /\ InboxInv /\ RegistryTyped /\ Registered \subseteq Tasks
      /\ RunningIsRegistered /\ WithinLimit
      /\ run \in Nat
  BY DEF RegistryInv, Keys, InboxInv, Typed, RegistryTyped, RestTyped
<1>1. CASE Quiet
  <2>1. run = 1 /\ Registered' = Registered /\ \A u \in Tasks : Working(u)' <=> Working(u)
    BY <1>1 DEF Quiet, Rank, Working, Registered
  <2> QED
    BY <1>0, <2>1, FewerRun DEF RunningIsRegistered
<1>2. CASE CloseDrops
  <2>1. run = 0 /\ run \in 1 .. MaxRuns
    BY <1>0, <1>2 DEF CloseDrops, InboxInv, Typed, RestTyped
  <2> QED
    BY <2>1
<1>3. ASSUME NEW t \in Tasks, NEW i \in Ids, StartsFresh(t, i)
      PROVE  RunningIsRegistered' /\ WithinLimit'
  BY <1>0, <1>3, StartReaches DEF StartsFresh
<1>4. ASSUME NEW t \in Tasks, LeadResumes(t) PROVE RunningIsRegistered' /\ WithinLimit'
  <2>1. lead.id \in Ids
    BY <1>0, <1>4 DEF LeadResumes, InboxInv, Typed, LeadNames
  <2> QED
    BY <1>0, <1>4, <2>1, StartReaches DEF LeadResumes
<1>5. ASSUME NEW t \in Tasks, Thread(t) PROVE RunningIsRegistered' /\ WithinLimit'
  <2>1. Moves(t) /\ (Begins(t) \/ Reopens(t) \/ Works(t) \/ Leaves(t) \/ Concludes(t))
    BY <1>0, <1>5, ThreadMoves
  <2>2. run = 1 /\ \A u \in Tasks \ {t} : task'[u] = task[u]
    BY <2>1 DEF Moves, Others
  <2>3. Working(t)' => Working(t)
    BY <2>1 DEF Begins, Reopens, Works, Leaves, Concludes, Working, Owning, Looping, Moves
  <2>4. \A u \in Tasks : Working(u)' => Working(u)
    BY <2>2, <2>3 DEF Working
  <2>5. ASSUME NEW u \in Tasks, Working(u)' PROVE u \in Registered'
    <3>1. u \in Registered /\ Working(u)
      BY <1>0, <2>2, <2>4, <2>5 DEF RunningIsRegistered
    <3>2. CASE registry' = registry
      BY <3>1, <3>2 DEF Registered
    <3>3. CASE registry' = WithoutKeys({task[t].id}) /\ task[t].discard /\ task[t].pc = "done" /\ task'[t].pc = "gone"
      <4>1. u # t
        BY <2>5, <3>3 DEF Working
      <4>2. task[u].id # task[t].id
        BY <2>2, <3>1, <3>3, <4>1 DEF RegistryInv, Keys, Marks
      <4> QED
        BY <1>0, <3>1, <3>3, <4>2, PopKeys DEF Registered
    <3> QED
      BY <2>1, <3>2, <3>3 DEF Begins, Reopens, Works, Leaves, Concludes
  <2> QED
    BY <1>0, <2>2, <2>4, <2>5, FewerRun DEF RunningIsRegistered
<1> QED
  BY <1>0, <1>1, <1>2, <1>3, <1>4, <1>5, Kinds

\* The marks of a teardown.
LEMMA MarksNext ==
    ASSUME DelegateAssumption, RegistryInv, [Next]_vars, run = 1, run' = 1
    PROVE  Marks'
<1>0. /\ InboxInv /\ Registered \subseteq Tasks
      /\ RunningIsRegistered /\ Marks
      /\ run \in Nat
  BY DEF RegistryInv, Keys, InboxInv, Typed, RegistryTyped, RestTyped
<1>1. ~CloseDrops
  BY <1>0 DEF CloseDrops
<1>2. CASE CloseMarks
  <2>1. lead'.op = "cancel"
    <3>1. lead' = [NoOperation EXCEPT !.op = "cancel", !.matching = Registered]
      BY <1>2 DEF CloseMarks
    <3> QED
      BY <3>1 DEF NoOperation
  <2>2. /\ \A u \in Tasks : task'[u].id = task[u].id /\ task'[u].pc = task[u].pc
        /\ \A u \in Tasks : task'[u].discard => u \in Registered
    <3>1. task \in [Tasks -> TaskRecord]
      BY <1>0 DEF InboxInv, Typed, TaskTyped
    <3>2. \A u \in Tasks : ~task[u].discard
      BY <1>0, <1>2 DEF CloseMarks, Marks
    <3> QED
      BY <1>2, <3>1, <3>2 DEF CloseMarks, TaskRecord
  <2> QED
    BY <1>0, <2>1, <2>2 DEF Marks, Working, RunningIsRegistered, RegistryInv, Keys, KeysUnique
<1>3. lead.op \in {"cancel", "drop"} => lead'.op \in {"cancel", "drop"} \/ CloseMarks
  <2>1. ASSUME NEW i \in Ids, LeadMeetsEnding(i) \/ LeadMeetsEnded(i) PROVE lead.op = "idle"
    BY <2>1 DEF LeadMeetsEnding, LeadMeetsEnded
  <2>2. LeadWaited => lead.op = "wait"
    BY DEF LeadWaited
  <2>3. LeadReadsTranscript => lead.op = "resume"
    BY DEF LeadReadsTranscript
  <2> QED
    BY <1>0, <1>1, <2>1, <2>2, <2>3, LeadSteps
<1>4. CASE Quiet /\ ~CloseMarks
  BY <1>0, <1>3, <1>4 DEF Quiet, Rank, Marks, Working
<1>5. ASSUME NEW t \in Tasks, NEW i \in Ids, NEW resumes, NEW context, Made(t, i, resumes, context), ~CloseMarks,
             \/ \A u \in Tasks : ~task[u].discard
             \/ \A u \in Tasks : task[u].id # i
      PROVE  Marks'
  <2>1. /\ \A u \in Tasks \ {t} : task'[u] = task[u]
        /\ task'[t].id = i
        /\ ~task'[t].discard
    BY <1>5 DEF Made, Others, Rank
  <2> QED
    BY <1>0, <1>3, <1>5, <2>1 DEF Marks, Working
<1>6. ASSUME NEW t \in Tasks, NEW i \in Ids, StartsFresh(t, i), ~CloseMarks PROVE Marks'
  <2>1. CASE lead.op = "idle"
    BY <1>0, <1>5, <1>6, <2>1, MadeByStart DEF StartsFresh, Marks
  <2>2. CASE i \notin Teammates
    <3>1. i \notin {task[u].id : u \in Tasks}
      BY <1>6, <2>2 DEF StartsFresh, Unused
    <3> QED
      BY <1>0, <1>5, <1>6, <3>1, MadeByStart DEF StartsFresh
  <2> QED
    BY <1>6, <2>1, <2>2 DEF StartsFresh
<1>7. ASSUME NEW t \in Tasks, LeadResumes(t), ~CloseMarks PROVE Marks'
  <2>1. lead.id \in Ids /\ \A u \in Tasks : ~task[u].discard
    BY <1>0, <1>7 DEF LeadResumes, InboxInv, Typed, LeadNames, Marks
  <2> QED
    BY <1>0, <1>5, <1>7, <2>1, MadeByStart DEF LeadResumes
<1>8. ASSUME NEW t \in Tasks, Thread(t), ~CloseMarks PROVE Marks'
  <2>1. Moves(t) /\ (Begins(t) \/ Reopens(t) \/ Works(t) \/ Leaves(t) \/ Concludes(t))
    BY <1>0, <1>8, ThreadMoves
  <2>2. /\ \A u \in Tasks \ {t} : task'[u] = task[u]
        /\ task'[t].id = task[t].id /\ task'[t].discard = task[t].discard
    BY <2>1 DEF Moves, Others
  <2>3. Working(t)' => Working(t)
    BY <2>1 DEF Begins, Reopens, Works, Leaves, Concludes, Working, Owning, Looping, Moves
  <2> QED
    BY <1>0, <1>3, <1>8, <2>2, <2>3 DEF Marks, Working
<1> QED
  BY <1>0, <1>1, <1>2, <1>4, <1>6, <1>7, <1>8, Kinds

\* The objects under the keys, when the registry loses some.
LEMMA FewerKeys ==
    ASSUME KeysUnique, Registered' \subseteq Registered, Registered \subseteq Tasks,
           \A u \in Tasks : task'[u].id = task[u].id /\ (task[u].pc # "unused" => task'[u].pc # "unused")
    PROVE  KeysUnique'
BY DEF KeysUnique

\* Keys and done events.
LEMMA KeysNext ==
    ASSUME DelegateAssumption, RegistryInv, [Next]_vars
    PROVE  KeysUnique' /\ DoneIsPlace'
<1>0. /\ InboxInv /\ KeysUnique /\ DoneIsPlace /\ RegistryTyped /\ Registered \subseteq Tasks
      /\ lead.matching \subseteq Tasks
  BY DEF RegistryInv, Keys, InboxInv, Typed, RegistryTyped, RestTyped, Operation
<1>1. CASE Quiet
  <2>1. /\ Registered' = Registered
        /\ \A u \in Tasks : /\ task'[u].id = task[u].id /\ task'[u].pc = task[u].pc
                            /\ task'[u].done = task[u].done
    BY <1>1 DEF Quiet, Rank, Registered
  <2> QED
    BY <1>0, <2>1, FewerKeys DEF DoneIsPlace
<1>2. CASE CloseDrops
  <2>1. task' = task /\ Registered' \subseteq Registered
    BY <1>0, <1>2, PopKeys DEF CloseDrops, Registered
  <2> QED
    BY <1>0, <2>1, FewerKeys DEF DoneIsPlace
<1>3. ASSUME NEW t \in Tasks, NEW i, NEW parent, NEW resumes, NEW context, NEW followup,
             Start(t, i, parent, resumes, context, followup), UNCHANGED <<transcript, run>>
      PROVE  KeysUnique' /\ DoneIsPlace'
  <2>1. /\ Registered' \subseteq Registered \cup {t}
        /\ \A u \in Registered' \ {t} : task[u].id # i
    BY <1>0, <1>3, StartEnters
  <2>2. /\ \A u \in Tasks \ {t} : task'[u] = task[u]
        /\ task'[t].id = i /\ task'[t].pc = "created" /\ ~task'[t].done
    BY <1>0, <1>3, MadeByStart DEF Made, Others, Rank
  <2> QED
    BY <1>0, <2>1, <2>2 DEF KeysUnique, DoneIsPlace
<1>4. ASSUME NEW t \in Tasks, Thread(t) PROVE KeysUnique' /\ DoneIsPlace'
  <2>1. Moves(t) /\ (Begins(t) \/ Reopens(t) \/ Works(t) \/ Leaves(t) \/ Concludes(t))
    BY <1>0, <1>4, ThreadMoves
  <2>2. /\ \A u \in Tasks \ {t} : task'[u] = task[u]
        /\ task'[t].id = task[t].id
    BY <2>1 DEF Moves, Others
  <2>3. /\ task'[t].pc # "unused"
        /\ task'[t].done <=> task'[t].pc \in {"done", "gone"}
    <3>1. CASE Begins(t)
      BY <1>0, <3>1 DEF Begins, Rank, DoneIsPlace
    <3>2. CASE Reopens(t) \/ Works(t) \/ Leaves(t) \/ Concludes(t)
      BY <1>0, <3>2 DEF Reopens, Works, Leaves, Concludes, Owning, Looping, DoneIsPlace
    <3> QED
      BY <2>1, <3>1, <3>2
  <2>4. Registered' \subseteq Registered
    <3>1. registry' = registry \/ registry' = WithoutKeys({task[t].id})
      BY <2>1 DEF Begins, Reopens, Works, Leaves, Concludes
    <3> QED
      BY <1>0, <3>1, PopKeys DEF Registered
  <2> QED
    BY <1>0, <2>2, <2>3, <2>4, FewerKeys DEF DoneIsPlace
<1> QED
  BY <1>0, <1>1, <1>2, <1>3, <1>4, Kinds DEF StartsFresh, LeadResumes

\* The invariant of the registry, from the start.
THEOREM RegistryInvariant ==
    ASSUME DelegateAssumption
    PROVE  Spec => []RegistryInv
<1>1. Init => Keys
  <2>1. Init => {t \in Tasks : Working(t)} = {}
    BY DEF Init, Working, Blank
  <2>2. Init => WithinLimit
    BY <2>1, FS_EmptySet DEF WithinLimit, DelegateAssumption
  <2>3. Init => KeysUnique /\ DoneIsPlace /\ RunningIsRegistered /\ Marks
    BY DEF Init, KeysUnique, DoneIsPlace, RunningIsRegistered, Marks, Registered, Working, Blank, NoOperation
  <2> QED
    BY <2>2, <2>3 DEF Keys
<1>2. InboxInv /\ Keys /\ [Next]_vars => Keys'
  <2> SUFFICES ASSUME RegistryInv, [Next]_vars PROVE Keys'
    BY DEF RegistryInv
  <2>0. InboxInv /\ run \in 1 .. MaxRuns
    BY DEF RegistryInv, InboxInv, Typed, RestTyped
  <2>1. KeysUnique' /\ DoneIsPlace'
    BY KeysNext
  <2>2. CASE run' # 1
    BY <2>1, <2>2 DEF Keys, RunningIsRegistered, WithinLimit
  <2>3. CASE run' = 1
    <3>1. run = 1
      <4>1. ASSUME NEW t \in Tasks, Thread(t) PROVE run' = run
        BY <2>0, <4>1, ThreadMoves DEF Moves
      <4>2. CloseDrops => run' # 1
        BY <2>0 DEF CloseDrops
      <4> QED
        BY <2>0, <2>3, <4>1, <4>2, Kinds DEF Quiet, StartsFresh, LeadResumes
    <3> QED
      BY <2>1, <2>3, <3>1, ReachNext, MarksNext DEF Keys
  <2> QED
    BY <2>2, <2>3
<1> QED
  BY <1>1, <1>2, InboxInvariant, PTL DEF Spec, RegistryInv

\* Until a teardown is over, a subagent that runs is registered, whatever is started,
\* resumed, finished and pruned: TaskOutput, TaskStop and messages reach it.
THEOREM RunningSubagentsAreRegistered ==
    ASSUME DelegateAssumption
    PROVE  Spec => []RunningIsRegistered
<1>1. RegistryInv => RunningIsRegistered
  BY DEF RegistryInv, Keys
<1> QED
  BY <1>1, RegistryInvariant, PTL

\* Until a teardown is over, no more than Limit background subagents run.
THEOREM LimitHolds ==
    ASSUME DelegateAssumption
    PROVE  Spec => []WithinLimit
<1>1. RegistryInv => WithinLimit
  BY DEF RegistryInv, Keys
<1> QED
  BY <1>1, RegistryInvariant, PTL

-----------------------------------------------------------------------------
(* One owner. *)

\* A transcript that exists goes on existing.
LEMMA TranscriptStays ==
    ASSUME DelegateAssumption, InboxInv, [Next]_vars
    PROVE  \A i \in Ids : transcript[i].status # "absent" => transcript'[i].status # "absent"
<1>1. CASE UNCHANGED transcript
  BY <1>1
<1>2. ASSUME NEW t \in Tasks, Thread(t)
      PROVE  \A i \in Ids : transcript[i].status # "absent" => transcript'[i].status # "absent"
  <2>1. Moves(t) /\ (Begins(t) \/ Reopens(t) \/ Works(t) \/ Leaves(t) \/ Concludes(t))
    BY <1>2, ThreadMoves
  <2> QED
    BY <2>1 DEF Begins, Reopens, Works, Leaves, Concludes, Writes, Results
<1> QED
  BY <1>1, <1>2, Kinds DEF Quiet, CloseDrops, StartsFresh, LeadResumes

\* Steps that leave threads and transcripts where they are disturb no owner.
LEMMA OwnersStay ==
    ASSUME OwnerInv, \A u \in Tasks : Rank(task'[u]) = Rank(task[u]), UNCHANGED transcript,
           run' = 1 => run = 1
    PROVE  (\A t \in Tasks : Unwritten(t))' /\ Absent' /\ OneOwner' /\ Conversation'
<1>1. (\A t \in Tasks : Unwritten(t)) /\ Absent /\ OneOwner /\ Conversation
  BY DEF OwnerInv, Owners
<1>2. \A u \in Tasks :
        /\ task'[u].id = task[u].id /\ task'[u].pc = task[u].pc
        /\ task'[u].resumes = task[u].resumes /\ task'[u].accepting = task[u].accepting
        /\ task'[u].context = task[u].context /\ task'[u].forgotten = task[u].forgotten
  BY DEF Rank
<1>3. ASSUME NEW t \in Tasks PROVE Unwritten(t)'
  <2>1. Unwritten(t)
    BY <1>1
  <2> QED
    BY <1>2, <2>1 DEF Unwritten, Fresh, Working, NamedOnce
<1>4. OneOwner'
  BY <1>1, <1>2 DEF OneOwner, NamedOnce
<1>5. Conversation'
  BY <1>1, <1>2 DEF Conversation, NamedOnce
<1> QED
  BY <1>1, <1>3, <1>4, <1>5 DEF Absent

\* A subagent is made under a key no unfinished task has.
LEMMA MadeOwners ==
    ASSUME DelegateAssumption, OwnerInv, NEW t \in Tasks, NEW i \in Ids, NEW parent, NEW resumes,
           NEW context, NEW followup,
           Start(t, i, parent, resumes, context, followup), UNCHANGED <<transcript, run>>,
           \/ resumes = 0 /\ Unused(i)
           \/ resumes # 0 /\ transcript[i].status # "absent"
    PROVE  (\A u \in Tasks : Unwritten(u))' /\ Absent' /\ OneOwner' /\ Conversation'
<1>0. /\ RegistryInv /\ InboxInv
      /\ (\A u \in Tasks : Unwritten(u)) /\ Absent /\ OneOwner /\ Conversation
      /\ transcript' = transcript
  BY DEF OwnerInv, Owners, RegistryInv
<1>1. Made(t, i, resumes, context)
  BY <1>0, MadeByStart
<1>2. /\ \A u \in Tasks \ {t} : task'[u] = task[u]
      /\ task[t].pc = "unused"
      /\ task'[t].id = i /\ task'[t].pc = "created" /\ task'[t].resumes = resumes
      /\ task'[t].accepting
      /\ \A u \in Tasks : NamedOnce(u)' <=> run = 1 \/ task'[u].id \notin Teammates
  BY <1>1 DEF Made, Others, Rank, NamedOnce
<1>3. resumes = 0 <=> transcript[i].status = "absent"
  BY DEF Unused
<1>4. ASSUME NEW u \in Tasks \ {t}, Working(u), resumes = 0, run = 1 \/ i \notin Teammates
      PROVE  task[u].id # i
  <2>1. CASE i \notin Teammates
    BY <1>4, <2>1 DEF Unused
  <2>2. CASE run = 1
    <3>1. Found(task[u].id) = u /\ IsRunning(u)
      BY <1>0, <1>4, <2>2, RunningIsFound
    <3> QED
      BY <1>1, <3>1 DEF Made, MayStart
  <2> QED
    BY <1>4, <2>1, <2>2
<1>5. Unwritten(t)'
  BY <1>0, <1>2, <1>3, <1>4 DEF Unwritten, Fresh, Working
<1>6. ASSUME NEW u \in Tasks \ {t} PROVE Unwritten(u)'
  <2>1. Unwritten(u) /\ task'[u] = task[u]
    BY <1>0, <1>2, <1>6
  <2>2. Fresh(u) => Working(u)
    BY DEF Fresh, Working
  <2>3. Fresh(u) /\ NamedOnce(u) /\ task[u].id = i => FALSE
    BY <1>3, <1>4, <2>1, <2>2 DEF Unwritten, NamedOnce
  <2>4. ASSUME Fresh(u)', NamedOnce(u)'
        PROVE  /\ transcript'[task'[u].id].status = "absent"
               /\ \A v \in Tasks \ {u} : Working(v)' => task'[v].id # task'[u].id
    <3>1. Fresh(u) /\ NamedOnce(u)
      BY <1>2, <2>1, <2>4 DEF Fresh, NamedOnce
    <3> QED
      BY <1>0, <1>2, <2>1, <2>3, <3>1 DEF Unwritten, Working
  <2>5. task'[u].pc # "unused" /\ transcript'[task'[u].id].status = "absent"
        => task'[u].accepting /\ (Fresh(u)' \/ task'[u].pc \in {"returned", "done", "gone"})
    BY <1>0, <2>1 DEF Unwritten, Fresh
  <2> QED
    BY <2>4, <2>5 DEF Unwritten
<1>7. OneOwner' /\ Conversation'
  BY <1>0, <1>2 DEF OneOwner, Conversation, NamedOnce, Owning, Looping
<1> QED
  BY <1>0, <1>5, <1>6, <1>7 DEF Absent

\* No other thread owns the subagent of t.
Alone(t) == \A u \in Tasks \ {t} : task[u].pc \in Owning => task[u].id # task[t].id

\* A thread that owns its subagent is the only one to write its transcript.
LEMMA OwnersMove ==
    ASSUME OwnerInv, NEW t \in Tasks, Moves(t),
           \A j \in Ids \ {task[t].id} : transcript'[j] = transcript[j],
           NamedOnce(t) =>
             /\ UNCHANGED transcript \/ Alone(t)
             /\ task'[t].pc \in Owning
                => /\ Alone(t)
                   /\ transcript'[task[t].id].status = "running"
                   /\ task'[t].context \subseteq transcript'[task[t].id].history
                   /\ transcript'[task[t].id].history \subseteq task'[t].context \cup task'[t].forgotten
    PROVE  OneOwner' /\ Conversation'
<1>0. /\ OneOwner
      /\ Conversation
      /\ \A u \in Tasks : task[u].pc \in Owning => task[u].id \in Ids
  BY DEF OwnerInv, Owners, RegistryInv, InboxInv, AllInboxes, Inbox, Started, Owning, Looping
<1>1. /\ \A u \in Tasks \ {t} : task'[u] = task[u]
      /\ task'[t].id = task[t].id
      /\ \A u \in Tasks : NamedOnce(u)' <=> NamedOnce(u)
  BY DEF Moves, Others, NamedOnce
<1>2. ASSUME NEW u \in Tasks, task'[u].pc \in Owning, NamedOnce(u)'
      PROVE  /\ transcript'[task'[u].id].status = "running"
             /\ \A v \in Tasks \ {u} : task'[v].pc \in Owning => task'[v].id # task'[u].id
             /\ task'[u].context \subseteq transcript'[task'[u].id].history
             /\ transcript'[task'[u].id].history \subseteq task'[u].context \cup task'[u].forgotten
  <2>1. CASE u = t
    BY <1>1, <1>2, <2>1 DEF Alone
  <2>2. CASE u # t
    <3>1. task'[u] = task[u] /\ NamedOnce(u)
      BY <1>1, <1>2, <2>2
    <3>2. task[u].id = task[t].id => NamedOnce(t)
      BY <3>1 DEF NamedOnce
    <3>3. transcript'[task[u].id] = transcript[task[u].id]
      BY <1>0, <1>2, <2>2, <3>1, <3>2 DEF Alone
    <3>4. task'[t].pc \in Owning => task[t].id # task[u].id
      BY <1>2, <2>2, <3>1, <3>2 DEF Alone
    <3>5. /\ transcript[task[u].id].status = "running"
          /\ \A v \in Tasks \ {u} : task[v].pc \in Owning => task[v].id # task[u].id
      BY <1>0, <1>2, <3>1 DEF OneOwner
    <3>6. /\ task[u].context \subseteq transcript[task[u].id].history
          /\ transcript[task[u].id].history \subseteq task[u].context \cup task[u].forgotten
      BY <1>0, <1>2, <3>1 DEF Conversation
    <3> QED
      BY <1>1, <3>1, <3>3, <3>4, <3>5, <3>6
  <2> QED
    BY <2>1, <2>2
<1> QED
  BY <1>2 DEF OneOwner, Conversation

\* No subagent is about to create the transcript of t.
Awaited(t) == \E u \in Tasks \ {t} : Fresh(u) /\ NamedOnce(u) /\ task[u].id = task[t].id

\* Transcripts come to be, when a thread moves.
LEMMA UnwrittenMove ==
    ASSUME OwnerInv, NEW t \in Tasks, Moves(t),
           task'[t].pc \notin {"unused", "created"}, Working(t)' => Working(t),
           \A j \in Ids \ {task[t].id} : transcript'[j] = transcript[j],
           \/ /\ UNCHANGED transcript
              /\ transcript[task[t].id].status = "absent"
                 => task'[t].accepting /\ task'[t].pc \in {"returned", "done", "gone"}
           \/ /\ transcript'[task[t].id].status # "absent"
              /\ transcript'[task[t].id].runs # 0
              /\ ~Awaited(t)
    PROVE  (\A u \in Tasks : Unwritten(u))' /\ Absent'
<1>0. /\ (\A u \in Tasks : Unwritten(u)) /\ Absent
      /\ \A u \in Tasks : task[u].pc # "unused" => task[u].id \in Ids
  BY DEF OwnerInv, Owners, RegistryInv, InboxInv, AllInboxes, Inbox, Started
<1>1. /\ \A u \in Tasks \ {t} : task'[u] = task[u]
      /\ task[t].pc # "unused" /\ task[t].id \in Ids
      /\ task'[t].id = task[t].id
      /\ \A u \in Tasks : NamedOnce(u)' <=> NamedOnce(u)
      /\ \A u \in Tasks : Working(u)' => Working(u)
  BY DEF Moves, Others, NamedOnce, Working
<1>2. Absent'
  BY <1>0, <1>1 DEF Absent
<1>3. ~Fresh(t)'
  BY DEF Fresh
<1>4. Unwritten(t)'
  BY <1>1, <1>3 DEF Unwritten
<1>5. ASSUME NEW u \in Tasks \ {t} PROVE Unwritten(u)'
  <2>1. task'[u] = task[u] /\ Unwritten(u) /\ (Fresh(u)' <=> Fresh(u)) /\ (NamedOnce(u)' <=> NamedOnce(u))
    BY <1>0, <1>1 DEF Fresh
  <2>2. task[u].pc # "unused" => task[u].id \in Ids
    BY <1>0
  <2>3. Fresh(u) /\ NamedOnce(u) => transcript'[task[u].id].status = "absent"
    <3>1. Fresh(u) => task[u].pc # "unused"
      BY DEF Fresh
    <3> QED
      BY <1>1, <2>1, <2>2, <3>1 DEF Unwritten, Awaited
  <2>4. Fresh(u) /\ NamedOnce(u) => \A v \in Tasks \ {u} : Working(v)' => task'[v].id # task'[u].id
    BY <1>1, <2>1 DEF Unwritten
  <2>5. task[u].pc # "unused" /\ transcript'[task[u].id].status = "absent"
        => transcript[task[u].id].status = "absent"
    BY <1>1, <2>2
  <2> QED
    BY <2>1, <2>3, <2>4, <2>5 DEF Unwritten
<1> QED
  BY <1>2, <1>4, <1>5

\* The threads keep to their own subagents.
LEMMA ThreadOwners ==
    ASSUME DelegateAssumption, OwnerInv, NEW t \in Tasks, Thread(t)
    PROVE  (\A u \in Tasks : Unwritten(u))' /\ Absent' /\ OneOwner' /\ Conversation'
<1>0. /\ InboxInv /\ RegistryInv
      /\ (\A u \in Tasks : Unwritten(u)) /\ Absent /\ OneOwner /\ Conversation
      /\ task[t].pc \in {"unused", "created"} => task[t].context = {}
      /\ \A j \in Ids : transcript[j].runs \in Nat
  BY DEF OwnerInv, Owners, RegistryInv, InboxInv, AllInboxes, Inbox, Started, Typed, RestTyped
<1>1. Moves(t) /\ (Begins(t) \/ Reopens(t) \/ Works(t) \/ Leaves(t) \/ Concludes(t))
  BY <1>0, ThreadMoves
<1>2. /\ task[t].pc # "unused" /\ task[t].id \in Ids /\ task'[t].id = task[t].id
      /\ Unwritten(t)
      /\ \A j \in Ids \ {task[t].id} : transcript'[j] = transcript[j]
  BY <1>0, <1>1 DEF Moves, Begins, Reopens, Works, Leaves, Concludes, Writes
\* Whoever waits to create the transcript of a subagent is alone under its name.
<1>3. Working(t) => ~Awaited(t)
  <2>1. ASSUME Working(t), NEW u \in Tasks \ {t}, Fresh(u), NamedOnce(u), task[u].id = task[t].id
        PROVE  FALSE
    <3>1. Unwritten(u)
      BY <1>0
    <3> QED
      BY <2>1, <3>1 DEF Unwritten
  <2> QED
    BY <2>1 DEF Awaited
<1>4. CASE Begins(t)
  <2>1. /\ Fresh(t) /\ Working(t) /\ task'[t].pc = "turn" /\ task'[t].context = {}
        /\ transcript'[task[t].id].status = "running"
        /\ transcript'[task[t].id].runs = 1
        /\ transcript'[task[t].id].history = {}
    BY <1>0, <1>4 DEF Begins, Rank, Fresh, Working, Writes
  <2>2. NamedOnce(t) => Alone(t)
    BY <1>2, <2>1 DEF Unwritten, Alone, Working, Owning, Looping
  <2>3. OneOwner' /\ Conversation'
    BY <1>1, <1>2, <2>1, <2>2, OwnersMove
  <2>4. (\A u \in Tasks : Unwritten(u))' /\ Absent'
    BY <1>1, <1>2, <1>3, <2>1, UnwrittenMove
  <2> QED
    BY <2>3, <2>4
<1>5. CASE Reopens(t)
  <2>1. /\ Working(t) /\ task'[t].pc = "turn"
        /\ transcript[task[t].id].status \notin {"running", "absent"}
        /\ transcript'[task[t].id].status = "running"
        /\ transcript'[task[t].id].history = task'[t].context
    BY <1>0, <1>2, <1>5 DEF Reopens, Working, Claimable, Writes, Absent
  <2>2. NamedOnce(t) => Alone(t)
    <3>1. ASSUME NamedOnce(t), NEW u \in Tasks \ {t}, task[u].pc \in Owning, task[u].id = task[t].id
          PROVE  FALSE
      BY <1>0, <2>1, <3>1 DEF OneOwner, NamedOnce
    <3> QED
      BY <3>1 DEF Alone
  <2>3. transcript'[task[t].id].runs # 0
    <3>1. transcript[task[t].id].runs \in Nat
      BY <1>0, <1>2
    <3> QED
      BY <1>5, <3>1 DEF Reopens, Writes
  <2>4. OneOwner' /\ Conversation'
    BY <1>1, <1>2, <2>1, <2>2, OwnersMove
  <2>5. (\A u \in Tasks : Unwritten(u))' /\ Absent'
    BY <1>1, <1>2, <1>3, <2>1, <2>3, UnwrittenMove
  <2> QED
    BY <2>4, <2>5
<1>6. CASE Works(t)
  <2>1. /\ task[t].pc \in Owning /\ task'[t].pc \in Owning /\ Working(t)
        /\ transcript[task[t].id].status # "absent"
        /\ transcript[task[t].id].runs # 0
    <3>1. task[t].pc \in Owning /\ task'[t].pc \in Owning
      BY <1>6 DEF Works
    <3>2. Working(t) /\ task[t].pc \notin {"created", "returned", "done", "gone"}
      BY <3>1 DEF Working, Owning, Looping
    <3> QED
      BY <1>0, <1>2, <3>1, <3>2 DEF Unwritten, Fresh, Absent
  <2>2. ASSUME NamedOnce(t)
        PROVE  /\ Alone(t)
               /\ transcript[task[t].id].status = "running"
               /\ task[t].context \subseteq transcript[task[t].id].history
               /\ transcript[task[t].id].history \subseteq task[t].context \cup task[t].forgotten
    BY <1>0, <2>1, <2>2 DEF OneOwner, Conversation, Alone
  <2>3. NamedOnce(t) =>
          /\ transcript'[task[t].id].status = "running"
          /\ task'[t].context \subseteq transcript'[task[t].id].history
          /\ transcript'[task[t].id].history \subseteq task'[t].context \cup task'[t].forgotten
    BY <1>6, <2>2 DEF Works, Writes
  <2>4. OneOwner' /\ Conversation'
    BY <1>1, <1>2, <2>2, <2>3, OwnersMove
  <2>5. /\ transcript'[task[t].id].status # "absent"
        /\ transcript'[task[t].id].runs # 0
    BY <1>6, <2>1 DEF Works, Writes
  <2>6. task'[t].pc \notin {"unused", "created"}
    BY <2>1 DEF Owning, Looping
  <2>7. (\A u \in Tasks : Unwritten(u))' /\ Absent'
    BY <1>1, <1>2, <1>3, <2>1, <2>5, <2>6, UnwrittenMove
  <2> QED
    BY <2>4, <2>7
<1>7. CASE Leaves(t)
  <2>1. task'[t].pc = "returned" /\ task'[t].pc \notin Owning
    BY <1>7 DEF Leaves, Owning, Looping
  <2>2. CASE UNCHANGED transcript /\ task[t].pc = "created"
    <3>1. OneOwner' /\ Conversation'
      BY <1>1, <1>2, <2>1, <2>2, OwnersMove
    <3>2. /\ Working(t)
          /\ transcript[task[t].id].status = "absent" => task'[t].accepting
      BY <1>2, <1>7, <2>2 DEF Working, Leaves, Unwritten
    <3>3. (\A u \in Tasks : Unwritten(u))' /\ Absent'
      BY <1>1, <1>2, <2>1, <2>2, <3>2, UnwrittenMove
    <3> QED
      BY <3>1, <3>3
  <2>3. ASSUME task[t].pc = "ended", NEW result \in Results,
               Writes(t, result, transcript[task[t].id].runs, task[t].context)
        PROVE  (\A u \in Tasks : Unwritten(u))' /\ Absent' /\ OneOwner' /\ Conversation'
    <3>1. task[t].pc \in Owning /\ Working(t)
      BY <2>3 DEF Owning, Working
    <3>2. NamedOnce(t) => Alone(t)
      BY <1>0, <3>1 DEF OneOwner, Alone
    <3>3. /\ transcript'[task[t].id].status # "absent"
          /\ transcript'[task[t].id].runs # 0
      BY <1>0, <1>2, <2>3 DEF Unwritten, Fresh, Absent, Writes, Results
    <3>4. OneOwner' /\ Conversation'
      BY <1>1, <1>2, <2>1, <3>2, OwnersMove
    <3>5. (\A u \in Tasks : Unwritten(u))' /\ Absent'
      BY <1>1, <1>2, <1>3, <2>1, <3>1, <3>3, UnwrittenMove
    <3> QED
      BY <3>4, <3>5
  <2> QED
    BY <1>7, <2>2, <2>3 DEF Leaves
<1>8. CASE Concludes(t)
  <2>1. /\ UNCHANGED transcript
        /\ task[t].pc \in {"returned", "done"}
        /\ task'[t].pc \in {"done", "gone"} /\ task'[t].pc \notin Owning
        /\ task'[t].accepting = task[t].accepting
    BY <1>8 DEF Concludes, Owning, Looping
  <2>2. ~Working(t)' /\ (transcript[task[t].id].status = "absent" => task[t].accepting)
    BY <1>2, <2>1 DEF Working, Unwritten
  <2>3. OneOwner' /\ Conversation'
    BY <1>1, <1>2, <2>1, OwnersMove
  <2>4. (\A u \in Tasks : Unwritten(u))' /\ Absent'
    BY <1>1, <1>2, <2>1, <2>2, UnwrittenMove
  <2> QED
    BY <2>3, <2>4
<1> QED
  BY <1>1, <1>4, <1>5, <1>6, <1>7, <1>8

\* The lead reads the transcript of a subagent that has one.
LEMMA LeadNext ==
    ASSUME DelegateAssumption, OwnerInv, [Next]_vars
    PROVE  LeadKnows'
<1>0. /\ InboxInv /\ RegistryTyped
      /\ Registered \subseteq Tasks
      /\ LeadKnows /\ KeysUnique /\ DoneIsPlace
      /\ lead.op \in {"wait", "resume", "start"} => lead.id \in Ids
      /\ \A i \in Ids : transcript[i].status = "absent" <=> transcript[i].runs = 0
  BY DEF OwnerInv, Owners, RegistryInv, Keys, InboxInv, Typed, RegistryTyped, LeadNames, Absent
<1>1. \A i \in Ids : transcript[i].status # "absent" => transcript'[i].status # "absent"
  BY <1>0, TranscriptStays
<1>2. ASSUME NEW i \in Ids, LeadMeetsEnding(i) PROVE transcript[i].status # "absent"
  <2>1. PICK t \in Registered : t = Found(i) /\ ~task[t].accepting /\ task[t].id = i
    BY <1>0, <1>2, Lookup DEF LeadMeetsEnding, IsRunning
  <2>2. t \in Tasks /\ task[t].pc # "unused" /\ Unwritten(t)
    BY <1>0, <2>1 DEF OwnerInv, Owners, KeysUnique
  <2> QED
    BY <2>1, <2>2 DEF Unwritten
<1>4. CASE LeadWaited
  BY <1>0, <1>4 DEF LeadWaited, LeadKnows, InboxInv, Typed, RestTyped, Operation
<1>5. CASE LeadReadsTranscript
  BY <1>0, <1>5 DEF LeadReadsTranscript, LeadKnows, InboxInv, Typed, RestTyped, Operation
<1>6. ASSUME NEW i \in Ids, LeadMeetsEnding(i) \/ LeadMeetsEnded(i) PROVE LeadKnows'
  BY <1>2, <1>6 DEF LeadMeetsEnding, LeadMeetsEnded, NoOperation, LeadKnows
<1>7. CASE lead'.op \in {"idle", "cancel", "drop"}
  BY <1>7 DEF LeadKnows
<1>8. CASE lead' = lead
  BY <1>0, <1>1, <1>8 DEF LeadKnows
<1> QED
  BY <1>0, <1>4, <1>5, <1>6, <1>7, <1>8, LeadSteps

\* The invariant, from the start.
THEOREM OwnerInvariant ==
    ASSUME DelegateAssumption
    PROVE  Spec => []OwnerInv
<1>1. Init => Owners
  BY DEF Init, Owners, Unwritten, Fresh, Absent, OneOwner, Conversation, LeadKnows, Blank,
         NoOperation, Owning, Looping
<1>2. RegistryInv /\ Owners /\ [Next]_vars => Owners'
  <2> SUFFICES ASSUME OwnerInv, [Next]_vars PROVE Owners'
    BY DEF OwnerInv
  <2>0. /\ InboxInv /\ LeadKnows /\ run \in 1 .. MaxRuns /\ MaxRuns \in Nat
        /\ lead.op \in {"wait", "resume", "start"} => lead.id \in Ids
    BY DEF OwnerInv, Owners, RegistryInv, InboxInv, Typed, RestTyped, LeadNames, DelegateAssumption
  <2>1. LeadKnows'
    BY LeadNext
  <2> DEFINE Kept == (\A u \in Tasks : Unwritten(u))' /\ Absent' /\ OneOwner' /\ Conversation'
  <2>2. ASSUME NEW t \in Tasks, NEW i \in Ids, StartsFresh(t, i) PROVE Kept
    <3>1. PICK parent : Start(t, i, parent, 0, {}, {})
      BY <2>2 DEF StartsFresh
    <3>2. UNCHANGED <<transcript, run>> /\ Unused(i)
      BY <2>2 DEF StartsFresh
    <3> QED
      BY <3>1, <3>2, MadeOwners
  <2>3. ASSUME NEW t \in Tasks, LeadResumes(t) PROVE Kept
    <3>1. lead.id \in Ids /\ lead.runs # 0 /\ transcript[lead.id].status # "absent"
      BY <2>0, <2>3 DEF LeadResumes, LeadKnows
    <3> QED
      BY <2>3, <3>1, MadeOwners DEF LeadResumes
  <2>4. ASSUME Quiet PROVE Kept
    <3>1. /\ \A u \in Tasks : Rank(task'[u]) = Rank(task[u])
          /\ UNCHANGED transcript
          /\ run' = 1 => run = 1
      BY <2>4 DEF Quiet
    <3> QED
      BY <3>1, OwnersStay
  <2>5. ASSUME CloseDrops PROVE Kept
    <3>1. task' = task /\ UNCHANGED transcript /\ run' # 1
      BY <2>0, <2>5 DEF CloseDrops
    <3>2. \A u \in Tasks : Rank(task'[u]) = Rank(task[u])
      BY <3>1
    <3> QED
      BY <3>1, <3>2, OwnersStay
  <2>6. ASSUME NEW t \in Tasks, Thread(t) PROVE Kept
    BY <2>6, ThreadOwners
  <2> HIDE DEF Kept
  <2>7. Kept
    BY <2>0, <2>2, <2>3, <2>4, <2>5, <2>6, Kinds
  <2> QED
    BY <2>1, <2>7 DEF Owners, Kept
<1> QED
  BY <1>1, <1>2, RegistryInvariant, PTL DEF Spec, OwnerInv

\* Two threads never continue the same subagent, whatever is resumed, torn down and
\* resumed again, by any number of senders; for a teammate, until a teardown is over.
THEOREM EverySubagentHasOneOwner ==
    ASSUME DelegateAssumption
    PROVE  Spec => []OneOwner
<1>1. OwnerInv => OneOwner
  BY DEF OwnerInv, Owners
<1> QED
  BY <1>1, OwnerInvariant, PTL

-----------------------------------------------------------------------------
(* Histories. *)

\* A closed inbox stays the end.
LEMMA ClosedEndsNext ==
    ASSUME DelegateAssumption, OwnerInv, ClosedEnds, [Next]_vars
    PROVE  ClosedEnds'
<1>0. InboxInv
  BY DEF OwnerInv, RegistryInv
<1>1. CASE Quiet
  BY <1>1 DEF Quiet, Rank, ClosedEnds
<1>2. CASE CloseDrops
  BY <1>2 DEF CloseDrops, ClosedEnds
<1>3. ASSUME NEW t \in Tasks, NEW i, NEW resumes, NEW context, Made(t, i, resumes, context)
      PROVE  ClosedEnds'
  BY <1>3 DEF Made, Others, Rank, ClosedEnds
<1>4. ASSUME NEW t \in Tasks, Thread(t) PROVE ClosedEnds'
  <2>1. Moves(t) /\ (Begins(t) \/ Reopens(t) \/ Works(t) \/ Leaves(t) \/ Concludes(t))
    BY <1>0, <1>4, ThreadMoves
  <2>2. Begins(t) => task'[t].accepting = task[t].accepting
    BY DEF Begins, Rank
  <2>3. task[t].id \notin Teammates => /\ ~task'[t].accepting => task'[t].pc \notin Adding
                                       /\ task'[t].pc \notin {"idle", "idle2"}
    BY <2>1, <2>2 DEF Begins, Reopens, Works, Leaves, Concludes, ClosedEnds, Adding
  <2> QED
    BY <2>1, <2>3 DEF Moves, Others, ClosedEnds
<1> QED
  BY <1>0, <1>1, <1>2, <1>3, <1>4, Kinds, MadeByStart DEF StartsFresh, LeadResumes

\* What the lead read is still true when it starts the subagent again.
LEMMA SettledNext ==
    ASSUME DelegateAssumption, FirstRunInv, [Next]_vars, run = 1, run' = 1
    PROVE  Settled'
<1>0. /\ RegistryInv /\ InboxInv
      /\ Settled /\ ClosedEnds /\ LeadKnows /\ Conversation
      /\ run \in Nat
      /\ lead \in Operation
      /\ lead.op \in {"wait", "resume", "start"} => lead.id \in Ids
  BY DEF FirstRunInv, OwnerInv, Owners, RegistryInv, InboxInv, Typed, RestTyped, LeadNames
<1>1. ~CloseDrops
  BY <1>0 DEF CloseDrops
<1>2. ASSUME lead.op \in {"wait", "resume", "start"}, lead.id \notin Teammates, lead' = lead
      PROVE  /\ \A u \in Tasks : task'[u].id = lead.id => task'[u].pc \notin Adding
             /\ transcript'[lead.id].history \subseteq transcript[lead.id].history
  <2>0. \A u \in Tasks : task[u].id = lead.id => task[u].pc \notin Adding \cup {"idle", "idle2"}
    BY <1>0, <1>2 DEF Settled, ClosedEnds
  <2> DEFINE Goal == /\ \A u \in Tasks : task'[u].id = lead.id => task'[u].pc \notin Adding
                     /\ transcript'[lead.id].history \subseteq transcript[lead.id].history
  <2>1. CASE Quiet
    BY <2>0, <2>1 DEF Quiet, Rank
  <2>2. ASSUME NEW t \in Tasks, NEW i \in Ids, StartsFresh(t, i) PROVE Goal
    <3>1. /\ Others(t) /\ task'[t].id = i /\ transcript' = transcript
      BY <1>0, <2>2, MadeByStart DEF StartsFresh, Made, Rank
    <3>2. i # lead.id
      BY <1>0, <1>2, <2>2 DEF StartsFresh, Unused, LeadKnows
    <3> QED
      BY <2>0, <3>1, <3>2 DEF Others
  <2>3. ASSUME NEW t \in Tasks, LeadResumes(t) PROVE Goal
    <3>1. lead.op = "start" /\ lead'.op = "idle"
      BY <2>3 DEF LeadResumes, NoOperation
    <3> QED
      BY <1>2, <3>1
  <2>4. ASSUME NEW t \in Tasks, Thread(t) PROVE Goal
    <3>1. Moves(t) /\ (Begins(t) \/ Reopens(t) \/ Works(t) \/ Leaves(t) \/ Concludes(t))
      BY <1>0, <2>4, ThreadMoves
    <3>2. /\ \A u \in Tasks \ {t} : task'[u] = task[u]
          /\ task'[t].id = task[t].id
      BY <3>1 DEF Moves, Others
    <3>3. CASE task[t].id # lead.id
      <4>1. transcript'[lead.id] = transcript[lead.id]
        BY <1>0, <1>2, <3>1, <3>3 DEF Begins, Reopens, Works, Leaves, Concludes, Writes
      <4> QED
        BY <2>0, <3>2, <3>3, <4>1
    <3>4. CASE task[t].id = lead.id
      <4>1. task[t].pc \notin Adding \cup {"idle", "idle2"}
        BY <2>0, <3>4
      <4>2. Works(t) \/ Leaves(t) \/ Concludes(t)
        BY <3>1, <4>1 DEF Begins, Reopens, Adding
      <4>3. task'[t].pc \notin Adding
        BY <4>1, <4>2 DEF Works, Leaves, Concludes, Adding
      <4>4. CASE UNCHANGED transcript
        BY <2>0, <3>2, <4>3, <4>4
      <4>5. CASE ~UNCHANGED transcript
        <5>1. PICK result \in Results :
                /\ task[t].pc = "ended"
                /\ Writes(t, result, transcript[task[t].id].runs, task[t].context)
          BY <4>1, <4>2, <4>5 DEF Works, Leaves, Concludes, Owning, Looping, Adding
        <5>2. task[t].context \subseteq transcript[task[t].id].history
          BY <1>0, <5>1 DEF Conversation, NamedOnce, Owning
        <5> QED
          BY <2>0, <3>2, <3>4, <4>3, <5>1, <5>2 DEF Writes
      <4> QED
        BY <4>4, <4>5
    <3> QED
      BY <3>3, <3>4
  <2> QED
    BY <1>0, <1>1, <2>1, <2>2, <2>3, <2>4, Kinds
<1>3. CASE lead' = lead
  BY <1>0, <1>2, <1>3 DEF Settled
<1>4. CASE lead'.op \in {"idle", "cancel", "drop"}
  BY <1>4 DEF Settled
<1>5. ASSUME NEW i \in Ids, LeadMeetsEnding(i) \/ LeadMeetsEnded(i) PROVE Settled'
  <2>1. /\ lead'.id = i /\ lead'.op \in {"wait", "resume"}
        /\ task' = task
    BY <1>5 DEF LeadMeetsEnding, LeadMeetsEnded, NoOperation
  <2>2. ASSUME i \notin Teammates, NEW u \in Tasks, task[u].id = i, task[u].pc \in Adding
        PROVE  FALSE
    <3>1. Found(i) = u /\ IsRunning(u)
      BY <1>0, <2>2, RunningIsFound DEF Working, Adding
    <3>2. LeadMeetsEnding(i) /\ ~task[u].accepting
      BY <1>5, <3>1 DEF LeadMeetsEnding, LeadMeetsEnded
    <3> QED
      BY <1>0, <2>2, <3>2 DEF ClosedEnds
  <2> QED
    BY <2>1, <2>2 DEF Settled
<1>6. CASE LeadWaited
  <2>1. /\ lead.op = "wait" /\ lead'.op = "resume" /\ lead'.id = lead.id
        /\ task' = task
    BY <1>0, <1>6 DEF LeadWaited, Operation
  <2> QED
    BY <1>0, <2>1 DEF Settled
<1>7. CASE LeadReadsTranscript
  <2>1. /\ lead.op = "resume" /\ lead'.op = "start" /\ lead'.id = lead.id
        /\ lead'.context = transcript[lead.id].history
        /\ task' = task /\ transcript' = transcript
    BY <1>0, <1>7 DEF LeadReadsTranscript, Operation
  <2> QED
    BY <1>0, <2>1 DEF Settled
<1> QED
  BY <1>0, <1>1, <1>3, <1>4, <1>5, <1>6, <1>7, LeadSteps

\* A subagent that waits to go on has what its transcript holds.
LEMMA CurrentNext ==
    ASSUME DelegateAssumption, FirstRunInv, [Next]_vars, run = 1, run' = 1
    PROVE  Current'
<1>0. /\ RegistryInv /\ InboxInv
      /\ Settled /\ Current
      /\ run \in Nat
      /\ \A u \in Tasks : task[u].pc # "unused" => task[u].id \in Ids
  BY DEF FirstRunInv, OwnerInv, RegistryInv, InboxInv, Typed, RestTyped, AllInboxes, Inbox, Started
<1>1. ~CloseDrops
  BY <1>0 DEF CloseDrops
<1>2. CASE Quiet
  BY <1>0, <1>2 DEF Quiet, Rank, Current
<1>3. ASSUME NEW t \in Tasks, NEW i \in Ids, StartsFresh(t, i) PROVE Current'
  <2>0. Made(t, i, 0, {})
    BY <1>0, <1>3, MadeByStart DEF StartsFresh
  <2>1. /\ Others(t) /\ task'[t].resumes = 0 /\ transcript' = transcript
    BY <2>0 DEF Made, Rank
  <2> QED
    BY <1>0, <2>1 DEF Current, Others
<1>4. ASSUME NEW t \in Tasks, LeadResumes(t) PROVE Current'
  <2>1. /\ Others(t) /\ task'[t].id = lead.id /\ task'[t].base = lead.context
        /\ transcript' = transcript /\ lead.op = "start"
    <3>1. Made(t, lead.id, lead.runs, lead.context)
      BY <1>0, <1>4, MadeByStart DEF LeadResumes
    <3> QED
      BY <1>4, <3>1 DEF LeadResumes, Made, Rank
  <2> QED
    BY <1>0, <2>1 DEF Current, Others, Settled
<1>5. ASSUME NEW t \in Tasks, Thread(t) PROVE Current'
  <2>1. Moves(t) /\ (Begins(t) \/ Reopens(t) \/ Works(t) \/ Leaves(t) \/ Concludes(t))
    BY <1>0, <1>5, ThreadMoves
  <2>2. /\ \A u \in Tasks \ {t} : task'[u] = task[u]
        /\ task'[t].pc # "created"
    BY <2>1 DEF Moves, Others, Begins, Reopens, Works, Leaves, Concludes, Owning, Looping
  <2>3. ASSUME NEW u \in Tasks \ {t}, task[u].pc = "created"
        PROVE  transcript'[task[u].id] = transcript[task[u].id]
    <3>1. CASE Concludes(t)
      BY <3>1 DEF Concludes
    <3>2. CASE Working(t)
      <4>1. task[u].id # task[t].id /\ task[u].id \in Ids
        BY <1>0, <2>3, <3>2, RunningIsFound DEF Working
      <4> QED
        BY <2>1, <4>1 DEF Begins, Reopens, Works, Leaves, Concludes, Writes
    <3> QED
      BY <2>1, <3>1, <3>2 DEF Begins, Reopens, Works, Leaves, Working, Owning, Looping
  <2> QED
    BY <1>0, <2>2, <2>3 DEF Current
<1> QED
  BY <1>0, <1>1, <1>2, <1>3, <1>4, <1>5, Kinds

\* The invariant, from the start.
THEOREM FirstRunInvariant ==
    ASSUME DelegateAssumption
    PROVE  Spec => []FirstRunInv
<1> DEFINE Parts == ClosedEnds /\ (run = 1 => Settled /\ Current)
<1>1. Init => Parts
  BY DEF Init, ClosedEnds, Settled, Current, Blank, NoOperation
<1>2. OwnerInv /\ Parts /\ [Next]_vars => Parts'
  <2> SUFFICES ASSUME FirstRunInv, [Next]_vars PROVE Parts'
    BY DEF FirstRunInv
  <2>1. OwnerInv /\ ClosedEnds /\ InboxInv /\ run \in 1 .. MaxRuns
    BY DEF FirstRunInv, OwnerInv, RegistryInv, InboxInv, Typed, RestTyped
  <2>2. ClosedEnds'
    BY <2>1, ClosedEndsNext
  <2>3. run' = 1 => run = 1
    <3>1. ASSUME NEW t \in Tasks, Thread(t) PROVE run' = run
      BY <2>1, <3>1, ThreadMoves DEF Moves
    <3>2. CloseDrops => run' # 1
      BY <2>1 DEF CloseDrops
    <3> QED
      BY <2>1, <3>1, <3>2, Kinds DEF Quiet, StartsFresh, LeadResumes
  <2>4. run' = 1 => Settled' /\ Current'
    BY <2>3, SettledNext, CurrentNext
  <2> QED
    BY <2>2, <2>4
<1>3. FirstRunInv <=> OwnerInv /\ Parts
  BY DEF FirstRunInv
<1> HIDE DEF Parts
<1> QED
  BY <1>1, <1>2, <1>3, OwnerInvariant, PTL DEF Spec

\* In the first run the history of a subagent that is no teammate loses what its thread
\* compacts, and nothing else.
LEMMA HistoryStep ==
    ASSUME DelegateAssumption, FirstRunInv, [Next]_vars, run = 1, NEW i \in Ids \ Teammates
    PROVE  transcript[i].history \subseteq transcript'[i].history \cup Forgotten(i)'
<1>0. /\ InboxInv /\ Conversation /\ Absent /\ Current
      /\ \A t \in Tasks : Unwritten(t)
  BY DEF FirstRunInv, OwnerInv, Owners, RegistryInv
<1>1. ASSUME NEW t \in Tasks, Thread(t)
      PROVE  transcript[i].history \subseteq transcript'[i].history \cup Forgotten(i)'
  <2>1. Moves(t) /\ (Begins(t) \/ Reopens(t) \/ Works(t) \/ Leaves(t) \/ Concludes(t))
    BY <1>0, <1>1, ThreadMoves
  <2>2. CASE task[t].id # i
    BY <2>1, <2>2 DEF Begins, Reopens, Works, Leaves, Concludes, Writes
  <2>3. CASE task[t].id = i
    <3>1. CASE Begins(t)
      BY <1>0, <2>3, <3>1 DEF Begins, Unwritten, Fresh, NamedOnce, Absent
    <3>2. CASE Reopens(t)
      <4>1. task[t].resumes \in Nat
        BY <1>0 DEF InboxInv, Typed, TaskTyped, TaskRecord
      <4>2. task[t].pc = "created" /\ task[t].resumes > 0
        BY <3>2, <4>1 DEF Reopens
      <4>3. transcript[i].history \subseteq task[t].base
        BY <1>0, <2>3, <4>2 DEF Current
      <4> QED
        BY <2>3, <3>2, <4>3 DEF Reopens, Writes
    <3>3. CASE Works(t) \/ Leaves(t)
      <4>1. task'[t].forgotten \subseteq Forgotten(i)'
        BY <2>1, <2>3 DEF Forgotten, Moves
      <4>2. CASE UNCHANGED transcript
        BY <4>2
      <4>3. CASE ~UNCHANGED transcript
        <5>1. task[t].pc \in Owning
          BY <3>3, <4>3 DEF Works, Leaves, Owning
        <5>2. transcript[i].history \subseteq task[t].context \cup task[t].forgotten
          BY <1>0, <2>3, <5>1 DEF Conversation, NamedOnce
        <5>3. task[t].context \cup task[t].forgotten
              \subseteq transcript'[i].history \cup task'[t].forgotten
          BY <2>3, <3>3, <4>3 DEF Works, Leaves, Writes
        <5> QED
          BY <4>1, <5>2, <5>3
      <4> QED
        BY <4>2, <4>3
    <3>4. CASE Concludes(t)
      BY <3>4 DEF Concludes
    <3> QED
      BY <2>1, <3>1, <3>2, <3>3, <3>4
  <2> QED
    BY <2>2, <2>3
<1>2. CASE UNCHANGED transcript
  BY <1>2
<1> QED
  BY <1>0, <1>1, <1>2, Kinds DEF Quiet, CloseDrops, StartsFresh, LeadResumes

\* Until a teardown is over, the history of a subagent loses nothing but what its own
\* thread compacts, however its ending races with the message that resumes it.
THEOREM HistoriesGrow ==
    ASSUME DelegateAssumption
    PROVE  Spec => HistoryGrows
<1>1. FirstRunInv /\ [Next]_vars
      => [run = 1 => \A i \in Ids \ Teammates :
            transcript[i].history \subseteq transcript'[i].history \cup Forgotten(i)']_vars
  BY HistoryStep
<1> QED
  BY <1>1, FirstRunInvariant, PTL DEF Spec, HistoryGrows
===============================================================================
