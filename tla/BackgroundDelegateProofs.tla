----------------------- MODULE BackgroundDelegateProofs -----------------------
(***************************************************************************)
(* What a subagent's sender can rely on, for any numbers of tasks,         *)
(* messages, teammates and runs: DeliveredIsRead.  The proof does not need *)
(* to know which object the registry holds under a key.                    *)
(***************************************************************************)
EXTENDS BackgroundDelegate, TLAPS

TaskTyped == task \in [Tasks -> TaskRecord]

RegistryTyped == Registered \subseteq Tasks /\ registry \in [Registered -> Tasks]

RestTyped ==
    /\ transcript \in [Ids -> [status : Statuses, runs : Nat, history : History]]
    /\ lead \in Operation
    /\ run \in 1 .. MaxRuns
    /\ sent \in 0 .. MaxMessages

\* An operation of the lead under way names a subagent; a teardown leads to a run.
LeadNames ==
    /\ lead.op \in {"wait", "resume", "start"} => lead.id \in Ids
    /\ lead.op \in {"cancel", "drop"} => run < MaxRuns

\* Places at which the inbox may still be read.
Reading == {"unused", "created"} \cup Looping

\* A thread that works has an id and a turn; one that has not begun has read nothing.
Started(t) ==
    /\ task[t].pc # "unused" => task[t].id \in Ids
    /\ task[t].pc \in Looping => task[t].turns >= 1
    /\ task[t].pc \in {"unused", "created"} => /\ task[t].context = {}
                                               /\ task[t].result = "failed"

\* Messages the model was shown, or that a compaction took away.
Read(t) == task[t].seen \cup task[t].forgotten

\* While the inbox may be read, what was accepted is in it, in the conversation, or read;
\* after a response the conversation holds nothing that was not read.
Waiting(t) ==
    /\ task[t].pc \in Reading =>
         task[t].accepted \subseteq Read(t) \cup task[t].context \cup task[t].pending
    /\ task[t].pc \in {"tool", "finish", "final"} =>
         task[t].accepted \subseteq Read(t) \cup task[t].pending

\* The inbox is closed, and everything in it was read.
Closed(t) ==
    /\ ~task[t].accepting
    /\ task[t].pending = {}
    /\ task[t].accepted \subseteq Read(t)

\* A last word closes the inbox, for good; the TeammateIdle hook runs after one.
LastWord(t) == task[t].result = "completed" \/ task[t].pc \in {"idle", "idle2"} => Closed(t)

Inbox(t) == Started(t) /\ Waiting(t) /\ LastWord(t)

Typed == TaskTyped /\ RegistryTyped /\ RestTyped /\ LeadNames
AllInboxes == \A t \in Tasks : Inbox(t)

InboxInv == Typed /\ AllInboxes

-----------------------------------------------------------------------------
(* The operators on the registry. *)

\* A look-up finds the object under the key, if there is one.
LEMMA Lookup ==
    ASSUME NEW i
    PROVE  \/ Found(i) = NoTask /\ \A t \in Registered : task[t].id # i
           \/ Found(i) \in Registered /\ task[Found(i)].id = i
<1> DEFINE holders == {t \in Registered : task[t].id = i}
<1>1. CASE holders = {}
  BY <1>1 DEF Found
<1>2. CASE holders # {}
  <2>1. Found(i) \in holders
    BY <1>2 DEF Found
  <2> QED
    BY <2>1
<1> QED
  BY <1>1, <1>2

\* Popping keys leaves the objects under the other ones.
LEMMA PopKeys ==
    ASSUME RegistryTyped, NEW ids
    PROVE  /\ DOMAIN WithoutKeys(ids) = {t \in Registered : task[t].id \notin ids}
           /\ WithoutKeys(ids) \in [DOMAIN WithoutKeys(ids) -> Tasks]
BY DEF RegistryTyped, WithoutKeys, Restrict

\* Pruning takes finished tasks only.
LEMMA Prune ==
    ASSUME RegistryTyped
    PROVE  /\ DOMAIN Pruned \subseteq Registered
           /\ \A t \in Registered : ~task[t].done => t \in DOMAIN Pruned
           /\ Pruned \in [DOMAIN Pruned -> Tasks]
<1> DEFINE finished == {t \in Registered : task[t].done}
           kept == {t \in Registered : t \in finished => Cardinality(Older(finished, t)) >= Excess}
<1>1. Pruned = [t \in kept |-> registry[t]]
  BY DEF Pruned, Restrict
<1>2. \A t \in Registered : ~task[t].done => t \in kept
  OBVIOUS
<1>3. kept \subseteq Registered
  OBVIOUS
<1> HIDE DEF kept
<1> QED
  BY <1>1, <1>2, <1>3 DEF RegistryTyped

\* A task takes the place of the object under its key.
LEMMA Enter ==
    ASSUME NEW reg, DOMAIN reg \subseteq Tasks, reg \in [DOMAIN reg -> Tasks],
           NEW t \in Tasks, NEW i
    PROVE  /\ DOMAIN Entered(reg, t, i) = {u \in DOMAIN reg : task[u].id # i} \cup {t}
           /\ Entered(reg, t, i) \in [DOMAIN Entered(reg, t, i) -> Tasks]
<1> DEFINE replaced == {u \in DOMAIN reg : task[u].id = i}
           place == IF replaced = {} THEN t ELSE reg[CHOOSE u \in replaced : TRUE]
<1>1. Entered(reg, t, i) = [u \in (DOMAIN reg \ replaced) \cup {t} |-> IF u = t THEN place ELSE reg[u]]
  BY DEF Entered
<1>2. place \in Tasks
  <2>1. CASE replaced = {}
    BY <2>1
  <2>2. CASE replaced # {}
    <3>1. (CHOOSE u \in replaced : TRUE) \in replaced
      BY <2>2
    <3> QED
      BY <2>2, <3>1
  <2> QED
    BY <2>1, <2>2
<1>3. DOMAIN reg \ replaced = {u \in DOMAIN reg : task[u].id # i}
  OBVIOUS
<1> HIDE DEF replaced, place
<1> QED
  BY <1>1, <1>2, <1>3

\* What a start does to the registry.
LEMMA StartEnters ==
    ASSUME RegistryTyped, NEW t \in Tasks, NEW i, NEW parent, NEW resumes, NEW context, NEW followup,
           Start(t, i, parent, resumes, context, followup)
    PROVE  /\ RegistryTyped'
           /\ t \in Registered'
           /\ Registered' \subseteq Registered \cup {t}
           /\ \A u \in Registered' \ {t} : task[u].id # i
           /\ \A u \in Registered : task[u].id # i /\ ~task[u].done => u \in Registered'
<1>1. /\ DOMAIN Pruned \subseteq Tasks
      /\ Pruned \in [DOMAIN Pruned -> Tasks]
      /\ DOMAIN Pruned \subseteq Registered
      /\ \A u \in Registered : ~task[u].done => u \in DOMAIN Pruned
  BY Prune DEF RegistryTyped
<1>2. registry' = Entered(Pruned, t, i)
  BY DEF Start
<1>3. /\ Registered' = {u \in DOMAIN Pruned : task[u].id # i} \cup {t}
      /\ registry' \in [Registered' -> Tasks]
  <2> DEFINE entered == Entered(Pruned, t, i)
  <2>1. /\ DOMAIN entered = {u \in DOMAIN Pruned : task[u].id # i} \cup {t}
        /\ entered \in [DOMAIN entered -> Tasks]
    BY <1>1, Enter
  <2>2. registry' = entered
    BY <1>2
  <2> HIDE DEF entered
  <2> QED
    BY <2>1, <2>2 DEF Registered
<1>4. RegistryTyped'
  <2>1. Registered' \subseteq Tasks
    BY <1>1, <1>3
  <2> QED
    BY <1>3, <2>1 DEF RegistryTyped
<1>5. Registered' \subseteq Registered \cup {t} /\ t \in Registered'
  BY <1>1, <1>3
<1>6. \A u \in Registered' \ {t} : task[u].id # i
  BY <1>3
<1>7. \A u \in Registered : task[u].id # i /\ ~task[u].done => u \in Registered'
  BY <1>1, <1>3
<1> QED
  BY <1>4, <1>5, <1>6, <1>7

-----------------------------------------------------------------------------
(* Types and the inbox. *)

\* A step that changes one task.
LEMMA OneTask ==
    ASSUME task \in [Tasks -> TaskRecord], NEW t \in Tasks,
           task' = [task EXCEPT ![t] = task'[t]], task'[t] \in TaskRecord
    PROVE  TaskTyped'
BY DEF TaskTyped

\* The locked section of a start makes a well-formed task.
LEMMA StartTyped ==
    ASSUME DelegateAssumption, task \in [Tasks -> TaskRecord], run \in 1 .. MaxRuns,
           NEW t \in Tasks, NEW i \in Ids, NEW parent \in Tasks \cup {NoTask}, NEW resumes \in Nat,
           NEW context \in History, NEW followup \in SUBSET Messages,
           Start(t, i, parent, resumes, context, followup)
    PROVE  TaskTyped'
<1>1. task' = [task EXCEPT ![t] = task'[t]]
  BY DEF Start
<1>2. \A u \in Tasks : task[u].line \in SUBSET Tasks /\ task[u].born \in 0 .. MaxRuns
  BY DEF TaskRecord
<1>3. PICK line \in SUBSET Tasks, born \in 0 .. MaxRuns :
        task'[t] = [Blank EXCEPT !.id = i, !.pc = "created", !.resumes = resumes,
                                 !.base = context, !.followup = followup,
                                 !.line = line, !.born = born]
  <2>1. CASE parent = NoTask
    <3>1. {t} \cup {} \in SUBSET Tasks /\ run \in 0 .. MaxRuns
      BY DEF DelegateAssumption
    <3>2. task'[t] = [Blank EXCEPT !.id = i, !.pc = "created", !.resumes = resumes,
                                   !.base = context, !.followup = followup,
                                   !.line = {t} \cup {}, !.born = run]
      BY <2>1 DEF Start
    <3> QED
      BY <3>1, <3>2
  <2>2. CASE parent # NoTask
    BY <1>2, <2>2 DEF Start
  <2> QED
    BY <2>1, <2>2
<1>4. Blank \in TaskRecord
  BY DEF Blank, TaskRecord, History, Places, Owning, Looping, Results, Statuses, DelegateAssumption
<1>5. [Blank EXCEPT !.id = i, !.pc = "created", !.resumes = resumes, !.base = context,
                    !.followup = followup, !.line = line, !.born = born] \in TaskRecord
  BY <1>4 DEF TaskRecord, Places, Owning, Looping
<1> QED
  BY <1>1, <1>3, <1>5, OneTask

\* So does the end of an iteration.
LEMMA AdvancedTyped ==
    ASSUME DelegateAssumption, NEW t \in Tasks, task[t] \in TaskRecord
    PROVE  Advanced(t) \in TaskRecord
<1>1. task[t].turns \in 0 .. MaxIterations
  BY DEF TaskRecord
<1>2. MaxIterations \in Nat
  BY DEF DelegateAssumption
<1>3. CASE task[t].turns < MaxIterations
  <2>1. task[t].turns + 1 \in 0 .. MaxIterations
    BY <1>1, <1>2, <1>3
  <2>2. Advanced(t) = [task[t] EXCEPT !.turns = task[t].turns + 1, !.pc = "turn"]
    BY <1>3 DEF Advanced
  <2> QED
    BY <2>1, <2>2 DEF TaskRecord, Places, Owning, Looping
<1>4. CASE ~(task[t].turns < MaxIterations)
  <2>1. Advanced(t) = [task[t] EXCEPT !.pc = "close", !.result = "failed"]
    BY <1>4 DEF Advanced
  <2> QED
    BY <2>1 DEF TaskRecord, Places, Owning, Looping, Results, Statuses
<1> QED
  BY <1>3, <1>4

\* So do a step to another place, and one that also records a result.
LEMMA GoesTyped ==
    ASSUME task \in [Tasks -> TaskRecord], NEW t \in Tasks, NEW place \in Places, Goes(t, place)
    PROVE  TaskTyped'
<1>1. task[t] \in TaskRecord
  OBVIOUS
<1>2. [task[t] EXCEPT !.pc = place] \in TaskRecord
  BY <1>1 DEF TaskRecord
<1>3. task' = [task EXCEPT ![t] = [task[t] EXCEPT !.pc = place]]
  BY DEF Goes
<1> QED
  BY <1>2, <1>3 DEF TaskTyped

LEMMA EndsTyped ==
    ASSUME task \in [Tasks -> TaskRecord], NEW t \in Tasks, NEW place \in Places,
           NEW result \in Results, Ends(t, place, result)
    PROVE  TaskTyped'
<1>1. task[t] \in TaskRecord
  OBVIOUS
<1>2. [task[t] EXCEPT !.pc = place, !.result = result] \in TaskRecord
  BY <1>1, ZenonT(30) DEF TaskRecord
<1>3. task' = [task EXCEPT ![t] = [task[t] EXCEPT !.pc = place, !.result = result]]
  BY DEF Ends
<1> QED
  BY <1>2, <1>3 DEF TaskTyped

\* A compaction leaves a part of the conversation.
LEMMA CompactionShortens ==
    ASSUME NEW t \in Tasks, NEW response, NEW context \in Compacted(t, response)
    PROVE  context \subseteq task[t].context
BY DEF Compacted

\* The part it leaves and what it takes away are histories, whatever else changes.
LEMMA CompactionTyped ==
    ASSUME NEW t \in Tasks, task[t] \in TaskRecord, NEW context \in SUBSET task[t].context,
           NEW next \in TaskRecord
    PROVE  /\ context \in History
           /\ [next EXCEPT !.context = context,
                  !.forgotten = task[t].forgotten \cup (task[t].context \ context)] \in TaskRecord
<1>1. task[t].context \in History /\ task[t].forgotten \in History
  BY DEF TaskRecord
<1>2. /\ context \in History
      /\ task[t].forgotten \cup (task[t].context \ context) \in History
  BY <1>1 DEF History
<1> QED
  BY <1>2 DEF TaskRecord

\* The tasks keep their type.
LEMMA TasksNext ==
    ASSUME DelegateAssumption, InboxInv, [Next]_vars
    PROVE  TaskTyped'
<1>0. task \in [Tasks -> TaskRecord]
  BY DEF InboxInv, Typed, TaskTyped
<1>1. \A u \in Tasks : task[u] \in TaskRecord /\ Started(u)
  BY <1>0 DEF InboxInv, AllInboxes, Inbox
<1>2. RestTyped /\ LeadNames /\ RegistryTyped
  BY DEF InboxInv, Typed
<1>3. CASE UNCHANGED task
  BY <1>0, <1>3 DEF TaskTyped
<1>4. ASSUME NEW i \in Ids, LeadSteers(i) PROVE TaskTyped'
  <2>0. Found(i) \in Tasks /\ Message(sent + 1) \in Messages
    BY <1>2, <1>4 DEF LeadSteers, Accept, Found, IsRunning, RegistryTyped, Message, Messages, RestTyped, DelegateAssumption
  <2>1. PICK u \in Tasks : u = Found(i)
    BY <2>0
  <2>2. task' = [task EXCEPT ![u] = task'[u]]
    BY <1>4, <1>0, <2>1 DEF LeadSteers, Accept
  <2>3. task[u] \in TaskRecord
    BY <1>1
  <2>4. task'[u] \in TaskRecord
    BY <1>4, <1>0, <2>0, <2>1, <2>3 DEF TaskRecord, LeadSteers, Accept
  <2> QED
    BY <1>0, <2>2, <2>4, OneTask
<1>5. ASSUME NEW t \in Tasks, NEW i \in Ids, LeadStarts(t, i) PROVE TaskTyped'
  <2>1. {} \in History /\ {} \in SUBSET Messages /\ run \in 1 .. MaxRuns
    BY <1>2 DEF History, RestTyped
  <2>2. Start(t, i, NoTask, 0, {}, {})
    BY <1>5 DEF LeadStarts
  <2> QED
    BY <1>0, <2>1, <2>2, StartTyped
<1>6. ASSUME NEW t \in Tasks, StopsTask(t) PROVE TaskTyped'
  <2>1. task' = [task EXCEPT ![t] = task'[t]]
    BY <1>6, <1>0 DEF StopsTask
  <2>2. task[t] \in TaskRecord
    BY <1>0, <1>1
  <2>3. task'[t] \in TaskRecord
    BY <1>6, <1>0, <2>2 DEF StopsTask, TaskRecord
  <2> QED
    BY <1>0, <2>1, <2>3, OneTask
<1>7. ASSUME NEW t \in Tasks, ReadsResult(t) PROVE TaskTyped'
  <2>1. task' = [task EXCEPT ![t] = task'[t]]
    BY <1>7, <1>0 DEF ReadsResult
  <2>2. task[t] \in TaskRecord
    BY <1>0, <1>1
  <2>3. task'[t] \in TaskRecord
    BY <1>7, <1>0, <2>2 DEF ReadsResult, TaskRecord
  <2> QED
    BY <1>0, <2>1, <2>3, OneTask
<1>8. CASE LeadCollects
  <2>1. \A u \in Tasks : task'[u] \in TaskRecord
    <3> SUFFICES ASSUME NEW u \in Tasks PROVE task'[u] \in TaskRecord
      OBVIOUS
    <3>1. task[u] \in TaskRecord
      BY <1>1
    <3> QED
      BY <3>1, <1>0, <1>8 DEF TaskRecord, LeadCollects
  <2> QED
    BY <2>1, <1>8 DEF TaskTyped, LeadCollects
<1>9. CASE CloseMarks
  <2>1. \A u \in Tasks : task'[u] \in TaskRecord
    <3> SUFFICES ASSUME NEW u \in Tasks PROVE task'[u] \in TaskRecord
      OBVIOUS
    <3>1. task[u] \in TaskRecord
      BY <1>1
    <3> QED
      BY <3>1, <1>0, <1>9 DEF TaskRecord, CloseMarks, NoOperation
  <2> QED
    BY <2>1, <1>9 DEF TaskTyped, CloseMarks, NoOperation
<1>10. ASSUME NEW t \in Tasks, LeadResumes(t) PROVE TaskTyped'
  <2>1. /\ lead.id \in Ids /\ lead.runs \in Nat /\ lead.context \in History
        /\ lead.message \in SUBSET Messages /\ run \in 1 .. MaxRuns
    BY <1>2, <1>10 DEF LeadResumes, RestTyped, LeadNames, Operation
  <2> QED
    BY <1>0, <1>10, <2>1, StartTyped DEF LeadResumes
<1>11. CASE CloseCancels
  <2>1. \A u \in Tasks : task'[u] \in TaskRecord
    <3> SUFFICES ASSUME NEW u \in Tasks PROVE task'[u] \in TaskRecord
      OBVIOUS
    <3>1. task[u] \in TaskRecord
      BY <1>1
    <3> QED
      BY <3>1, <1>0, <1>11 DEF TaskRecord, CloseCancels
  <2> QED
    BY <2>1, <1>11 DEF TaskTyped, CloseCancels
<1>12. ASSUME NEW p \in Tasks, NEW t \in Tasks, NEW i \in Ids, SubagentStarts(p, t, i)
       PROVE  TaskTyped'
  BY <1>0, <1>2, <1>12, StartTyped DEF SubagentStarts, RestTyped, History
<1>13. ASSUME NEW p \in Tasks, NEW i \in Ids, PeerSends(p, i) PROVE TaskTyped'
  <2>0. Found(i) \in Tasks /\ Message(sent + 1) \in Messages
    BY <1>2, <1>13 DEF PeerSends, Accept, Found, IsRunning, RegistryTyped, Message, Messages, RestTyped, DelegateAssumption
  <2>1. PICK u \in Tasks : u = Found(i)
    BY <2>0
  <2>2. task' = [task EXCEPT ![u] = task'[u]]
    BY <1>13, <1>0, <2>1 DEF PeerSends, Accept
  <2>3. task[u] \in TaskRecord
    BY <1>1
  <2>4. task'[u] \in TaskRecord
    BY <1>13, <1>0, <2>0, <2>1, <2>3 DEF TaskRecord, PeerSends, Accept
  <2> QED
    BY <1>0, <2>2, <2>4, OneTask
<1>14. ASSUME NEW t \in Tasks, Thread(t) PROVE TaskTyped'
  <2>1. CASE Creates(t)
    <3>1. task' = [task EXCEPT ![t] = task'[t]]
      BY <2>1, <1>0 DEF Creates
    <3>2. task[t] \in TaskRecord
      BY <1>0, <1>1
    <3>3. 1 \in 0 .. MaxIterations
      BY DEF DelegateAssumption
    <3>4. task'[t] = [task[t] EXCEPT !.pc = "turn", !.turns = 1]
      BY <1>0, <2>1 DEF Creates
    <3>5. task'[t] \in TaskRecord
      BY <3>2, <3>3, <3>4 DEF TaskRecord, Places, Owning, Looping
    <3> QED
      BY <1>0, <3>1, <3>5, OneTask
  <2>2. CASE Claims(t)
    <3>1. task' = [task EXCEPT ![t] = task'[t]]
      BY <2>2, <1>0 DEF Claims, Resumed
    <3>2. task[t] \in TaskRecord
      BY <1>0, <1>1
    <3>3. 1 \in 0 .. MaxIterations
      BY DEF DelegateAssumption
    <3>4. Resumed(t) \in History /\ task[t].accepted \cup task[t].followup \in SUBSET Messages
      BY <3>2 DEF Resumed, TaskRecord, History
    <3>5. task'[t] = [task[t] EXCEPT !.pc = "turn", !.turns = 1, !.context = Resumed(t),
                                     !.accepted = task[t].accepted \cup task[t].followup,
                                     !.base = {}, !.followup = {}]
      BY <1>0, <2>2 DEF Claims
    <3>6. {} \in History
      BY DEF History
    <3> DEFINE moved == [task[t] EXCEPT !.pc = "turn", !.turns = 1]
               claimed == [moved EXCEPT !.context = Resumed(t)]
    <3>0. "turn" \in Places
      BY DEF Places, Owning, Looping
    <3>7. claimed \in TaskRecord
      <4>1. moved \in TaskRecord
        BY <3>0, <3>2, <3>3 DEF TaskRecord
      <4> HIDE DEF moved
      <4> QED
        BY <3>4, <4>1 DEF TaskRecord
    <3>8. task'[t] = [claimed EXCEPT !.accepted = task[t].accepted \cup task[t].followup,
                                     !.base = {}, !.followup = {}]
      BY <3>5
    <3> HIDE DEF moved, claimed
    <3> DEFINE joined == [claimed EXCEPT !.accepted = task[t].accepted \cup task[t].followup]
    <3>9. joined \in TaskRecord
      BY <3>4, <3>7 DEF TaskRecord
    <3>10. task'[t] = [joined EXCEPT !.base = {}, !.followup = {}]
      BY <3>8
    <3> HIDE DEF joined
    <3>11. task'[t] \in TaskRecord
      BY <3>6, <3>9, <3>10 DEF TaskRecord
    <3> QED
      BY <1>0, <3>1, <3>11, OneTask
  <2>3. CASE ClaimFails(t)
    BY <1>0, <2>3, EndsTyped DEF ClaimFails, Places, Owning, Looping, Results, Statuses
  <2>19. CASE SetupFails(t)
    BY <1>0, <2>19, EndsTyped DEF SetupFails, Places, Owning, Looping, Results, Statuses
  <2>20. CASE Breaks(t)
    BY <1>0, <2>20, EndsTyped DEF Breaks, Places, Owning, Looping, Results, Statuses
  <2>4. CASE TakesMessages(t)
    <3>1. task[t] \in TaskRecord
      BY <1>0, <1>1
    <3>2. task[t].context \cup task[t].pending \in History
      BY <3>1 DEF TaskRecord, History
    <3>3. PICK place \in {"close", "model"}, result \in Results :
            task' = [task EXCEPT ![t] =
              [task[t] EXCEPT !.context = task[t].context \cup task[t].pending, !.pending = {},
                              !.pc = place, !.result = result]]
      <4>1. task[t].result \in Results /\ "cancelled" \in Results
        BY <3>1 DEF TaskRecord, Results, Statuses
      <4>2. CASE Cancelled(t)
        BY <2>4, <4>1, <4>2 DEF TakesMessages
      <4>3. CASE ~Cancelled(t)
        BY <2>4, <4>1, <4>3 DEF TakesMessages
      <4> QED
        BY <4>2, <4>3
    <3> DEFINE moved == [task[t] EXCEPT !.pc = place, !.result = result]
    <3>4. place \in Places
      BY <3>3 DEF Places, Owning, Looping
    <3>5. moved \in TaskRecord
      BY <3>1, <3>3, <3>4, ZenonT(30) DEF TaskRecord
    <3>6. task' = [task EXCEPT ![t] =
            [moved EXCEPT !.context = task[t].context \cup task[t].pending, !.pending = {}]]
      BY <3>3
    <3> HIDE DEF moved
    <3>7. [moved EXCEPT !.context = task[t].context \cup task[t].pending, !.pending = {}] \in TaskRecord
      BY <3>2, <3>5 DEF TaskRecord
    <3> QED
      BY <1>0, <3>6, <3>7 DEF TaskTyped
  <2>21. CASE ContextLimit(t)
    <3>1. task[t] \in TaskRecord
      BY <1>0, <1>1
    <3>2. PICK context \in SUBSET task[t].context :
            task' = [task EXCEPT ![t] =
              [task[t] EXCEPT !.pc = "retry", !.context = context,
                 !.forgotten = task[t].forgotten \cup (task[t].context \ context)]]
      BY <2>21, CompactionShortens DEF ContextLimit
    <3> DEFINE moved == [task[t] EXCEPT !.pc = "retry"]
    <3>3. moved \in TaskRecord
      BY <3>1 DEF TaskRecord, Places, Owning, Looping
    <3>4. task' = [task EXCEPT ![t] =
            [moved EXCEPT !.context = context,
               !.forgotten = task[t].forgotten \cup (task[t].context \ context)]]
      BY <3>2
    <3> HIDE DEF moved
    <3>5. [moved EXCEPT !.context = context,
             !.forgotten = task[t].forgotten \cup (task[t].context \ context)] \in TaskRecord
      BY <3>1, <3>2, <3>3, CompactionTyped
    <3> QED
      BY <1>0, <3>4, <3>5 DEF TaskTyped
  <2>5. CASE ModelFails(t)
    BY <1>0, <2>5, EndsTyped DEF ModelFails, Places, Owning, Looping, Results, Statuses
  <2>6. CASE ModelCancelled(t)
    BY <1>0, <2>6, EndsTyped DEF ModelCancelled, Places, Owning, Looping, Results, Statuses
  <2>7. CASE Responds(t, "tool") \/ Responds(t, "final")
    <3>1. task[t] \in TaskRecord /\ Started(t)
      BY <1>0, <1>1
    <3>2. task[t].context \cup {<<t, task[t].turns>>} \in History
      BY <2>7, <3>1 DEF Responds, TaskRecord, Started, Looping, History, Responses
    <3>3. PICK place \in {"tool", "final"} :
            task' = [task EXCEPT ![t] =
              [task[t] EXCEPT !.context = task[t].context \cup {<<t, task[t].turns>>}, !.pc = place,
                              !.seen = task[t].seen \cup (task[t].context \cap Messages)]]
      BY <2>7 DEF Responds
    <3> DEFINE moved == [task[t] EXCEPT !.pc = place]
    <3>4. moved \in TaskRecord
      BY <3>1, <3>3 DEF TaskRecord, Places, Owning, Looping
    <3>5. task[t].seen \cup (task[t].context \cap Messages) \in SUBSET Messages
      BY <3>1 DEF TaskRecord
    <3>6. task' = [task EXCEPT ![t] =
            [moved EXCEPT !.context = task[t].context \cup {<<t, task[t].turns>>},
                          !.seen = task[t].seen \cup (task[t].context \cap Messages)]]
      BY <3>3
    <3> HIDE DEF moved
    <3>7. [moved EXCEPT !.context = task[t].context \cup {<<t, task[t].turns>>},
                        !.seen = task[t].seen \cup (task[t].context \cap Messages)] \in TaskRecord
      BY <3>2, <3>4, <3>5 DEF TaskRecord
    <3> QED
      BY <1>0, <3>6, <3>7 DEF TaskTyped
  <2>8. CASE FinishCalled(t)
    BY <1>0, <2>8, GoesTyped DEF FinishCalled, Places, Owning, Looping
  <2>22. CASE ToolsEnd(t)
    BY <1>0, <2>22, GoesTyped DEF ToolsEnd, Places, Owning, Looping
  <2>9. CASE ToolsHalt(t)
    BY <1>0, <2>9, EndsTyped DEF ToolsHalt, Places, Owning, Looping, Results, Statuses
  <2>12. CASE Continues(t)
    <3>1. task[t] \in TaskRecord
      BY <1>0, <1>1
    <3>2. PICK context \in SUBSET task[t].context :
            task' = [task EXCEPT ![t] =
              [Advanced(t) EXCEPT !.context = context,
                 !.forgotten = task[t].forgotten \cup (task[t].context \ context)]]
      BY <2>12, CompactionShortens DEF Continues
    <3>3. Advanced(t) \in TaskRecord
      BY <3>1, AdvancedTyped
    <3>4. [Advanced(t) EXCEPT !.context = context,
             !.forgotten = task[t].forgotten \cup (task[t].context \ context)] \in TaskRecord
      BY <3>1, <3>2, <3>3, CompactionTyped
    <3> QED
      BY <1>0, <3>2, <3>4 DEF TaskTyped
  <2>10. CASE FinalMessages(t)
    <3>1. task[t] \in TaskRecord
      BY <1>0, <1>1
    <3>2. task[t].context \cup task[t].pending \in History
      BY <3>1 DEF TaskRecord, History
    <3>3. [task[t] EXCEPT !.pc = "batch"] \in TaskRecord
      BY <3>1 DEF TaskRecord, Places, Owning, Looping
    <3>4. PICK next \in TaskRecord :
            task' = [task EXCEPT ![t] =
              [next EXCEPT !.context = task[t].context \cup task[t].pending, !.pending = {}]]
      BY <2>10, <3>1, <3>3, AdvancedTyped DEF FinalMessages
    <3>5. [next EXCEPT !.context = task[t].context \cup task[t].pending, !.pending = {}] \in TaskRecord
      BY <3>2, <3>4 DEF TaskRecord
    <3> QED
      BY <1>0, <3>4, <3>5 DEF TaskTyped
  <2>11. CASE FinalEmpty(t)
    <3>1. task' = [task EXCEPT ![t] = task'[t]]
      BY <2>11, <1>0 DEF FinalEmpty
    <3>2. task[t] \in TaskRecord
      BY <1>0, <1>1
    <3>3. PICK place \in {"idle", "idle2", "ended"}, result \in {"completed", "failed"} :
            task'[t] = [task[t] EXCEPT !.accepting = FALSE, !.result = result, !.pc = place]
      BY <2>11, <1>0 DEF FinalEmpty, AfterFinal
    <3> DEFINE closed == [task[t] EXCEPT !.accepting = FALSE]
    <3>4. place \in Places /\ result \in Results
      BY <3>3 DEF Places, Owning, Looping, Results, Statuses
    <3>5. closed \in TaskRecord
      BY <3>2 DEF TaskRecord
    <3>6. task'[t] = [closed EXCEPT !.pc = place, !.result = result]
      BY <3>3
    <3> HIDE DEF closed
    <3>7. task'[t] \in TaskRecord
      BY <3>4, <3>5, <3>6, ZenonT(30) DEF TaskRecord
    <3> QED
      BY <1>0, <3>1, <3>7, OneTask
  <2>13. CASE IdleHalt(t)
    BY <1>0, <2>13, EndsTyped DEF IdleHalt, Places, Owning, Looping, Results, Statuses
  <2>14. CASE Finishes(t)
    BY <1>0, <2>14, GoesTyped DEF Finishes, Places, Owning, Looping
  <2>15. CASE ClosesInbox(t)
    <3>1. task' = [task EXCEPT ![t] = task'[t]]
      BY <2>15, <1>0 DEF ClosesInbox
    <3>2. task[t] \in TaskRecord
      BY <1>0, <1>1
    <3>3. PICK place \in {"close2", "ended"} :
            task'[t] = [task[t] EXCEPT !.pending = {},
                          !.accepting = task[t].accepting /\ task[t].pending # {}, !.pc = place]
      BY <2>15, <1>0 DEF ClosesInbox
    <3>4. (task[t].accepting /\ task[t].pending # {}) \in BOOLEAN
      OBVIOUS
    <3>5. place \in Places
      BY <3>3 DEF Places, Owning, Looping
    <3>6. task'[t] \in TaskRecord
      BY <3>2, <3>3, <3>4, <3>5, ZenonT(30) DEF TaskRecord
    <3> QED
      BY <1>0, <3>1, <3>6, OneTask
  <2>16. CASE Completes(t)
    BY <1>0, <2>16, GoesTyped DEF Completes, Places, Owning, Looping
  <2>17. CASE SetsDone(t)
    <3>1. task' = [task EXCEPT ![t] = task'[t]]
      BY <2>17, <1>0 DEF SetsDone
    <3>2. task[t] \in TaskRecord
      BY <1>0, <1>1
    <3>3. {} \in History
      BY DEF History
    <3>4. 0 \in 0 .. MaxIterations
      BY DEF DelegateAssumption
    <3>5. task'[t] = [task[t] EXCEPT !.pc = "done", !.done = TRUE, !.base = {}, !.followup = {},
                        !.pending = {}, !.accepted = {}, !.context = {}, !.seen = {},
                        !.forgotten = {}, !.turns = 0, !.resumes = 0]
      BY <1>0, <2>17 DEF SetsDone
    <3> DEFINE done == [task[t] EXCEPT !.pc = "done", !.done = TRUE, !.base = {}, !.followup = {}]
    <3>6. done \in TaskRecord
      BY <3>2, <3>3 DEF TaskRecord, Places, Owning, Looping
    <3> DEFINE drops == [done EXCEPT !.pending = {}, !.accepted = {}, !.context = {}]
               forgets == [drops EXCEPT !.seen = {}, !.forgotten = {}]
    <3>7. task'[t] = [forgets EXCEPT !.turns = 0, !.resumes = 0]
      BY <3>5
    <3> HIDE DEF done
    <3>8. forgets \in TaskRecord
      <4>1. drops \in TaskRecord
        BY <3>3, <3>6 DEF TaskRecord
      <4> HIDE DEF drops
      <4> QED
        BY <3>3, <4>1 DEF TaskRecord
    <3> HIDE DEF forgets
    <3>9. [forgets EXCEPT !.turns = 0, !.resumes = 0] \in TaskRecord
      <4> DEFINE unturned == [forgets EXCEPT !.turns = 0]
      <4>1. unturned \in TaskRecord
        BY <3>4, <3>8 DEF TaskRecord
      <4>2. [forgets EXCEPT !.turns = 0, !.resumes = 0] = [unturned EXCEPT !.resumes = 0]
        OBVIOUS
      <4> HIDE DEF unturned
      <4>3. [unturned EXCEPT !.resumes = 0] \in TaskRecord
        BY <4>1 DEF TaskRecord
      <4> QED
        BY <4>2, <4>3
    <3>10. task'[t] \in TaskRecord
      BY <3>7, <3>9
    <3> QED
      BY <1>0, <3>1, <3>10, OneTask
  <2>18. CASE CleansUp(t)
    BY <1>0, <2>18, GoesTyped DEF CleansUp, Places, Owning, Looping
  <2> QED
    BY <1>14, <2>1, <2>2, <2>3, <2>4, <2>5, <2>6, <2>7, <2>8, <2>9, <2>10, <2>11, <2>12, <2>13, <2>14, <2>15, <2>16, <2>17, <2>18,
       <2>19, <2>20, <2>21, <2>22 DEF Thread
<1> QED
  BY <1>3, <1>4, <1>5, <1>6, <1>7, <1>8, <1>9, <1>10, <1>11, <1>12, <1>13, <1>14
     DEF Next, LeadBegins, LeadGoesOn, LeadMeetsEnding, LeadMeetsEnded, LeadWaited, LeadReadsTranscript, LeadRefused, CloseDrops, vars

\* A checkpoint writes the conversation of a working thread.
LEMMA Checkpointed ==
    ASSUME RestTyped, NEW t \in Tasks, NEW context \in History, Checkpoint(t, context)
    PROVE  transcript' \in [Ids -> [status : Statuses, runs : Nat, history : History]]
<1> DEFINE Transcripts == [status : Statuses, runs : Nat, history : History]
<1>1. transcript \in [Ids -> Transcripts]
  BY DEF RestTyped
<1>2. \A i \in Ids : [transcript[i] EXCEPT !.status = "running", !.history = context] \in Transcripts
  <2> SUFFICES ASSUME NEW i \in Ids
               PROVE  [transcript[i] EXCEPT !.status = "running", !.history = context] \in Transcripts
    OBVIOUS
  <2>1. transcript[i] \in Transcripts
    BY <1>1
  <2> QED
    BY <2>1 DEF Statuses
<1> HIDE DEF Transcripts
<1>3. transcript' \in [Ids -> Transcripts]
  BY <1>1, <1>2 DEF Checkpoint
<1> QED
  BY <1>3 DEF Transcripts

\* So does the registry.
LEMMA RegistryNext ==
    ASSUME RegistryTyped, [Next]_vars
    PROVE  RegistryTyped'
<1>1. CASE UNCHANGED registry
  BY <1>1 DEF RegistryTyped, Registered
<1>2. ASSUME NEW t \in Tasks, NEW i \in Ids, LeadStarts(t, i) PROVE RegistryTyped'
  BY <1>2, StartEnters DEF LeadStarts
<1>3. ASSUME NEW t \in Tasks, LeadResumes(t) PROVE RegistryTyped'
  BY <1>3, StartEnters DEF LeadResumes
<1>4. ASSUME NEW p \in Tasks, NEW t \in Tasks, NEW i \in Ids, SubagentStarts(p, t, i)
      PROVE  RegistryTyped'
  BY <1>4, StartEnters DEF SubagentStarts
<1>5. CASE CloseDrops
  BY <1>5, PopKeys DEF CloseDrops, RegistryTyped, Registered
<1>6. ASSUME NEW t \in Tasks, CleansUp(t) PROVE RegistryTyped'
  <2>1. registry' = registry \/ registry' = WithoutKeys({task[t].id})
    BY <1>6 DEF CleansUp
  <2> QED
    BY <2>1, PopKeys DEF RegistryTyped, Registered
<1> QED
  BY <1>1, <1>2, <1>3, <1>4, <1>5, <1>6
     DEF Next, LeadBegins, LeadGoesOn, Thread, vars, LeadSteers, LeadMeetsEnding, LeadMeetsEnded,
         StopsTask, ReadsResult, LeadCollects, CloseMarks, LeadWaited, LeadReadsTranscript,
         LeadRefused, CloseCancels, PeerSends, Creates, Claims, ClaimFails, SetupFails, TakesMessages,
         ContextLimit, ModelFails, ModelCancelled, Responds, FinishCalled, ToolsEnd, ToolsHalt,
         Continues, FinalMessages, FinalEmpty, IdleHalt, Finishes, Breaks, ClosesInbox, Completes,
         SetsDone

\* The transcripts and the lead keep their types.
LEMMA RestNext ==
    ASSUME DelegateAssumption, InboxInv, [Next]_vars
    PROVE  RestTyped' /\ LeadNames'
<1>0. /\ RestTyped
      /\ LeadNames
      /\ RegistryTyped
      /\ \A u \in Tasks : task[u] \in TaskRecord /\ Started(u)
  BY DEF InboxInv, Typed, AllInboxes, Inbox, TaskTyped
<1>types. RestTyped /\ LeadNames /\ RegistryTyped
  BY <1>0
<1> USE DEF RestTyped, LeadNames, Operation
<1>1. ASSUME NEW i \in Ids, LeadSteers(i) PROVE RestTyped' /\ LeadNames'
  BY <1>1, <1>types DEF LeadSteers, Accept, DelegateAssumption
<1>2. ASSUME NEW i \in Ids, LeadMeetsEnding(i) PROVE RestTyped' /\ LeadNames'
  <2>1. sent + 1 \in 0 .. MaxMessages
    BY <1>2, <1>types DEF LeadMeetsEnding, DelegateAssumption
  <2>2. {Message(sent + 1)} \in SUBSET Messages
    BY <1>2, <1>types DEF LeadMeetsEnding, Message, Messages, DelegateAssumption
  <2>3. Found(i) \in Tasks \cup {NoTask}
    BY <1>types DEF Found, RegistryTyped
  <2>4. {} \in History
    BY DEF History
  <2> QED
    BY <1>2, <1>types, <2>1, <2>2, <2>3, <2>4 DEF LeadMeetsEnding, NoOperation
<1>3. ASSUME NEW i \in Ids, LeadMeetsEnded(i) PROVE RestTyped' /\ LeadNames'
  <2>1. sent + 1 \in 0 .. MaxMessages
    BY <1>3, <1>types DEF LeadMeetsEnded, DelegateAssumption
  <2>2. {Message(sent + 1)} \in SUBSET Messages
    BY <1>3, <1>types DEF LeadMeetsEnded, Message, Messages, DelegateAssumption
  <2>3. {} \in History
    BY DEF History
  <2> QED
    BY <1>3, <1>types, <2>1, <2>2, <2>3 DEF LeadMeetsEnded, NoOperation
<1>4. ASSUME NEW t \in Tasks, NEW i \in Ids, LeadStarts(t, i) PROVE RestTyped' /\ LeadNames'
  BY <1>4, <1>types DEF LeadStarts, Start, Blank
<1>5. ASSUME NEW t \in Tasks, StopsTask(t) PROVE RestTyped' /\ LeadNames'
  BY <1>5, <1>types DEF StopsTask
<1>6. ASSUME NEW t \in Tasks, ReadsResult(t) PROVE RestTyped' /\ LeadNames'
  BY <1>6, <1>types DEF ReadsResult
<1>7. CASE LeadCollects
  BY <1>7, <1>types DEF LeadCollects
<1>8. CASE CloseMarks
  BY <1>8, <1>types DEF CloseMarks, NoOperation, History, DelegateAssumption, RegistryTyped
<1>9. CASE LeadWaited
  BY <1>9, <1>types DEF LeadWaited
<1>10. CASE LeadReadsTranscript
  BY <1>10, <1>types DEF LeadReadsTranscript
<1>11. CASE LeadRefused
  BY <1>11, <1>types DEF LeadRefused, History, NoOperation
<1>12. ASSUME NEW t \in Tasks, LeadResumes(t) PROVE RestTyped' /\ LeadNames'
  BY <1>12, <1>types DEF LeadResumes, History, Start, Blank, NoOperation
<1>13. CASE CloseCancels
  BY <1>13, <1>types DEF CloseCancels
<1>14. CASE CloseDrops
  BY <1>14, <1>types DEF CloseDrops, History, NoOperation, DelegateAssumption
<1>15. ASSUME NEW p \in Tasks, NEW t \in Tasks, NEW i \in Ids, SubagentStarts(p, t, i) PROVE RestTyped' /\ LeadNames'
  BY <1>15, <1>types DEF SubagentStarts, Start, Blank
<1>16. ASSUME NEW p \in Tasks, NEW i \in Ids, PeerSends(p, i) PROVE RestTyped' /\ LeadNames'
  BY <1>16, <1>types DEF PeerSends, Accept, DelegateAssumption
<1>17. ASSUME NEW t \in Tasks, Thread(t) PROVE RestTyped' /\ LeadNames'
  <2>1. CASE Creates(t)
    BY <2>1, <1>0 DEF Creates, TaskRecord, Started, Statuses, Results, History
  <2>2. CASE Claims(t)
    BY <2>2, <1>0 DEF Claims, Resumed, TaskRecord, Started, Statuses, Results, History
  <2>3. CASE ClaimFails(t)
    BY <2>3, <1>types DEF ClaimFails, Ends
  <2>4. CASE TakesMessages(t)
    <3>1. task[t].context \cup task[t].pending \in History
      <4>1. task[t] \in TaskRecord
        BY <1>0
      <4> QED
        BY <4>1 DEF TaskRecord, History
    <3>2. UNCHANGED <<lead, run, sent>>
      BY <2>4 DEF TakesMessages
    <3>3. transcript' = transcript \/ Checkpoint(t, task[t].context \cup task[t].pending)
      BY <2>4 DEF TakesMessages
    <3> QED
      BY <1>types, <3>1, <3>2, <3>3, Checkpointed
  <2>5. CASE ModelFails(t)
    BY <2>5, <1>types DEF ModelFails, Ends
  <2>6. CASE ModelCancelled(t)
    BY <2>6, <1>types DEF ModelCancelled, Ends
  <2>7. CASE Responds(t, "tool") \/ Responds(t, "final")
    <3>1. task[t].context \cup {<<t, task[t].turns>>} \in History
      <4>1. task[t] \in TaskRecord /\ Started(t)
        BY <1>0
      <4> QED
        BY <2>7, <4>1 DEF Responds, TaskRecord, Started, Looping, History, Responses
    <3>2. /\ UNCHANGED <<lead, run, sent>>
          /\ Checkpoint(t, task[t].context \cup {<<t, task[t].turns>>})
      BY <2>7 DEF Responds
    <3> QED
      BY <1>types, <3>1, <3>2, Checkpointed
  <2>8. CASE FinishCalled(t)
    BY <2>8, <1>types DEF FinishCalled, Goes
  <2>9. CASE ToolsHalt(t)
    BY <2>9, <1>types DEF ToolsHalt, Ends
  <2>10. CASE FinalMessages(t)
    <3>1. task[t].context \cup task[t].pending \in History
      <4>1. task[t] \in TaskRecord
        BY <1>0
      <4> QED
        BY <4>1 DEF TaskRecord, History
    <3>2. /\ UNCHANGED <<lead, run, sent>>
          /\ Checkpoint(t, task[t].context \cup task[t].pending)
      BY <2>10 DEF FinalMessages
    <3> QED
      BY <1>types, <3>1, <3>2, Checkpointed
  <2>11. CASE FinalEmpty(t)
    BY <2>11, <1>types DEF FinalEmpty
  <2>12. CASE Continues(t)
    <3>1. PICK context \in SUBSET task[t].context : Checkpoint(t, context)
      BY <2>12, CompactionShortens DEF Continues
    <3>2. context \in History
      <4>1. task[t] \in TaskRecord
        BY <1>0
      <4> QED
        BY <3>1, <4>1, CompactionTyped
    <3>3. UNCHANGED <<lead, run, sent>>
      BY <2>12 DEF Continues
    <3> QED
      BY <1>types, <3>1, <3>2, <3>3, Checkpointed
  <2>13. CASE IdleHalt(t)
    BY <2>13, <1>types DEF IdleHalt, Ends
  <2>14. CASE Finishes(t)
    BY <2>14, <1>types DEF Finishes, Goes
  <2>15. CASE ClosesInbox(t)
    BY <2>15, <1>types DEF ClosesInbox
  <2>16. CASE Completes(t)
    <3>1. task[t].result \in Statuses /\ task[t].context \in History
      <4>1. task[t] \in TaskRecord
        BY <1>0
      <4> QED
        BY <4>1 DEF TaskRecord, Results
    <3> DEFINE Transcripts == [status : Statuses, runs : Nat, history : History]
    <3>2. ASSUME NEW i \in Ids
          PROVE  [transcript[i] EXCEPT !.status = task[t].result, !.history = task[t].context]
                 \in Transcripts
      <4>1. transcript[i] \in Transcripts
        BY <1>types
      <4> QED
        BY <3>1, <4>1
    <3>3. transcript' \in [Ids -> Transcripts]
      <4>1. transcript \in [Ids -> Transcripts]
        BY <1>types
      <4> HIDE DEF Transcripts
      <4> QED
        BY <2>16, <3>2, <4>1 DEF Completes
    <3>4. UNCHANGED <<lead, run, sent>>
      BY <2>16 DEF Completes
    <3> QED
      BY <1>types, <3>3, <3>4
  <2>17. CASE SetsDone(t)
    BY <2>17, <1>types DEF SetsDone
  <2>18. CASE CleansUp(t)
    BY <2>18, <1>types DEF CleansUp, Goes
  <2>19. CASE SetupFails(t)
    BY <2>19, <1>types DEF SetupFails, Ends
  <2>20. CASE Breaks(t)
    BY <2>20, <1>types DEF Breaks, Ends
  <2>21. CASE ContextLimit(t)
    BY <2>21, <1>types DEF ContextLimit
  <2>22. CASE ToolsEnd(t)
    BY <2>22, <1>types DEF ToolsEnd, Goes
  <2> QED
    BY <1>17, <2>1, <2>2, <2>3, <2>4, <2>5, <2>6, <2>7, <2>8, <2>9, <2>10, <2>11, <2>12, <2>13, <2>14, <2>15, <2>16, <2>17, <2>18,
       <2>19, <2>20, <2>21, <2>22 DEF Thread
<1>18. CASE UNCHANGED vars
  BY <1>18, <1>types DEF vars
<1> QED
  BY <1>1, <1>2, <1>3, <1>4, <1>5, <1>6, <1>7, <1>8, <1>9, <1>10, <1>11, <1>12, <1>13, <1>14, <1>15, <1>16, <1>17, <1>18
     DEF Next, LeadBegins, LeadGoesOn

\* The parts of the invariant about the inbox.
LEMMA InboxNext ==
    ASSUME DelegateAssumption, InboxInv, [Next]_vars
    PROVE  AllInboxes'
<1> USE DEF InboxInv, Typed, AllInboxes, TaskTyped, TaskRecord, RestTyped, LeadNames, Inbox,
            Started, Waiting, LastWord, Closed, Read, Reading, Looping, NoTask, DelegateAssumption
<1>1. ASSUME NEW i \in Ids, LeadSteers(i) PROVE AllInboxes'
  BY <1>1 DEF LeadSteers, Accept
<1>2. ASSUME NEW i \in Ids, LeadMeetsEnding(i) PROVE AllInboxes'
  BY <1>2 DEF LeadMeetsEnding, NoOperation, Found
<1>3. ASSUME NEW i \in Ids, LeadMeetsEnded(i) PROVE AllInboxes'
  BY <1>3 DEF LeadMeetsEnded, NoOperation
<1>4. ASSUME NEW t \in Tasks, NEW i \in Ids, LeadStarts(t, i) PROVE AllInboxes'
  BY <1>4 DEF LeadStarts, Start, Blank
<1>5. ASSUME NEW t \in Tasks, StopsTask(t) PROVE AllInboxes'
  BY <1>5 DEF StopsTask
<1>6. ASSUME NEW t \in Tasks, ReadsResult(t) PROVE AllInboxes'
  BY <1>6 DEF ReadsResult
<1>7. CASE LeadCollects
  BY <1>7 DEF LeadCollects
<1>8. CASE CloseMarks
  BY <1>8 DEF CloseMarks, NoOperation
<1>9. CASE LeadWaited
  BY <1>9 DEF LeadWaited
<1>10. CASE LeadReadsTranscript
  BY <1>10 DEF LeadReadsTranscript
<1>11. CASE LeadRefused
  BY <1>11 DEF LeadRefused, NoOperation
<1>12. ASSUME NEW t \in Tasks, LeadResumes(t) PROVE AllInboxes'
  BY <1>12 DEF LeadResumes, Start, Blank, NoOperation
<1>13. CASE CloseCancels
  BY <1>13 DEF CloseCancels
<1>14. CASE CloseDrops
  BY <1>14 DEF CloseDrops, NoOperation
<1>15. ASSUME NEW p \in Tasks, NEW t \in Tasks, NEW i \in Ids, SubagentStarts(p, t, i) PROVE AllInboxes'
  BY <1>15 DEF SubagentStarts, Start, Blank
<1>16. ASSUME NEW p \in Tasks, NEW i \in Ids, PeerSends(p, i) PROVE AllInboxes'
  BY <1>16 DEF PeerSends, Accept
<1>17. ASSUME NEW t \in Tasks, Thread(t) PROVE AllInboxes'
  <2>1. CASE Creates(t)
    BY <2>1 DEF Creates
  <2>2. CASE Claims(t)
    <3>1. Inbox(t)'
      BY <2>2 DEF Claims, Resumed
    <3>2. ASSUME NEW u \in Tasks, u # t PROVE Inbox(u)'
      BY <2>2, <3>2 DEF Claims
    <3> QED
      BY <3>1, <3>2
  <2>3. CASE ClaimFails(t)
    BY <2>3 DEF ClaimFails, Ends
  <2>4. CASE TakesMessages(t)
    BY <2>4 DEF TakesMessages, Checkpoint
  <2>5. CASE ModelFails(t)
    BY <2>5 DEF ModelFails, Ends
  <2>6. CASE ModelCancelled(t)
    BY <2>6 DEF ModelCancelled, Ends
  <2>7. CASE Responds(t, "tool") \/ Responds(t, "final")
    <3>1. Inbox(t)'
      <4>1. PICK place \in {"tool", "final"} :
              task'[t] = [task[t] EXCEPT !.context = task[t].context \cup {<<t, task[t].turns>>},
                 !.pc = place, !.seen = task[t].seen \cup (task[t].context \cap Messages)]
        BY <2>7 DEF Responds
      <4>2. /\ task[t].pc \in {"model", "retry"} /\ Inbox(t)
            /\ task[t].accepted \subseteq Messages
        BY <2>7 DEF Responds
      <4> QED
        BY <4>1, <4>2
    <3>2. ASSUME NEW u \in Tasks, u # t PROVE Inbox(u)'
      BY <2>7, <3>2 DEF Responds
    <3> QED
      BY <3>1, <3>2
  <2>8. CASE FinishCalled(t)
    BY <2>8 DEF FinishCalled, Goes
  <2>9. CASE ToolsHalt(t)
    BY <2>9 DEF ToolsHalt, Ends
  <2>10. CASE FinalMessages(t)
    BY <2>10 DEF FinalMessages, Checkpoint, Advanced
  <2>11. CASE FinalEmpty(t)
    BY <2>11 DEF FinalEmpty, AfterFinal
  <2>12. CASE Continues(t)
    <3>1. PICK context \in SUBSET task[t].context :
            task' = [task EXCEPT ![t] =
              [Advanced(t) EXCEPT !.context = context,
                 !.forgotten = task[t].forgotten \cup (task[t].context \ context)]]
      BY <2>12, CompactionShortens DEF Continues
    <3>2. task[t].pc \in {"batch", "final", "idle"} /\ Inbox(t)
      BY <2>12 DEF Continues
    <3> QED
      BY <3>1, <3>2 DEF Advanced
  <2>13. CASE IdleHalt(t)
    BY <2>13 DEF IdleHalt, Ends
  <2>14. CASE Finishes(t)
    BY <2>14 DEF Finishes, Goes
  <2>15. CASE ClosesInbox(t)
    <3>0. task[t].pc \in {"close", "close2"} /\ Inbox(t)
      BY <2>15 DEF ClosesInbox
    <3>1. Inbox(t)'
      <4>1. task'[t] = [task[t] EXCEPT !.pending = {},
                                       !.accepting = task[t].accepting /\ task[t].pending # {},
                                       !.pc = IF task[t].pc = "close" THEN "close2" ELSE "ended"]
        BY <2>15 DEF ClosesInbox
      <4>2. /\ task'[t].pending = {} /\ task'[t].pc \in {"close2", "ended"}
            /\ task'[t].result = task[t].result /\ task'[t].accepted = task[t].accepted
            /\ task'[t].context = task[t].context /\ task'[t].id = task[t].id
            /\ task'[t].seen = task[t].seen /\ task'[t].forgotten = task[t].forgotten
            /\ task'[t].accepting = (task[t].accepting /\ task[t].pending # {})
        BY <3>0, <4>1
      <4> QED
        BY <3>0, <4>2
    <3>2. ASSUME NEW u \in Tasks, u # t PROVE Inbox(u)'
      BY <2>15, <3>2 DEF ClosesInbox
    <3> QED
      BY <3>1, <3>2
  <2>16. CASE Completes(t)
    BY <2>16 DEF Completes, Goes
  <2>17. CASE SetsDone(t)
    BY <2>17 DEF SetsDone
  <2>18. CASE CleansUp(t)
    BY <2>18 DEF CleansUp, Goes
  <2>19. CASE SetupFails(t)
    BY <2>19 DEF SetupFails, Ends
  <2>20. CASE Breaks(t)
    BY <2>20 DEF Breaks, Ends
  <2>21. CASE ContextLimit(t)
    BY <2>21 DEF ContextLimit
  <2>22. CASE ToolsEnd(t)
    BY <2>22 DEF ToolsEnd, Goes
  <2> QED
    BY <1>17, <2>1, <2>2, <2>3, <2>4, <2>5, <2>6, <2>7, <2>8, <2>9, <2>10, <2>11, <2>12, <2>13, <2>14, <2>15, <2>16, <2>17, <2>18,
       <2>19, <2>20, <2>21, <2>22 DEF Thread
<1>18. CASE UNCHANGED vars
  BY <1>18 DEF vars
<1> QED
  BY <1>1, <1>2, <1>3, <1>4, <1>5, <1>6, <1>7, <1>8, <1>9, <1>10, <1>11, <1>12, <1>13, <1>14, <1>15, <1>16, <1>17, <1>18
     DEF Next, LeadBegins, LeadGoesOn

\* The invariant, from the start.
THEOREM InboxInvariant ==
    ASSUME DelegateAssumption
    PROVE  Spec => []InboxInv
<1>1. Init => Typed
  BY DEF Init, Typed, TaskTyped, TaskRecord, RestTyped, LeadNames, Blank, NoOperation, NoTask, History,
         Places, Owning, Looping, Results, Statuses, RegistryTyped, Registered, Operation, DelegateAssumption
<1>2. Init => AllInboxes
  BY DEF Init, AllInboxes, Inbox, Started, Waiting, LastWord, Closed, Read,
         Reading, Looping, Blank
<1>3. InboxInv /\ [Next]_vars => InboxInv'
  BY TasksNext, RegistryNext, RestNext, InboxNext DEF InboxInv, Typed
<1> QED
  BY <1>1, <1>2, <1>3, PTL DEF Spec, InboxInv

\* Types, for any numbers of subagents, tasks, messages, iterations and runs.
THEOREM TypeCorrect ==
    ASSUME DelegateAssumption
    PROVE  Spec => []TypeOK
<1>1. InboxInv => TypeOK
  BY DEF InboxInv, Typed, TaskTyped, RegistryTyped, Registered, RestTyped, TypeOK
<1> QED
  BY <1>1, InboxInvariant, PTL

\* No message its senders were told is delivered is left in the inbox of a subagent that
\* completes: its model has answered a request with it, or a compaction took it away, with
\* any number of senders, compactions, hooks that send it back to work, cancellations and
\* teardowns.
THEOREM DeliveredMessagesAreRead ==
    ASSUME DelegateAssumption
    PROVE  Spec => []DeliveredIsRead
<1>1. InboxInv => DeliveredIsRead
  BY DEF InboxInv, AllInboxes, Inbox, LastWord, Closed, Read, DeliveredIsRead
<1> QED
  BY <1>1, InboxInvariant, PTL
=============================================================================
