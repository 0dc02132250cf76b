------------------------------ MODULE SessionTasks ------------------------------
(***************************************************************************)
(* The task graph of a session, tasks.json (session_tasks.py,              *)
(* session_task_graph.py, session_task_store.py), as the lead and the      *)
(* teammates of an agent team share it (task_action_executor.py,           *)
(* agent_team_runtime.py).                                                 *)
(*                                                                         *)
(* One lock makes every operation on the store atomic.  The lead calls the *)
(* operations directly; a teammate's TaskUpdate is two of them, TaskGet    *)
(* and TaskUpdate, and the owner it checks is that of the first.           *)
(***************************************************************************)
EXTENDS Integers, FiniteSets

CONSTANTS
    Teammates,  \* names that own tasks
    NoOne,      \* owner of an unowned task (None)
    Missing,    \* what TaskGet says of a task that is not there
    MaxTasks,   \* MAX_TASKS
    MaxIds      \* bound: tasks ever created

ASSUME TasksAssumption ==
    /\ {NoOne, Missing} \cap Teammates = {}
    /\ NoOne # Missing
    /\ MaxTasks \in Nat
    /\ MaxIds \in Nat

VARIABLES
    tasks,    \* the stored tasks by id
    nextId,   \* nextId of the store
    reading   \* per teammate, the TaskGet its TaskUpdate has made

vars == <<tasks, nextId, reading>>

Ids == 1 .. MaxIds
Owners == Teammates \cup {NoOne}
Statuses == {"pending", "in_progress", "completed"}
Task == [status : Statuses, owner : Owners, blocks : SUBSET Ids, blockedBy : SUBSET Ids]

\* A TaskGet made for id, and the owner it found; id 0 when there is none.
Reading == [id : Ids \cup {0}, owner : Owners \cup {Missing}]
NotReading == [id |-> 0, owner |-> Missing]

\* The fields of a TaskUpdate call; "keep" is a field it does not set.
Change == [status : Statuses \cup {"keep", "deleted"}, owner : Owners \cup {"keep"},
           blocks : SUBSET Ids, blockedBy : SUBSET Ids]
\* Bound: calls that add at most one dependency.
UpdateCalls == {c \in Change : Cardinality(c.blocks) + Cardinality(c.blockedBy) <= 1}

TypeOK ==
    /\ DOMAIN tasks \subseteq Ids
    /\ tasks \in [DOMAIN tasks -> Task]
    /\ nextId \in 1 .. MaxIds + 1
    /\ reading \in [Teammates -> Reading]

Init ==
    /\ tasks = [t \in {} |-> NotReading]
    /\ nextId = 1
    /\ reading = [n \in Teammates |-> NotReading]

-----------------------------------------------------------------------------
(* The store *)

\* has_dependency_cycle: some tasks each block another of them.
HasCycle(ts) ==
    \E S \in SUBSET DOMAIN ts : S # {} /\ \A t \in S : ts[t].blocks \cap S # {}

\* remove_dependency on every task that is left.
Removed_BlockersOnly(t) ==
    [u \in DOMAIN tasks \ {t} |-> [tasks[u] EXCEPT !.blockedBy = @ \ {t}]]
Removed(t) ==
    [u \in DOMAIN tasks \ {t} |-> [tasks[u] EXCEPT !.blocks = @ \ {t}, !.blockedBy = @ \ {t}]]

\* add_dependencies: both ends of every new edge.
Linked_OneEnd(ts, t, blocks, blockedBy) ==
    [u \in DOMAIN ts |->
        IF u = t THEN [ts[u] EXCEPT !.blocks = @ \cup blocks, !.blockedBy = @ \cup blockedBy]
        ELSE ts[u]]
Linked(ts, t, blocks, blockedBy) ==
    [u \in DOMAIN ts |->
        [ts[u] EXCEPT !.blocks = @ \cup (IF u = t THEN blocks ELSE {})
                                   \cup (IF u \in blockedBy THEN {t} ELSE {}),
                      !.blockedBy = @ \cup (IF u = t THEN blockedBy ELSE {})
                                      \cup (IF u \in blocks THEN {t} ELSE {})]]

\* The task with the fields of the call, its status excepted.
Applied(t, c) ==
    [tasks EXCEPT ![t].owner = IF c.owner = "keep" THEN @ ELSE c.owner]

Changed(t, c) ==
    LET linked == Linked(Applied(t, c), t, c.blocks, c.blockedBy)
    IN  [linked EXCEPT ![t].status = IF c.status = "keep" THEN @ ELSE c.status]

\* The checks of update_session_task that return a failure.
Allowed(t, c) ==
    /\ c.blocks \cup c.blockedBy \subseteq DOMAIN tasks \ {t}
    /\ c.status \in {"in_progress", "completed"} \ {tasks[t].status} =>
         \A b \in Changed(t, c)[t].blockedBy : tasks[b].status = "completed"
    /\ ~HasCycle(Changed(t, c))

\* update_session_task, called when it succeeds.
Update(t, c) ==
    /\ t \in DOMAIN tasks
    /\ IF c.status = "deleted" THEN tasks' = Removed(t)
                               ELSE Allowed(t, c) /\ tasks' = Changed(t, c)
    /\ UNCHANGED nextId

\* create_session_task
Create ==
    /\ nextId <= MaxIds
    /\ Cardinality(DOMAIN tasks) < MaxTasks
    /\ tasks' = [t \in DOMAIN tasks \cup {nextId} |->
                    IF t = nextId
                    THEN [status |-> "pending", owner |-> NoOne, blocks |-> {}, blockedBy |-> {}]
                    ELSE tasks[t]]
    /\ nextId' = nextId + 1
    /\ UNCHANGED reading

-----------------------------------------------------------------------------
(* The lead and the teammates *)

LeadUpdates(t) ==
    /\ \E c \in UpdateCalls : Update(t, c)
    /\ UNCHANGED reading

\* The TaskGet with which a teammate's TaskUpdate begins.
TeammateReads(n, t) ==
    /\ reading[n] = NotReading
    /\ reading' = [reading EXCEPT ![n] =
         [id |-> t, owner |-> IF t \in DOMAIN tasks THEN tasks[t].owner ELSE Missing]]
    /\ UNCHANGED <<tasks, nextId>>

\* What the teammate may do to the task it read.
MayUpdate(n, c) ==
    \/ reading[n].owner = Missing
    \/ reading[n].owner \in {NoOne, n} /\ c.owner \in {"keep", NoOne, n}

\* An unowned task is claimed by the update that starts or completes it.
Claiming(n, c) ==
    IF /\ reading[n].owner = NoOne
       /\ c.owner = "keep"
       /\ c.status \in {"in_progress", "completed"}
    THEN [c EXCEPT !.owner = n] ELSE c

TeammateUpdates(n) ==
    /\ reading[n].id # 0
    /\ \E c \in UpdateCalls : MayUpdate(n, c) /\ Update(reading[n].id, Claiming(n, c))
    /\ reading' = [reading EXCEPT ![n] = NotReading]

\* The owner read is another teammate, or the update fails: the caller gets the error.
TeammateRefused(n) ==
    /\ reading[n].id # 0
    /\ reading' = [reading EXCEPT ![n] = NotReading]
    /\ UNCHANGED <<tasks, nextId>>

Next ==
    \/ Create
    \/ \E t \in Ids : LeadUpdates(t)
    \/ \E n \in Teammates :
         \/ \E t \in Ids : TeammateReads(n, t)
         \/ TeammateUpdates(n)
         \/ TeammateRefused(n)

Spec == Init /\ [][Next]_vars

-----------------------------------------------------------------------------
(* Properties *)

EdgesKnown == \A t \in DOMAIN tasks :
    tasks[t].blocks \cup tasks[t].blockedBy \subseteq DOMAIN tasks \ {t}

EdgesSymmetric == \A t, u \in DOMAIN tasks :
    u \in tasks[t].blocks <=> t \in tasks[u].blockedBy

\* The file every operation leaves is one _parse_task_store accepts: a store it
\* refuses fails every later task tool of the session.
StoreReadable ==
    /\ \A t \in DOMAIN tasks : t < nextId
    /\ EdgesKnown
    /\ EdgesSymmetric
    /\ ~HasCycle(tasks)

\* The TaskUpdate of a teammate leaves a task alone that another teammate owns.
NoForeignWork ==
    [][\A n \in Teammates :
         LET t == reading[n].id
         IN  /\ t \in DOMAIN tasks
             /\ reading[n].owner # Missing
             /\ reading'[n] = NotReading
             /\ tasks[t].owner \notin {NoOne, n}
             => t \in DOMAIN tasks' /\ tasks'[t] = tasks[t]]_vars
=============================================================================
