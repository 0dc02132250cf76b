--------------------------- MODULE SessionTasksProofs ---------------------------
(***************************************************************************)
(* Proofs about SessionTasks: the store is a well-formed, acyclic          *)
(* dependency graph after every operation, for any number of teammates,    *)
(* tasks and edges.                                                        *)
(*                                                                         *)
(* StoreReadable is inductive together with TypeOK.  Its four parts move   *)
(* as one: an update adds both ends of an edge, so the graph stays         *)
(* symmetric, and a deletion strikes the task from every list, which only  *)
(* together keep every edge between stored tasks.                          *)
(***************************************************************************)
EXTENDS SessionTasks, TLAPS

FreshTask == [status |-> "pending", owner |-> NoOne, blocks |-> {}, blockedBy |-> {}]

-----------------------------------------------------------------------------
(* What an update writes *)

\* Every task of the updated store, field by field: the new edges appear at
\* both of their ends, and only the status and owner of t change.
LEMMA ChangedFields ==
    ASSUME TypeOK, NEW t \in DOMAIN tasks, NEW c \in Change, c.status # "deleted"
    PROVE  /\ DOMAIN Changed(t, c) = DOMAIN tasks
           /\ \A u \in DOMAIN tasks :
                /\ Changed(t, c)[u] \in Task
                /\ Changed(t, c)[u].blocks =
                     tasks[u].blocks \cup (IF u = t THEN c.blocks ELSE {})
                                     \cup (IF u \in c.blockedBy THEN {t} ELSE {})
                /\ Changed(t, c)[u].blockedBy =
                     tasks[u].blockedBy \cup (IF u = t THEN c.blockedBy ELSE {})
                                        \cup (IF u \in c.blocks THEN {t} ELSE {})
<1>1. /\ DOMAIN Applied(t, c) = DOMAIN tasks
      /\ \A u \in DOMAIN tasks :
           /\ Applied(t, c)[u] \in Task
           /\ Applied(t, c)[u].blocks = tasks[u].blocks
           /\ Applied(t, c)[u].blockedBy = tasks[u].blockedBy
  BY DEF TypeOK, Applied, Task, Change, Owners
<1> DEFINE linked == Linked(Applied(t, c), t, c.blocks, c.blockedBy)
<1>2. /\ DOMAIN linked = DOMAIN tasks
      /\ \A u \in DOMAIN tasks :
           /\ linked[u] \in Task
           /\ linked[u].blocks =
                tasks[u].blocks \cup (IF u = t THEN c.blocks ELSE {})
                                \cup (IF u \in c.blockedBy THEN {t} ELSE {})
           /\ linked[u].blockedBy =
                tasks[u].blockedBy \cup (IF u = t THEN c.blockedBy ELSE {})
                                   \cup (IF u \in c.blocks THEN {t} ELSE {})
  <2>1. DOMAIN linked = DOMAIN tasks
    BY <1>1 DEF Linked
  <2> SUFFICES ASSUME NEW u \in DOMAIN tasks
               PROVE  /\ linked[u] \in Task
                      /\ linked[u].blocks =
                           tasks[u].blocks \cup (IF u = t THEN c.blocks ELSE {})
                                           \cup (IF u \in c.blockedBy THEN {t} ELSE {})
                      /\ linked[u].blockedBy =
                           tasks[u].blockedBy \cup (IF u = t THEN c.blockedBy ELSE {})
                                              \cup (IF u \in c.blocks THEN {t} ELSE {})
    BY <2>1
  <2> DEFINE owned == Applied(t, c)
             blocks == owned[u].blocks \cup (IF u = t THEN c.blocks ELSE {})
                                       \cup (IF u \in c.blockedBy THEN {t} ELSE {})
             blockedBy == owned[u].blockedBy \cup (IF u = t THEN c.blockedBy ELSE {})
                                             \cup (IF u \in c.blocks THEN {t} ELSE {})
  <2>2. blocks \in SUBSET Ids /\ blockedBy \in SUBSET Ids
    <3>1. owned[u] \in Task
      BY <1>1
    <3>2. owned[u].blocks \subseteq Ids /\ owned[u].blockedBy \subseteq Ids
      BY <3>1 DEF Task
    <3>3. c.blocks \subseteq Ids /\ c.blockedBy \subseteq Ids
      BY DEF Change
    <3>0. t \in Ids
      BY DEF TypeOK
    <3> HIDE DEF owned
    <3>4. blocks \subseteq Ids
      BY <3>0, <3>2, <3>3
    <3>5. blockedBy \subseteq Ids
      BY <3>0, <3>2, <3>3
    <3> HIDE DEF blocks, blockedBy
    <3> QED
      BY <3>4, <3>5
  <2>3. linked[u] = [owned[u] EXCEPT !.blocks = blocks, !.blockedBy = blockedBy]
    BY <1>1 DEF Linked
  <2> HIDE DEF linked
  <2> QED
    BY <1>1, <2>2, <2>3 DEF Task
<1>3. Changed(t, c) = [linked EXCEPT ![t].status = IF c.status = "keep" THEN @ ELSE c.status]
  BY DEF Changed
<1> HIDE DEF linked
<1> QED
  BY <1>2, <1>3 DEF Task, Change

\* The call a teammate makes is a call whatever claiming adds to it.
LEMMA ClaimingIsCall ==
    ASSUME NEW n \in Teammates, NEW c \in UpdateCalls
    PROVE  c \in Change /\ Claiming(n, c) \in Change
  BY DEF UpdateCalls, Change, Claiming, Owners

-----------------------------------------------------------------------------
(* TypeOK *)

LEMMA UpdateType ==
    ASSUME TypeOK, NEW t, NEW c \in Change, Update(t, c)
    PROVE  DOMAIN tasks' \subseteq Ids /\ tasks' \in [DOMAIN tasks' -> Task]
<1>1. CASE c.status = "deleted"
  <2>1. tasks' = Removed(t)
    BY <1>1 DEF Update
  <2>2. \A u \in DOMAIN tasks \ {t} : Removed(t)[u] \in Task
    BY DEF Removed, TypeOK, Task
  <2> QED
    BY <2>1, <2>2 DEF Removed, TypeOK
<1>2. CASE c.status # "deleted"
  <2>1. t \in DOMAIN tasks /\ tasks' = Changed(t, c)
    BY <1>2 DEF Update
  <2>2. DOMAIN tasks' = DOMAIN tasks /\ \A u \in DOMAIN tasks : tasks'[u] \in Task
    BY <1>2, <2>1, ChangedFields
  <2>3. tasks' = [u \in DOMAIN tasks' |-> tasks'[u]]
    <3> DEFINE linked == Linked(Applied(t, c), t, c.blocks, c.blockedBy)
    <3>1. linked = [u \in DOMAIN linked |-> linked[u]]
      BY DEF Linked
    <3>2. tasks' = [linked EXCEPT ![t].status = IF c.status = "keep" THEN @ ELSE c.status]
      BY <2>1 DEF Changed
    <3> HIDE DEF linked
    <3> QED
      BY <3>1, <3>2
  <2> QED
    BY <2>2, <2>3 DEF TypeOK
<1> QED
  BY <1>1, <1>2

\* The store holds well-formed tasks under ids of the store, and every
\* teammate's TaskUpdate is at one of its two steps.
THEOREM TasksTyped == Spec => []TypeOK
<1> USE TasksAssumption
<1>1. Init => TypeOK
  BY DEF Init, TypeOK, Reading, NotReading, Ids, Owners
<1>2. TypeOK /\ [Next]_vars => TypeOK'
  <2> SUFFICES ASSUME TypeOK, [Next]_vars PROVE TypeOK'
    OBVIOUS
  <2>1. CASE Create
    <3>1. nextId \in Ids /\ nextId' \in 1 .. MaxIds + 1
      BY <2>1 DEF Create, TypeOK, Ids
    <3>2. FreshTask \in Task
      BY DEF FreshTask, Task, Statuses, Owners
    <3> QED
      BY <2>1, <3>1, <3>2 DEF Create, TypeOK, FreshTask
  <2>2. ASSUME NEW t \in Ids, LeadUpdates(t) PROVE TypeOK'
    <3>1. PICK c \in UpdateCalls : Update(t, c)
      BY <2>2 DEF LeadUpdates
    <3>2. c \in Change
      BY DEF UpdateCalls
    <3>3. DOMAIN tasks' \subseteq Ids /\ tasks' \in [DOMAIN tasks' -> Task]
      BY <3>1, <3>2, UpdateType
    <3> QED
      BY <2>2, <3>1, <3>3 DEF LeadUpdates, Update, TypeOK
  <2>3. ASSUME NEW n \in Teammates, NEW t \in Ids, TeammateReads(n, t) PROVE TypeOK'
    <3>1. t \in DOMAIN tasks => tasks[t].owner \in Owners
      BY DEF TypeOK, Task
    <3>2. reading' \in [Teammates -> Reading]
      BY <2>3, <3>1 DEF TeammateReads, TypeOK, Reading
    <3> QED
      BY <2>3, <3>2 DEF TeammateReads, TypeOK
  <2>4. ASSUME NEW n \in Teammates, TeammateUpdates(n) PROVE TypeOK'
    <3>1. PICK c \in UpdateCalls : Update(reading[n].id, Claiming(n, c))
      BY <2>4 DEF TeammateUpdates
    <3>2. Claiming(n, c) \in Change
      BY ClaimingIsCall
    <3>3. DOMAIN tasks' \subseteq Ids /\ tasks' \in [DOMAIN tasks' -> Task]
      BY <3>1, <3>2, UpdateType
    <3>4. reading' \in [Teammates -> Reading]
      BY <2>4 DEF TeammateUpdates, TypeOK, Reading, NotReading
    <3> QED
      BY <3>1, <3>3, <3>4 DEF Update, TypeOK
  <2>5. ASSUME NEW n \in Teammates, TeammateRefused(n) PROVE TypeOK'
    BY <2>5 DEF TeammateRefused, TypeOK, Reading, NotReading
  <2>6. CASE UNCHANGED vars
    BY <2>6 DEF vars, TypeOK
  <2> QED
    BY <2>1, <2>2, <2>3, <2>4, <2>5, <2>6 DEF Next
<1> QED
  BY <1>1, <1>2, PTL DEF Spec

-----------------------------------------------------------------------------
(* StoreReadable *)

\* Taking a task out leaves a graph over the tasks that remain: no list names
\* it any more, and a cycle among the others would have been one before.
LEMMA RemovedReadable ==
    ASSUME TypeOK, StoreReadable, NEW t \in DOMAIN tasks,
           tasks' = Removed(t), nextId' = nextId
    PROVE  StoreReadable'
<1>1. /\ DOMAIN tasks' = DOMAIN tasks \ {t}
      /\ \A u \in DOMAIN tasks' :
           /\ tasks'[u].blocks = tasks[u].blocks \ {t}
           /\ tasks'[u].blockedBy = tasks[u].blockedBy \ {t}
  BY DEF Removed, TypeOK, Task
<1>2. (\A u \in DOMAIN tasks : u < nextId)'
  BY <1>1 DEF StoreReadable
<1>3. EdgesKnown'
  BY <1>1 DEF StoreReadable, EdgesKnown
<1>4. EdgesSymmetric'
  BY <1>1 DEF StoreReadable, EdgesSymmetric
<1>5. ~HasCycle(tasks')
  <2> SUFFICES ASSUME NEW S \in SUBSET DOMAIN tasks', S # {},
                      \A u \in S : tasks'[u].blocks \cap S # {}
               PROVE  FALSE
    BY DEF HasCycle
  <2>1. S \in SUBSET DOMAIN tasks /\ \A u \in S : tasks[u].blocks \cap S # {}
    BY <1>1
  <2> QED
    BY <2>1 DEF StoreReadable, HasCycle
<1> QED
  BY <1>2, <1>3, <1>4, <1>5 DEF StoreReadable

\* An accepted update adds edges between two stored tasks, at both ends, and
\* no cycle.
LEMMA ChangedReadable ==
    ASSUME TypeOK, StoreReadable, NEW t \in DOMAIN tasks, NEW c \in Change,
           c.status # "deleted", Allowed(t, c), tasks' = Changed(t, c), nextId' = nextId
    PROVE  StoreReadable'
<1>1. /\ DOMAIN tasks' = DOMAIN tasks
      /\ \A u \in DOMAIN tasks :
           /\ tasks'[u].blocks =
                tasks[u].blocks \cup (IF u = t THEN c.blocks ELSE {})
                                \cup (IF u \in c.blockedBy THEN {t} ELSE {})
           /\ tasks'[u].blockedBy =
                tasks[u].blockedBy \cup (IF u = t THEN c.blockedBy ELSE {})
                                   \cup (IF u \in c.blocks THEN {t} ELSE {})
  BY ChangedFields
<1>2. c.blocks \cup c.blockedBy \subseteq DOMAIN tasks \ {t}
  BY DEF Allowed
<1>3. (\A u \in DOMAIN tasks : u < nextId)'
  BY <1>1 DEF StoreReadable
<1>4. EdgesKnown'
  BY <1>1, <1>2 DEF StoreReadable, EdgesKnown
<1>5. EdgesSymmetric'
  BY <1>1, <1>2 DEF StoreReadable, EdgesSymmetric
<1>6. ~HasCycle(tasks')
  BY DEF Allowed
<1> QED
  BY <1>3, <1>4, <1>5, <1>6 DEF StoreReadable

LEMMA UpdateReadable ==
    ASSUME TypeOK, StoreReadable, NEW t, NEW c \in Change, Update(t, c)
    PROVE  StoreReadable'
<1>1. t \in DOMAIN tasks /\ nextId' = nextId
  BY DEF Update
<1>2. CASE c.status = "deleted"
  BY <1>1, <1>2, RemovedReadable DEF Update
<1>3. CASE c.status # "deleted"
  BY <1>1, <1>3, ChangedReadable DEF Update
<1> QED
  BY <1>2, <1>3

\* A new task takes an id no task ever had and has no edges.
LEMMA CreateReadable ==
    ASSUME TypeOK, StoreReadable, Create
    PROVE  StoreReadable'
<1>1. nextId \in Int /\ nextId' = nextId + 1 /\ nextId \notin DOMAIN tasks
  BY DEF Create, TypeOK, StoreReadable
<1>2. /\ DOMAIN tasks' = DOMAIN tasks \cup {nextId}
      /\ tasks'[nextId].blocks = {}
      /\ tasks'[nextId].blockedBy = {}
      /\ \A u \in DOMAIN tasks : tasks'[u] = tasks[u]
  BY <1>1 DEF Create
<1>3. (\A u \in DOMAIN tasks : u < nextId)'
  BY <1>1, <1>2 DEF StoreReadable, TypeOK, Ids
<1>4. EdgesKnown'
  BY <1>1, <1>2 DEF StoreReadable, EdgesKnown
<1>5. EdgesSymmetric'
  BY <1>1, <1>2 DEF StoreReadable, EdgesSymmetric, EdgesKnown
<1>6. ~HasCycle(tasks')
  <2> SUFFICES ASSUME NEW S \in SUBSET DOMAIN tasks', S # {},
                      \A u \in S : tasks'[u].blocks \cap S # {}
               PROVE  FALSE
    BY DEF HasCycle
  <2>1. nextId \notin S
    BY <1>2
  <2>2. S \in SUBSET DOMAIN tasks /\ \A u \in S : tasks[u].blocks \cap S # {}
    BY <1>2, <2>1
  <2> QED
    BY <2>2 DEF StoreReadable, HasCycle
<1> QED
  BY <1>3, <1>4, <1>5, <1>6 DEF StoreReadable

\* The store is never left in a state its own parser refuses.
THEOREM StoreStaysReadable == Spec => []StoreReadable
<1>1. Init => StoreReadable
  BY DEF Init, StoreReadable, EdgesKnown, EdgesSymmetric, HasCycle
<1>2. TypeOK /\ StoreReadable /\ [Next]_vars => StoreReadable'
  <2> SUFFICES ASSUME TypeOK, StoreReadable, [Next]_vars PROVE StoreReadable'
    OBVIOUS
  <2>1. CASE Create
    BY <2>1, CreateReadable
  <2>2. ASSUME NEW t \in Ids, LeadUpdates(t) PROVE StoreReadable'
    BY <2>2, UpdateReadable DEF LeadUpdates, UpdateCalls
  <2>3. ASSUME NEW n \in Teammates, TeammateUpdates(n) PROVE StoreReadable'
    BY <2>3, UpdateReadable, ClaimingIsCall DEF TeammateUpdates
  <2>4. CASE UNCHANGED <<tasks, nextId>>
    BY <2>4 DEF StoreReadable, EdgesKnown, EdgesSymmetric, HasCycle
  <2> QED
    BY <2>1, <2>2, <2>3, <2>4 DEF Next, TeammateReads, TeammateRefused, vars
<1> QED
  BY <1>1, <1>2, TasksTyped, PTL DEF Spec
=============================================================================
