------------------------ MODULE BackgroundAgentProofs ------------------------
(***************************************************************************)
(* Theorems about BackgroundAgent, for any numbers of clients, workers and *)
(* messages.                                                               *)
(***************************************************************************)
EXTENDS BackgroundAgent, WellFoundedInduction, TLAPS

-----------------------------------------------------------------------------
(* Type correctness and the transition lock. *)

\* The transition lock is held by exactly the client that is inside an operation.
LockDiscipline == \A c \in Clients : pc[c] \in LockedPoints <=> lock = c

\* An operation that will enqueue a message is within the bound until it has.
RoomKept ==
    \A c \in Clients :
        /\ pc[c] = "refill" => Respawning(c)
        /\ pc[c] \in {"kill", "drop"} => Respawning(c) \/ call[c].op = "stop"
        /\ pc[c] \in {"enter", "kill", "drop", "refill"} /\ (call[c].op = "send" \/ Respawning(c))
              => CanSend

BaseInv == TypeOK /\ LockDiscipline /\ RoomKept

\* next_background_agent_message yields a message whenever one is queued.
LEMMA OldestQueued ==
    ASSUME NEW queue \in SUBSET Nat, queue # {}
    PROVE  Oldest(queue) \in queue /\ \A n \in queue : Oldest(queue) <= n
  <1> DEFINE R == OpToRel(<, Nat)
  <1>1. \A m, n \in Nat : <<m, n>> \in R <=> m < n
    BY DEF OpToRel
  <1>2. IsWellFoundedOn(R, Nat)
    BY NatLessThanWellFounded
  <1> HIDE DEF R
  <1>3. \E m \in queue : \A n \in queue : <<n, m>> \notin R
    BY <1>2, WFMin
  <1>4. PICK m \in queue : \A n \in queue : <<n, m>> \notin R
    BY <1>3
  <1>5. \A n \in queue : m \in Nat /\ n \in Nat /\ ~(n < m)
    BY <1>1, <1>4
  <1>6. \A n \in queue : m <= n
    BY <1>5
  <1> QED
    BY <1>6 DEF Oldest

LEMMA TypeInit == Init => TypeOK
  <1> SUFFICES ASSUME Init PROVE TypeOK
    OBVIOUS
  <1>1. /\ config \in BOOLEAN /\ stopped \in BOOLEAN
        /\ lease \in {NoLease} \cup [owner : Clients, state : LeaseStatuses]
        /\ request \in [owner : Workers \cup {NoProcess}, readable : BOOLEAN]
    BY DEF Init, NoLease, NoRequest
  <1>2. /\ pc \in [Clients -> Points]
        /\ call \in [Clients -> [op : Operations, status : Statuses,
                                 exit : ExitMarks, stopped : BOOLEAN]]
    BY DEF Init, NoCall, Points, LockedPoints, LeasePoints, Operations, Statuses, ExitMarks
  <1> QED
    BY <1>1, <1>2, BoundAssumption DEF Init, TypeOK, ExitMarks, WorkerStates, NoMessage

LEMMA EnqueueType ==
    ASSUME TypeOK, CanSend, Enqueue
    PROVE  inbox' \subseteq Messages /\ sent' \in 0 .. MaxMessages /\ ran' \subseteq Messages
  BY BoundAssumption DEF TypeOK, CanSend, Enqueue, Messages

LEMMA TypeNext == TypeOK /\ RoomKept /\ [Next]_vars => TypeOK'
  <1> SUFFICES ASSUME TypeOK, RoomKept, [Next]_vars PROVE TypeOK'
    OBVIOUS
  <1> USE DEF TypeOK, files, mail, prompt, clientVars, workerVars, Go, Goto,
              Return, Unlock, Kill, Start, Move, RemoveRequests, Enqueue,
              NoLease, NoRequest, NoCall, CurrentLease, Points, LockedPoints,
              LeasePoints, ExitMarks, Operations, Statuses, ActiveStatuses,
              LeaseStatuses, WorkerStates, NoMessage, Messages, Foreign, Alive
  <1>1. ASSUME NEW c \in Clients, LaunchPrepare(c) PROVE TypeOK'
    BY <1>1 DEF LaunchPrepare
  <1>2. ASSUME NEW c \in Clients, LaunchSpawn(c) PROVE TypeOK'
    BY <1>2 DEF LaunchSpawn
  <1>3. ASSUME NEW c \in Clients, LaunchSpawnFails(c) PROVE TypeOK'
    <2>1. config' \in BOOLEAN /\ exitMark' \in ExitMarks
      BY <1>3 DEF LaunchSpawnFails
    <2> QED
      BY <1>3, <2>1 DEF LaunchSpawnFails
  <1>4. ASSUME NEW c \in Clients, LaunchRecord(c) PROVE TypeOK'
    <2>1. pc' \in [Clients -> Points]
      BY <1>4 DEF LaunchRecord
    <2>2. /\ call' \in [Clients -> [op : Operations, status : Statuses,
                                    exit : ExitMarks, stopped : BOOLEAN]]
          /\ target' \in [Clients -> Workers \cup {NoProcess}]
      BY <1>4 DEF LaunchRecord
    <2> QED
      BY <1>4, <2>1, <2>2 DEF LaunchRecord
  <1>5. ASSUME NEW c \in Clients, LaunchRecordFails(c) PROVE TypeOK'
    <2>1. state' \in [Workers -> WorkerStates]
      BY <1>5 DEF LaunchRecordFails
    <2>2. pc' \in [Clients -> Points]
      BY <1>5 DEF LaunchRecordFails
    <2>3. /\ call' \in [Clients -> [op : Operations, status : Statuses,
                                    exit : ExitMarks, stopped : BOOLEAN]]
          /\ target' \in [Clients -> Workers \cup {NoProcess}]
      BY <1>5 DEF LaunchRecordFails
    <2> QED
      BY <1>5, <2>1, <2>2, <2>3, ZenonT(30) DEF LaunchRecordFails
  <1>6. ASSUME NEW c \in Clients, Candidate(c) PROVE TypeOK'
    BY <1>6 DEF Candidate
  <1>7. ASSUME NEW c \in Clients, NEW op \in Operations, Enter(c, op) PROVE TypeOK'
    <2>1. Status \in Statuses /\ CurrentLease \in {lease, NoLease}
      BY <1>7 DEF Status
    <2>2. [op |-> op, status |-> Status, exit |-> exitMark, stopped |-> stopped]
            \in [op : Operations, status : Statuses, exit : ExitMarks, stopped : BOOLEAN]
      BY <2>1
    <2> QED
      BY <1>7, <2>1, <2>2 DEF Enter
  <1>8. ASSUME NEW c \in Clients, Refuse(c) PROVE TypeOK'
    BY <1>8 DEF Refuse
  <1>9. ASSUME NEW c \in Clients, SendQueued(c) PROVE TypeOK'
    <2>1. CanSend
      BY <1>9 DEF SendQueued, RoomKept, Call
    <2>2. Enqueue
      BY <1>9 DEF SendQueued
    <2> HIDE DEF Enqueue
    <2> QED
      BY <1>9, <2>1, <2>2, EnqueueType DEF SendQueued
  <1>10. ASSUME NEW c \in Clients, SendRespawns(c) PROVE TypeOK'
    <2>1. CanSend
      BY <1>10 DEF SendRespawns, RoomKept, Call
    <2>2. Enqueue
      BY <1>10 DEF SendRespawns
    <2> HIDE DEF Enqueue
    <2> QED
      BY <1>10, <2>1, <2>2, EnqueueType DEF SendRespawns
  <1>11. ASSUME NEW c \in Clients, Condemn(c) PROVE TypeOK'
    BY <1>11 DEF Condemn
  <1>12. ASSUME NEW c \in Clients, RespawnInactive(c) PROVE TypeOK'
    BY <1>12 DEF RespawnInactive
  <1>13. ASSUME NEW c \in Clients, Terminate(c) PROVE TypeOK'
    BY <1>13 DEF Terminate
  <1>14. ASSUME NEW c \in Clients, DropRequests(c) PROVE TypeOK'
    BY <1>14 DEF DropRequests
  <1>15. ASSUME NEW c \in Clients, MarkStopped(c) PROVE TypeOK'
    BY <1>15 DEF MarkStopped
  <1>16. ASSUME NEW c \in Clients, Refill(c) PROVE TypeOK'
    <2>1. CASE inbox = {}
      <3>1. CanSend /\ Enqueue
        BY <1>16, <2>1 DEF Refill, RoomKept, Respawning
      <3> HIDE DEF Enqueue
      <3> QED
        BY <1>16, <3>1, EnqueueType DEF Refill
    <2>2. CASE inbox # {}
      <3>1. inbox' \subseteq Messages /\ sent' \in 0 .. MaxMessages /\ ran' \subseteq Messages
        BY <1>16, <2>2 DEF Refill
      <3> HIDE DEF Enqueue
      <3> QED
        BY <1>16, <3>1 DEF Refill
    <2> QED
      BY <2>1, <2>2
  <1>17. ASSUME NEW c \in Clients, RefillFails(c) PROVE TypeOK'
    BY <1>17 DEF RefillFails
  <1>18. ASSUME NEW c \in Clients, ClearRequests(c) PROVE TypeOK'
    BY <1>18 DEF ClearRequests
  <1>19. ASSUME NEW c \in Clients, BlankExit(c) PROVE TypeOK'
    BY <1>19 DEF BlankExit
  <1>20. ASSUME NEW c \in Clients, UnlinkStopped(c) PROVE TypeOK'
    <2>1. stopped' \in BOOLEAN
      BY <1>20 DEF UnlinkStopped
    <2> QED
      BY <1>20, <2>1 DEF UnlinkStopped
  <1>21. ASSUME NEW c \in Clients, Spawn(c) PROVE TypeOK'
    BY <1>21 DEF Spawn
  <1>22. ASSUME NEW c \in Clients, SpawnFails(c) PROVE TypeOK'
    BY <1>22 DEF SpawnFails
  <1>23. ASSUME NEW c \in Clients, WriteRecord(c) PROVE TypeOK'
    BY <1>23 DEF WriteRecord
  <1>24. ASSUME NEW c \in Clients, WriteRecordFails(c) PROVE TypeOK'
    BY <1>24 DEF WriteRecordFails
  <1>25. ASSUME NEW c \in Clients, RestoreExit(c) PROVE TypeOK'
    BY <1>25 DEF RestoreExit, Call
  <1>26. ASSUME NEW c \in Clients, RestoreStopped(c) PROVE TypeOK'
    BY <1>26 DEF RestoreStopped, Call
  <1>27. ASSUME NEW c \in Clients, RemoveMetadata(c) PROVE TypeOK'
    BY <1>27 DEF RemoveMetadata
  <1>28. ASSUME NEW c \in Clients, RemoveRecord(c) PROVE TypeOK'
    <2>1. pc' \in [Clients -> Points]
      BY <1>28 DEF RemoveRecord
    <2>2. /\ call' \in [Clients -> [op : Operations, status : Statuses,
                                    exit : ExitMarks, stopped : BOOLEAN]]
          /\ target' \in [Clients -> Workers \cup {NoProcess}]
      BY <1>28 DEF RemoveRecord
    <2> QED
      BY <1>28, <2>1, <2>2 DEF RemoveRecord
  <1>29. ASSUME NEW c \in Clients, Attach(c) PROVE TypeOK'
    BY <1>29 DEF Attach
  <1>30. ASSUME NEW c \in Clients, Activate(c) PROVE TypeOK'
    BY <1>30 DEF Activate
  <1>31. ASSUME NEW c \in Clients, ActivateFails(c) PROVE TypeOK'
    BY <1>31 DEF ActivateFails
  <1>32. ASSUME NEW c \in Clients, TerminalTurn(c) PROVE TypeOK'
    BY <1>32 DEF TerminalTurn
  <1>33. ASSUME NEW c \in Clients, TerminalTurnEnds(c) PROVE TypeOK'
    BY <1>33 DEF TerminalTurnEnds
  <1>34. ASSUME NEW c \in Clients, Leave(c) PROVE TypeOK'
    BY <1>34 DEF Leave
  <1>35. ASSUME NEW c \in Clients, Detach(c) PROVE TypeOK'
    BY <1>35 DEF Detach
  <1>36. ASSUME NEW c \in Clients, List(c) PROVE TypeOK'
    BY <1>36 DEF List
  <1>37. ASSUME NEW c \in Clients, Reap(c) PROVE TypeOK'
    BY <1>37 DEF Reap
  <1>38. ASSUME NEW w \in Workers, TakeMessage(w) PROVE TypeOK'
    <2>1. inbox \in SUBSET Nat /\ inbox # {}
      BY <1>38, BoundAssumption DEF TakeMessage
    <2>2. Oldest(inbox) \in Messages
      BY <2>1, OldestQueued
    <2> QED
      BY <1>38, <2>2 DEF TakeMessage
  <1>39. ASSUME NEW w \in Workers, WorkerDone(w) PROVE TypeOK'
    BY <1>39 DEF WorkerDone
  <1>40. ASSUME NEW w \in Workers, BoundaryFails(w) PROVE TypeOK'
    BY <1>40 DEF BoundaryFails
  <1>41. ASSUME NEW w \in Workers, StartTurn(w) PROVE TypeOK'
    <2>1. ran' \subseteq Messages
      BY <1>41 DEF StartTurn
    <2> QED
      BY <1>41, <2>1 DEF StartTurn
  <1>42. ASSUME NEW w \in Workers, TurnBusy(w) PROVE TypeOK'
    BY <1>42 DEF TurnBusy
  <1>43. ASSUME NEW w \in Workers, FinishTurn(w) PROVE TypeOK'
    BY <1>43 DEF FinishTurn
  <1>44. ASSUME NEW w \in Workers, UnlinkMessage(w) PROVE TypeOK'
    <2>1. inbox' \subseteq Messages /\ hand' \in [Workers -> Messages \cup {NoMessage}]
      BY <1>44 DEF UnlinkMessage
    <2> QED
      BY <1>44, <2>1 DEF UnlinkMessage
  <1>45. ASSUME NEW w \in Workers, Ask(w) PROVE TypeOK'
    <2>1. PICK readable \in BOOLEAN : request' = [owner |-> w, readable |-> readable]
      BY <1>45 DEF Ask
    <2>2. request' \in [owner : Workers \cup {NoProcess}, readable : BOOLEAN]
      BY <2>1
    <2> QED
      BY <1>45, <2>2 DEF Ask
  <1>46. ASSUME NEW w \in Workers, SeeResponse(w) PROVE TypeOK'
    BY <1>46 DEF SeeResponse
  <1>47. ASSUME NEW w \in Workers, EndPrompt(w) PROVE TypeOK'
    BY <1>47 DEF EndPrompt
  <1>48. ASSUME NEW w \in Workers, ProcessEnds(w) PROVE TypeOK'
    BY <1>48 DEF ProcessEnds
  <1>49. ASSUME NEW w \in Workers, WorkerKilled(w) PROVE TypeOK'
    BY <1>49 DEF WorkerKilled
  <1>50. ASSUME NEW c \in Clients, Crash(c) PROVE TypeOK'
    BY <1>50 DEF Crash
  <1>51. CASE Decide
    BY <1>51 DEF Decide
  <1>52. CASE ForeignTurn
    BY <1>52 DEF ForeignTurn
  <1>53. CASE ForeignTurnEnds
    BY <1>53 DEF ForeignTurnEnds
  <1>54. CASE UNCHANGED vars
    BY <1>54 DEF vars
  <1> HIDE DEF TypeOK
  <1>55. ASSUME NEW c \in Clients, Launch(c) PROVE TypeOK'
    BY <1>55, <1>1, <1>2, <1>3, <1>4, <1>5 DEF Launch
  <1>56. ASSUME NEW c \in Clients, Transition(c) PROVE TypeOK'
    BY <1>56, <1>6, <1>7, <1>8, <1>9, <1>10, <1>11, <1>12, <1>13, <1>14, <1>15, <1>16, <1>17,
       <1>18, <1>19, <1>20, <1>21, <1>22, <1>23, <1>24, <1>25, <1>26, <1>27, <1>28
    DEF Transition
  <1>57. ASSUME NEW c \in Clients, Terminal(c) PROVE TypeOK'
    BY <1>57, <1>29, <1>30, <1>31, <1>32, <1>33, <1>34, <1>35 DEF Terminal
  <1>58. ASSUME NEW w \in Workers, Worker(w) PROVE TypeOK'
    BY <1>58, <1>38, <1>39, <1>40, <1>41, <1>42, <1>43, <1>44, <1>45, <1>46, <1>47, <1>48
    DEF Worker
  <1> QED
    BY <1>36, <1>37, <1>49, <1>50, <1>51, <1>52, <1>53, <1>54, <1>55, <1>56, <1>57, <1>58 DEF Next, Client

LEMMA LockNext == TypeOK /\ LockDiscipline /\ [Next]_vars => LockDiscipline'
  <1> SUFFICES ASSUME TypeOK, LockDiscipline, [Next]_vars PROVE LockDiscipline'
    OBVIOUS
  <1> USE ProcessAssumption DEF TypeOK, LockDiscipline, LockedPoints, Go, Goto, Return, Unlock
  <1>1. ASSUME NEW c \in Clients, Launch(c) PROVE LockDiscipline'
    BY <1>1 DEF Launch, LaunchPrepare, LaunchSpawn, LaunchSpawnFails, LaunchRecord,
                LaunchRecordFails
  <1>2. ASSUME NEW c \in Clients, Transition(c) PROVE LockDiscipline'
    BY <1>2 DEF Transition, Candidate, Enter, Refuse, SendQueued, SendRespawns, Condemn,
                RespawnInactive, Terminate, DropRequests, MarkStopped, Refill, RefillFails,
                ClearRequests, BlankExit, UnlinkStopped, Spawn, SpawnFails, WriteRecord,
                WriteRecordFails, RestoreExit, RestoreStopped, RemoveMetadata, RemoveRecord
  <1>3. ASSUME NEW c \in Clients, Terminal(c) \/ List(c) \/ Reap(c) PROVE LockDiscipline'
    BY <1>3 DEF Terminal, Attach, Activate, ActivateFails, TerminalTurn, TerminalTurnEnds,
                Leave, Detach, List, Reap
  <1>4. ASSUME NEW w \in Workers, Worker(w) \/ WorkerKilled(w) PROVE LockDiscipline'
    BY <1>4 DEF Worker, TakeMessage, WorkerDone, BoundaryFails, StartTurn, TurnBusy,
                FinishTurn, UnlinkMessage, Ask, SeeResponse, EndPrompt, ProcessEnds,
                WorkerKilled, clientVars
  <1>5. ASSUME NEW c \in Clients, Crash(c) PROVE LockDiscipline'
    BY <1>5 DEF Crash
  <1>6. CASE Decide \/ ForeignTurn \/ ForeignTurnEnds \/ UNCHANGED vars
    BY <1>6 DEF Decide, ForeignTurn, ForeignTurnEnds, vars, clientVars
  <1> QED
    BY <1>1, <1>2, <1>3, <1>4, <1>5, <1>6 DEF Next, Client

LEMMA RoomNext == BaseInv /\ [Next]_vars => RoomKept'
  <1> SUFFICES ASSUME BaseInv, [Next]_vars, NEW d \in Clients
               PROVE  /\ pc'[d] = "refill" => Respawning(d)'
                      /\ pc'[d] \in {"kill", "drop"} => Respawning(d)' \/ call'[d].op = "stop"
                      /\ /\ pc'[d] \in {"enter", "kill", "drop", "refill"}
                         /\ call'[d].op = "send" \/ Respawning(d)'
                         => CanSend'
    BY DEF RoomKept
  <1> DEFINE Goal == /\ pc'[d] = "refill" => Respawning(d)'
                     /\ pc'[d] \in {"kill", "drop"} => Respawning(d)' \/ call'[d].op = "stop"
                     /\ /\ pc'[d] \in {"enter", "kill", "drop", "refill"}
                        /\ call'[d].op = "send" \/ Respawning(d)'
                        => CanSend'
  <1> USE DEF BaseInv, TypeOK, LockDiscipline, RoomKept, Respawning, Call, CanSend, Go, Goto,
              Return, Unlock, mail
  <1>1. ASSUME NEW c \in Clients, Launch(c) PROVE Goal
    BY <1>1 DEF Launch, LaunchPrepare, LaunchSpawn, LaunchSpawnFails, LaunchRecord,
                LaunchRecordFails, NoCall
  <1>2. ASSUME NEW c \in Clients, Transition(c) PROVE Goal
    <2>1. CASE SendQueued(c) \/ SendRespawns(c)
      BY <2>1 DEF SendQueued, SendRespawns, NoCall, LockedPoints
    <2>2. CASE Refill(c)
      BY <2>2 DEF Refill, LockedPoints
    <2>3. CASE \E op \in Operations : Enter(c, op)
      BY <2>3 DEF Enter
    <2>4. CASE Refuse(c) \/ Condemn(c) \/ RespawnInactive(c) \/ Terminate(c) \/ DropRequests(c)
      BY <2>4 DEF Refuse, Condemn, RespawnInactive, Terminate, DropRequests, NoCall
    <2>5. CASE \/ Candidate(c) \/ MarkStopped(c) \/ RefillFails(c) \/ ClearRequests(c)
               \/ BlankExit(c) \/ UnlinkStopped(c) \/ Spawn(c) \/ SpawnFails(c)
               \/ WriteRecord(c) \/ WriteRecordFails(c) \/ RestoreExit(c) \/ RestoreStopped(c)
               \/ RemoveMetadata(c) \/ RemoveRecord(c)
      BY <2>5 DEF Candidate, MarkStopped, RefillFails, ClearRequests, BlankExit,
                  UnlinkStopped, Spawn, SpawnFails, WriteRecord, WriteRecordFails,
                  RestoreExit, RestoreStopped, RemoveMetadata, RemoveRecord, NoCall
    <2> QED
      BY <1>2, <2>1, <2>2, <2>3, <2>4, <2>5 DEF Transition
  <1>3. ASSUME NEW c \in Clients, Terminal(c) \/ List(c) \/ Reap(c) PROVE Goal
    BY <1>3 DEF Terminal, Attach, Activate, ActivateFails, TerminalTurn, TerminalTurnEnds,
                Leave, Detach, List, Reap, NoCall
  <1>4. ASSUME NEW w \in Workers, Worker(w) \/ WorkerKilled(w) PROVE Goal
    BY <1>4 DEF Worker, TakeMessage, WorkerDone, BoundaryFails, StartTurn, TurnBusy,
                FinishTurn, UnlinkMessage, Ask, SeeResponse, EndPrompt, ProcessEnds,
                WorkerKilled, clientVars
  <1>5. ASSUME NEW c \in Clients, Crash(c) PROVE Goal
    BY <1>5 DEF Crash, NoCall
  <1>6. CASE Decide \/ ForeignTurn \/ ForeignTurnEnds \/ UNCHANGED vars
    BY <1>6 DEF Decide, ForeignTurn, ForeignTurnEnds, vars, clientVars
  <1> QED
    BY <1>1, <1>2, <1>3, <1>4, <1>5, <1>6 DEF Next, Client

\* Every variable keeps its type and the transition lock has one holder, the
\* client inside an operation, whatever clients, workers and the environment do.
THEOREM BaseCorrect == Spec => []BaseInv
  <1>1. Init => BaseInv
    <2> SUFFICES ASSUME Init PROVE BaseInv
      OBVIOUS
    <2>1. LockDiscipline /\ RoomKept
      BY ProcessAssumption DEF Init, LockDiscipline, RoomKept, LockedPoints
    <2> QED
      BY <2>1, TypeInit DEF BaseInv
  <1>2. BaseInv /\ [Next]_vars => BaseInv'
    BY TypeNext, LockNext, RoomNext DEF BaseInv
  <1> QED
    BY <1>1, <1>2, PTL DEF Spec

\* Every variable keeps its type: in particular the record never names anything
\* but a worker process, and no operation enqueues beyond its bound.
THEOREM TypeCorrect == Spec => []TypeOK
  <1>1. BaseInv => TypeOK
    BY DEF BaseInv
  <1> QED
    BY <1>1, BaseCorrect, PTL

-----------------------------------------------------------------------------
(* One turn of the session at a time. *)

\* Whoever runs a turn holds the session's turn lock.
TurnLockHeld ==
    /\ \A w \in Workers : state[w] \in {"turn", "asking", "answered"} => turnLock = w
    /\ \A c \in Clients : pc[c] = "turn" => turnLock = c

LEMMA TurnLockNext == TypeOK /\ TurnLockHeld /\ [Next]_vars => TurnLockHeld'
  <1> SUFFICES ASSUME TypeOK, TurnLockHeld, [Next]_vars PROVE TurnLockHeld'
    OBVIOUS
  <1> USE ProcessAssumption DEF TypeOK, TurnLockHeld, Go, Goto, Return, Unlock, Move, Kill,
              Start, Fresh, Alive, workerVars
  <1>1. ASSUME NEW c \in Clients, Launch(c) PROVE TurnLockHeld'
    BY <1>1 DEF Launch, LaunchPrepare, LaunchSpawn, LaunchSpawnFails, LaunchRecord,
                LaunchRecordFails
  <1>2. ASSUME NEW c \in Clients, Transition(c) PROVE TurnLockHeld'
    BY <1>2 DEF Transition, Candidate, Enter, Refuse, SendQueued, SendRespawns, Condemn,
                RespawnInactive, Terminate, DropRequests, MarkStopped, Refill, RefillFails,
                ClearRequests, BlankExit, UnlinkStopped, Spawn, SpawnFails, WriteRecord,
                WriteRecordFails, RestoreExit, RestoreStopped, RemoveMetadata, RemoveRecord
  <1>3. ASSUME NEW c \in Clients, Terminal(c) \/ List(c) \/ Reap(c) PROVE TurnLockHeld'
    BY <1>3 DEF Terminal, Attach, Activate, ActivateFails, TerminalTurn, TerminalTurnEnds,
                Leave, Detach, List, Reap
  <1>4. ASSUME NEW w \in Workers, Worker(w) \/ WorkerKilled(w) PROVE TurnLockHeld'
    <2>1. CASE TakeMessage(w) \/ WorkerDone(w) \/ BoundaryFails(w) \/ UnlinkMessage(w)
               \/ ProcessEnds(w) \/ TurnBusy(w)
      BY <2>1 DEF TakeMessage, WorkerDone, BoundaryFails, UnlinkMessage, ProcessEnds, TurnBusy,
                  clientVars
    <2>2. CASE StartTurn(w) \/ FinishTurn(w)
      BY <2>2 DEF StartTurn, FinishTurn, clientVars
    <2>3. CASE Ask(w) \/ SeeResponse(w) \/ EndPrompt(w)
      BY <2>3 DEF Ask, SeeResponse, EndPrompt, clientVars
    <2>4. CASE WorkerKilled(w)
      BY <2>4 DEF WorkerKilled, clientVars
    <2> QED
      BY <1>4, <2>1, <2>2, <2>3, <2>4 DEF Worker
  <1>5. ASSUME NEW c \in Clients, Crash(c) PROVE TurnLockHeld'
    BY <1>5 DEF Crash
  <1>6. CASE Decide \/ ForeignTurn \/ ForeignTurnEnds \/ UNCHANGED vars
    BY <1>6 DEF Decide, ForeignTurn, ForeignTurnEnds, vars, clientVars
  <1> QED
    BY <1>1, <1>2, <1>3, <1>4, <1>5, <1>6 DEF Next, Client

\* Two processes never run a turn of the session at the same time: no matter where
\* clients die, which workers the supervisor loses track of and who else uses the
\* session, session_turn_lock keeps the turns apart.
THEOREM TurnsExclude == Spec => []TurnExclusive
  <1>1. Init => TurnLockHeld
    BY DEF Init, TurnLockHeld
  <1>2. TypeOK /\ TurnLockHeld /\ [Next]_vars => TurnLockHeld'
    BY TurnLockNext
  <1>3. TurnLockHeld => TurnExclusive
    <2>1. TurnLockHeld => \A p \in Workers \cup Clients \cup {Foreign} : RunsTurn(p) => turnLock = p
      BY DEF TurnLockHeld, RunsTurn
    <2> QED
      BY <2>1 DEF TurnExclusive
  <1> QED
    BY <1>1, <1>2, <1>3, TypeCorrect, PTL DEF Spec

-----------------------------------------------------------------------------
\* The inductive invariant behind the worker properties, part by part.

\* What an operation read of the agent on entry still holds while it is locked.
EntryView ==
    \A c \in Clients : pc[c] \in LockedPoints =>
        /\ call[c].status # "not-found" => record \in Workers
        /\ call[c].status # "approval-error"
        /\ pc[c] # "enter" => call[c].status \notin LeaseStatuses \cup {"not-found"}

\* The agent is launched once: nothing is recorded before its worker is started.
LaunchOnce ==
    /\ record \in Workers => state[record] # "none"
    /\ (\A w \in Workers : state[w] = "none") => ~stopped
    /\ \A c \in Clients : pc[c] = "launchSpawn" =>
           /\ \A w \in Workers : state[w] = "none"
           /\ config /\ exitMark = "blank"
    /\ \A c \in Clients : pc[c] = "launchRecord" => record = NoProcess
    /\ \A c, d \in Clients : {pc[c], pc[d]} \subseteq {"launchSpawn", "launchRecord"} => c = d

\* A worker somebody knows of: the recorded one, or one about to be recorded.
Named(w) == w = record \/ \E c \in Clients : pc[c] \in SpawnWindow /\ target[c] = w

WorkersNamed ==
    /\ \A w \in Workers : Working(w) => Named(w)
    /\ \A c \in Clients : pc[c] \in SpawnWindow =>
           target[c] \in Workers /\ state[target[c]] # "none"

\* Where an operation has made sure that the recorded worker works no more.
QuietPoints == LockedPoints \ {"enter", "kill"}

RecordQuiet ==
    \A c \in Clients :
        \/ pc[c] \in QuietPoints
        \/ pc[c] = "enter" /\ call[c].status \in {"stopped", "completed", "failed", "lost"}
        => ~Working(record)

\* The preparation of a respawn, up to the write of the record.
Prepared ==
    \A c \in Clients :
        /\ pc[c] \in {"clear", "blank", "unstop", "spawn", "record"} => config
        /\ pc[c] \in {"blank", "unstop", "spawn", "record"} => request = NoRequest
        /\ pc[c] \in {"unstop", "spawn", "record"} => exitMark = "blank"
        /\ pc[c] \in {"spawn", "record"} => ~stopped
        /\ pc[c] = "record" => state[target[c]] \in {"boundary", "dead"}
        /\ pc[c] = "erase" => request = NoRequest

\* The markers never lie.
MarkersHonest ==
    \/ exitMark \in {"ok", "error"} \/ stopped \/ ~config
    => \A w \in Workers : ~Working(w)

\* A request belongs to the worker somebody knows of.
RequestOwned ==
    /\ request.readable
    /\ request # NoRequest =>
         /\ request.owner \in Workers
         /\ state[request.owner] \in {"asking", "answered", "dead"}
         /\ \/ request.owner = record
            \/ \E c \in Clients : pc[c] = "launchRecord" /\ target[c] = request.owner

WorkerInv == /\ BaseInv /\ EntryView /\ LaunchOnce /\ WorkersNamed
             /\ RecordQuiet /\ Prepared /\ MarkersHonest /\ RequestOwned

\* What the worker theorems assume of the environment: no client dies between
\* starting a worker and recording it, and every request file can be read back.
Confined == CrashPoints \cap SpawnWindow = {} /\ "unreadable" \notin Faults

LEMMA EntryNext ==
    Confined /\ WorkerInv /\ [Next]_vars => EntryView'
  <1> SUFFICES ASSUME Confined, WorkerInv, [Next]_vars PROVE EntryView'
    OBVIOUS
  <1> USE ProcessAssumption DEF WorkerInv, BaseInv, TypeOK, LockDiscipline, Go, Goto,
        Return, Unlock, Kill, Start, Move, Fresh, Alive, Working, Call, NoCall, files,
        prompt, workerVars, LockedPoints, EntryView, LaunchOnce, WorkersNamed,
        RequestOwned, Status, Statuses, LeaseStatuses, ActiveStatuses, Refused,
        RefusesLease, RefusesActive, RefusesInactive, Respawning
  <1>1. ASSUME NEW c \in Clients, Launch(c) PROVE EntryView'
    BY <1>1 DEF Launch, LaunchPrepare, LaunchSpawn, LaunchSpawnFails, LaunchRecord,
        LaunchRecordFails
  <1>2. ASSUME NEW c \in Clients, Transition(c) PROVE EntryView'
    <2>1. CASE \E op \in Operations : Enter(c, op)
      <3>1. Status # "approval-error" /\ (Status # "not-found" => record \in Workers)
        BY DEF CurrentLease, NoLease
      <3> HIDE DEF Status
      <3> QED
        BY <2>1, <3>1 DEF Enter
    <2>2. CASE Candidate(c) \/ Refuse(c) \/ SendQueued(c) \/ RefillFails(c)
      BY <2>2 DEF Candidate, Refuse, SendQueued, RefillFails
    <2>3. CASE SendRespawns(c) \/ Condemn(c) \/ RespawnInactive(c)
      BY <2>3 DEF SendRespawns, Condemn, RespawnInactive
    <2>4. CASE Terminate(c) \/ DropRequests(c) \/ MarkStopped(c) \/ Refill(c)
      BY <2>4 DEF Terminate, DropRequests, MarkStopped, Refill
    <2>5. CASE ClearRequests(c) \/ BlankExit(c) \/ UnlinkStopped(c)
      BY <2>5 DEF ClearRequests, BlankExit, UnlinkStopped
    <2>6. CASE Spawn(c) \/ SpawnFails(c) \/ WriteRecord(c) \/ WriteRecordFails(c)
      BY <2>6 DEF Spawn, SpawnFails, WriteRecord, WriteRecordFails
    <2>7. CASE RestoreExit(c) \/ RestoreStopped(c)
      BY <2>7 DEF RestoreExit, RestoreStopped
    <2>8. CASE RemoveMetadata(c)
      BY <2>8 DEF RemoveMetadata
    <2>9. CASE RemoveRecord(c)
      BY <2>9 DEF RemoveRecord
    <2> QED
      BY <1>2, <2>1, <2>2, <2>3, <2>4, <2>5, <2>6, <2>7, <2>8, <2>9 DEF Transition
  <1>3. ASSUME NEW c \in Clients, Terminal(c) \/ List(c) \/ Reap(c) PROVE EntryView'
    BY <1>3 DEF Terminal, Attach, Activate, ActivateFails, TerminalTurn,
        TerminalTurnEnds, Leave, Detach, List, Reap
  <1>4. ASSUME NEW w \in Workers, Worker(w) \/ WorkerKilled(w) PROVE EntryView'
    <2>1. CASE TakeMessage(w) \/ WorkerDone(w)
      BY <2>1 DEF TakeMessage, WorkerDone, clientVars
    <2>2. CASE BoundaryFails(w) \/ UnlinkMessage(w) \/ ProcessEnds(w) \/ TurnBusy(w) \/
               StartTurn(w) \/ FinishTurn(w) \/ SeeResponse(w)
      BY <2>2 DEF BoundaryFails, UnlinkMessage, ProcessEnds, TurnBusy, StartTurn,
          FinishTurn, SeeResponse, clientVars
    <2>3. CASE Ask(w)
      BY <2>3 DEF Ask, clientVars
    <2>4. CASE EndPrompt(w)
      BY <2>4 DEF EndPrompt, clientVars
    <2>5. CASE WorkerKilled(w)
      BY <2>5 DEF WorkerKilled, clientVars
    <2> QED
      BY <1>4, <2>1, <2>2, <2>3, <2>4, <2>5 DEF Worker
  <1>5. ASSUME NEW c \in Clients, Crash(c) PROVE EntryView'
    BY <1>5 DEF Crash
  <1>6. CASE Decide \/ ForeignTurn \/ ForeignTurnEnds \/ UNCHANGED vars
    BY <1>6 DEF Decide, ForeignTurn, ForeignTurnEnds, vars, clientVars, workerVars
  <1> QED
    BY <1>1, <1>2, <1>3, <1>4, <1>5, <1>6 DEF Next, Client

LEMMA LaunchNext ==
    Confined /\ WorkerInv /\ [Next]_vars => LaunchOnce'
  <1> SUFFICES ASSUME Confined, WorkerInv, [Next]_vars PROVE LaunchOnce'
    OBVIOUS
  <1> USE ProcessAssumption DEF WorkerInv, BaseInv, TypeOK, LockDiscipline, Go, Goto,
        Return, Unlock, Kill, Start, Move, Fresh, Alive, Working, Call, NoCall, files,
        prompt, workerVars, LockedPoints, EntryView, LaunchOnce, WorkersNamed,
        SpawnWindow, Prepared, Refused, RefusesLease
  <1>1. ASSUME NEW c \in Clients, Launch(c) PROVE LaunchOnce'
    <2>1. CASE LaunchPrepare(c)
      BY <2>1 DEF LaunchPrepare
    <2>2. CASE LaunchSpawn(c)
      BY <2>2 DEF LaunchSpawn
    <2>3. CASE LaunchSpawnFails(c)
      BY <2>3 DEF LaunchSpawnFails
    <2>4. CASE LaunchRecord(c)
      BY <2>4 DEF LaunchRecord
    <2>5. CASE LaunchRecordFails(c)
      BY <2>5 DEF LaunchRecordFails
    <2> QED
      BY <1>1, <2>1, <2>2, <2>3, <2>4, <2>5 DEF Launch
  <1>2. ASSUME NEW c \in Clients, Transition(c) PROVE LaunchOnce'
    <2>1. CASE (\E op \in Operations : Enter(c, op))
      BY <2>1 DEF Enter
    <2>2. CASE Candidate(c) \/ Refuse(c) \/ SendQueued(c) \/ RefillFails(c)
      BY <2>2 DEF Candidate, Refuse, SendQueued, RefillFails
    <2>3. CASE SendRespawns(c) \/ Condemn(c) \/ RespawnInactive(c)
      BY <2>3 DEF SendRespawns, Condemn, RespawnInactive
    <2>4. CASE Terminate(c) \/ DropRequests(c) \/ MarkStopped(c) \/ Refill(c)
      BY <2>4 DEF Terminate, DropRequests, MarkStopped, Refill
    <2>5. CASE ClearRequests(c) \/ BlankExit(c) \/ UnlinkStopped(c)
      BY <2>5 DEF ClearRequests, BlankExit, UnlinkStopped
    <2>6. CASE Spawn(c) \/ SpawnFails(c) \/ WriteRecord(c) \/ WriteRecordFails(c)
      BY <2>6 DEF Spawn, SpawnFails, WriteRecord, WriteRecordFails
    <2>7. CASE RestoreExit(c) \/ RestoreStopped(c)
      BY <2>7 DEF RestoreExit, RestoreStopped
    <2>8. CASE RemoveMetadata(c)
      BY <2>8 DEF RemoveMetadata
    <2>9. CASE RemoveRecord(c)
      BY <2>9 DEF RemoveRecord
    <2> QED
      BY <1>2, <2>1, <2>2, <2>3, <2>4, <2>5, <2>6, <2>7, <2>8, <2>9 DEF Transition
  <1>3. ASSUME NEW c \in Clients, Terminal(c) \/ List(c) \/ Reap(c) PROVE LaunchOnce'
    BY <1>3 DEF Terminal, Attach, Activate, ActivateFails, TerminalTurn,
        TerminalTurnEnds, Leave, Detach, List, Reap
  <1>4. ASSUME NEW w \in Workers, Worker(w) \/ WorkerKilled(w) PROVE LaunchOnce'
    <2>1. CASE TakeMessage(w) \/ WorkerDone(w)
      BY <2>1 DEF TakeMessage, WorkerDone, clientVars
    <2>2. CASE BoundaryFails(w) \/ UnlinkMessage(w) \/ ProcessEnds(w) \/ TurnBusy(w) \/
               StartTurn(w) \/ FinishTurn(w) \/ SeeResponse(w)
      BY <2>2 DEF BoundaryFails, UnlinkMessage, ProcessEnds, TurnBusy, StartTurn,
          FinishTurn, SeeResponse, clientVars
    <2>3. CASE Ask(w)
      BY <2>3 DEF Ask, clientVars
    <2>4. CASE EndPrompt(w)
      BY <2>4 DEF EndPrompt, clientVars
    <2>5. CASE WorkerKilled(w)
      BY <2>5 DEF WorkerKilled, clientVars
    <2> QED
      BY <1>4, <2>1, <2>2, <2>3, <2>4, <2>5 DEF Worker
  <1>5. ASSUME NEW c \in Clients, Crash(c) PROVE LaunchOnce'
    BY <1>5 DEF Crash
  <1>6. CASE Decide \/ ForeignTurn \/ ForeignTurnEnds \/ UNCHANGED vars
    BY <1>6 DEF Decide, ForeignTurn, ForeignTurnEnds, vars, clientVars, workerVars
  <1> QED
    BY <1>1, <1>2, <1>3, <1>4, <1>5, <1>6 DEF Next, Client

LEMMA NamedNext ==
    Confined /\ WorkerInv /\ [Next]_vars => WorkersNamed'
  <1> SUFFICES ASSUME Confined, WorkerInv, [Next]_vars PROVE WorkersNamed'
    OBVIOUS
  <1> USE ProcessAssumption DEF WorkerInv, BaseInv, TypeOK, LockDiscipline, Go, Goto,
        Return, Unlock, Kill, Start, Move, Fresh, Alive, Working, Call, NoCall, files,
        prompt, workerVars, LockedPoints, EntryView, LaunchOnce, WorkersNamed, Named,
        SpawnWindow, RecordQuiet, QuietPoints, Confined
  <1>1. ASSUME NEW c \in Clients, Launch(c) PROVE WorkersNamed'
    <2>1. CASE LaunchPrepare(c)
      BY <2>1 DEF LaunchPrepare
    <2>2. CASE LaunchSpawn(c)
      BY <2>2 DEF LaunchSpawn
    <2>3. CASE LaunchSpawnFails(c)
      BY <2>3 DEF LaunchSpawnFails
    <2>4. CASE LaunchRecord(c)
      BY <2>4 DEF LaunchRecord
    <2>5. CASE LaunchRecordFails(c)
      BY <2>5 DEF LaunchRecordFails
    <2> QED
      BY <1>1, <2>1, <2>2, <2>3, <2>4, <2>5 DEF Launch
  <1>2. ASSUME NEW c \in Clients, Transition(c) PROVE WorkersNamed'
    <2>1. CASE (\E op \in Operations : Enter(c, op))
      BY <2>1 DEF Enter
    <2>2. CASE Candidate(c) \/ Refuse(c) \/ SendQueued(c) \/ RefillFails(c)
      BY <2>2 DEF Candidate, Refuse, SendQueued, RefillFails
    <2>3. CASE SendRespawns(c) \/ Condemn(c) \/ RespawnInactive(c)
      BY <2>3 DEF SendRespawns, Condemn, RespawnInactive
    <2>4. CASE Terminate(c) \/ DropRequests(c) \/ MarkStopped(c) \/ Refill(c)
      BY <2>4 DEF Terminate, DropRequests, MarkStopped, Refill
    <2>5. CASE ClearRequests(c) \/ BlankExit(c) \/ UnlinkStopped(c)
      BY <2>5 DEF ClearRequests, BlankExit, UnlinkStopped
    <2>6. CASE Spawn(c) \/ SpawnFails(c) \/ WriteRecord(c) \/ WriteRecordFails(c)
      BY <2>6 DEF Spawn, SpawnFails, WriteRecord, WriteRecordFails
    <2>7. CASE RestoreExit(c) \/ RestoreStopped(c)
      BY <2>7 DEF RestoreExit, RestoreStopped
    <2>8. CASE RemoveMetadata(c)
      BY <2>8 DEF RemoveMetadata
    <2>9. CASE RemoveRecord(c)
      BY <2>9 DEF RemoveRecord
    <2> QED
      BY <1>2, <2>1, <2>2, <2>3, <2>4, <2>5, <2>6, <2>7, <2>8, <2>9 DEF Transition
  <1>3. ASSUME NEW c \in Clients, Terminal(c) \/ List(c) \/ Reap(c) PROVE WorkersNamed'
    BY <1>3 DEF Terminal, Attach, Activate, ActivateFails, TerminalTurn,
        TerminalTurnEnds, Leave, Detach, List, Reap
  <1>4. ASSUME NEW w \in Workers, Worker(w) \/ WorkerKilled(w) PROVE WorkersNamed'
    <2>1. CASE TakeMessage(w) \/ WorkerDone(w)
      BY <2>1 DEF TakeMessage, WorkerDone, clientVars
    <2>2. CASE BoundaryFails(w) \/ UnlinkMessage(w) \/ ProcessEnds(w) \/ TurnBusy(w) \/
               StartTurn(w) \/ FinishTurn(w) \/ SeeResponse(w)
      BY <2>2 DEF BoundaryFails, UnlinkMessage, ProcessEnds, TurnBusy, StartTurn,
          FinishTurn, SeeResponse, clientVars
    <2>3. CASE Ask(w)
      BY <2>3 DEF Ask, clientVars
    <2>4. CASE EndPrompt(w)
      BY <2>4 DEF EndPrompt, clientVars
    <2>5. CASE WorkerKilled(w)
      BY <2>5 DEF WorkerKilled, clientVars
    <2> QED
      BY <1>4, <2>1, <2>2, <2>3, <2>4, <2>5 DEF Worker
  <1>5. ASSUME NEW c \in Clients, Crash(c) PROVE WorkersNamed'
    BY <1>5 DEF Crash
  <1>6. CASE Decide \/ ForeignTurn \/ ForeignTurnEnds \/ UNCHANGED vars
    BY <1>6 DEF Decide, ForeignTurn, ForeignTurnEnds, vars, clientVars, workerVars
  <1> QED
    BY <1>1, <1>2, <1>3, <1>4, <1>5, <1>6 DEF Next, Client

LEMMA QuietNext ==
    Confined /\ WorkerInv /\ [Next]_vars => RecordQuiet'
  <1> SUFFICES ASSUME Confined, WorkerInv, [Next]_vars PROVE RecordQuiet'
    OBVIOUS
  <1> USE ProcessAssumption DEF WorkerInv, BaseInv, TypeOK, LockDiscipline, Go, Goto,
        Return, Unlock, Kill, Start, Move, Fresh, Alive, Working, Call, NoCall, files,
        prompt, workerVars, LockedPoints, EntryView, LaunchOnce, WorkersNamed,
        RecordQuiet, QuietPoints, MarkersHonest, RequestOwned, Prepared, Status,
        Statuses, CurrentLease, SpawnWindow, Refused, RefusesLease, RefusesActive,
        RefusesInactive, ActiveStatuses, LeaseStatuses, WorkerTakesIt, Respawning
  <1>1. ASSUME NEW c \in Clients, Launch(c) PROVE RecordQuiet'
    BY <1>1 DEF Launch, LaunchPrepare, LaunchSpawn, LaunchSpawnFails, LaunchRecord,
        LaunchRecordFails
  <1>2. ASSUME NEW c \in Clients, Transition(c) PROVE RecordQuiet'
    <2>1. CASE (\E op \in Operations : Enter(c, op))
      BY <2>1 DEF Enter
    <2>2. CASE Candidate(c) \/ Refuse(c) \/ SendQueued(c) \/ RefillFails(c)
      BY <2>2 DEF Candidate, Refuse, SendQueued, RefillFails
    <2>3. CASE SendRespawns(c) \/ Condemn(c) \/ RespawnInactive(c)
      BY <2>3 DEF SendRespawns, Condemn, RespawnInactive
    <2>4. CASE Terminate(c) \/ DropRequests(c) \/ MarkStopped(c) \/ Refill(c)
      BY <2>4 DEF Terminate, DropRequests, MarkStopped, Refill
    <2>5. CASE ClearRequests(c) \/ BlankExit(c) \/ UnlinkStopped(c)
      BY <2>5 DEF ClearRequests, BlankExit, UnlinkStopped
    <2>6. CASE Spawn(c) \/ SpawnFails(c) \/ WriteRecord(c) \/ WriteRecordFails(c)
      BY <2>6 DEF Spawn, SpawnFails, WriteRecord, WriteRecordFails
    <2>7. CASE RestoreExit(c) \/ RestoreStopped(c)
      BY <2>7 DEF RestoreExit, RestoreStopped
    <2>8. CASE RemoveMetadata(c)
      BY <2>8 DEF RemoveMetadata
    <2>9. CASE RemoveRecord(c)
      BY <2>9 DEF RemoveRecord
    <2> QED
      BY <1>2, <2>1, <2>2, <2>3, <2>4, <2>5, <2>6, <2>7, <2>8, <2>9 DEF Transition
  <1>3. ASSUME NEW c \in Clients, Terminal(c) \/ List(c) \/ Reap(c) PROVE RecordQuiet'
    BY <1>3 DEF Terminal, Attach, Activate, ActivateFails, TerminalTurn,
        TerminalTurnEnds, Leave, Detach, List, Reap
  <1>4. ASSUME NEW w \in Workers, Worker(w) \/ WorkerKilled(w) PROVE RecordQuiet'
    <2>1. CASE TakeMessage(w) \/ WorkerDone(w)
      BY <2>1 DEF TakeMessage, WorkerDone, clientVars
    <2>2. CASE BoundaryFails(w) \/ UnlinkMessage(w) \/ ProcessEnds(w) \/ TurnBusy(w) \/
               StartTurn(w) \/ FinishTurn(w) \/ SeeResponse(w)
      BY <2>2 DEF BoundaryFails, UnlinkMessage, ProcessEnds, TurnBusy, StartTurn,
          FinishTurn, SeeResponse, clientVars
    <2>3. CASE Ask(w)
      BY <2>3 DEF Ask, clientVars
    <2>4. CASE EndPrompt(w)
      BY <2>4 DEF EndPrompt, clientVars
    <2>5. CASE WorkerKilled(w)
      BY <2>5 DEF WorkerKilled, clientVars
    <2> QED
      BY <1>4, <2>1, <2>2, <2>3, <2>4, <2>5 DEF Worker
  <1>5. ASSUME NEW c \in Clients, Crash(c) PROVE RecordQuiet'
    BY <1>5 DEF Crash
  <1>6. CASE Decide \/ ForeignTurn \/ ForeignTurnEnds \/ UNCHANGED vars
    BY <1>6 DEF Decide, ForeignTurn, ForeignTurnEnds, vars, clientVars, workerVars
  <1> QED
    BY <1>1, <1>2, <1>3, <1>4, <1>5, <1>6 DEF Next, Client

LEMMA PreparedNext ==
    Confined /\ WorkerInv /\ [Next]_vars => Prepared'
  <1> SUFFICES ASSUME Confined, WorkerInv, [Next]_vars PROVE Prepared'
    OBVIOUS
  <1> USE ProcessAssumption DEF WorkerInv, BaseInv, TypeOK, LockDiscipline, Go, Goto,
        Return, Unlock, Kill, Start, Move, Fresh, Alive, Working, Call, NoCall, files,
        prompt, workerVars, LockedPoints, EntryView, LaunchOnce, WorkersNamed, Named,
        SpawnWindow, RecordQuiet, QuietPoints, Prepared, Refused, RemoveRequests,
        NoRequest
  <1>1. ASSUME NEW c \in Clients, Launch(c) PROVE Prepared'
    BY <1>1 DEF Launch, LaunchPrepare, LaunchSpawn, LaunchSpawnFails, LaunchRecord,
        LaunchRecordFails
  <1>2. ASSUME NEW c \in Clients, Transition(c) PROVE Prepared'
    <2>1. CASE (\E op \in Operations : Enter(c, op))
      BY <2>1 DEF Enter
    <2>2. CASE Candidate(c) \/ Refuse(c) \/ SendQueued(c) \/ RefillFails(c)
      BY <2>2 DEF Candidate, Refuse, SendQueued, RefillFails
    <2>3. CASE SendRespawns(c) \/ Condemn(c) \/ RespawnInactive(c)
      BY <2>3 DEF SendRespawns, Condemn, RespawnInactive
    <2>4. CASE Terminate(c) \/ DropRequests(c) \/ MarkStopped(c) \/ Refill(c)
      BY <2>4 DEF Terminate, DropRequests, MarkStopped, Refill
    <2>5. CASE ClearRequests(c) \/ BlankExit(c) \/ UnlinkStopped(c)
      BY <2>5 DEF ClearRequests, BlankExit, UnlinkStopped
    <2>6. CASE Spawn(c) \/ SpawnFails(c) \/ WriteRecord(c) \/ WriteRecordFails(c)
      BY <2>6 DEF Spawn, SpawnFails, WriteRecord, WriteRecordFails
    <2>7. CASE RestoreExit(c) \/ RestoreStopped(c)
      BY <2>7 DEF RestoreExit, RestoreStopped
    <2>8. CASE RemoveMetadata(c)
      BY <2>8 DEF RemoveMetadata
    <2>9. CASE RemoveRecord(c)
      BY <2>9 DEF RemoveRecord
    <2> QED
      BY <1>2, <2>1, <2>2, <2>3, <2>4, <2>5, <2>6, <2>7, <2>8, <2>9 DEF Transition
  <1>3. ASSUME NEW c \in Clients, Terminal(c) \/ List(c) \/ Reap(c) PROVE Prepared'
    BY <1>3 DEF Terminal, Attach, Activate, ActivateFails, TerminalTurn,
        TerminalTurnEnds, Leave, Detach, List, Reap
  <1>4. ASSUME NEW w \in Workers, Worker(w) \/ WorkerKilled(w) PROVE Prepared'
    <2>1. CASE TakeMessage(w) \/ WorkerDone(w)
      BY <2>1 DEF TakeMessage, WorkerDone, clientVars
    <2>2. CASE BoundaryFails(w) \/ UnlinkMessage(w) \/ ProcessEnds(w) \/ TurnBusy(w) \/
               StartTurn(w) \/ FinishTurn(w) \/ SeeResponse(w)
      BY <2>2 DEF BoundaryFails, UnlinkMessage, ProcessEnds, TurnBusy, StartTurn,
          FinishTurn, SeeResponse, clientVars
    <2>3. CASE Ask(w)
      BY <2>3 DEF Ask, clientVars
    <2>4. CASE EndPrompt(w)
      BY <2>4 DEF EndPrompt, clientVars
    <2>5. CASE WorkerKilled(w)
      BY <2>5 DEF WorkerKilled, clientVars
    <2> QED
      BY <1>4, <2>1, <2>2, <2>3, <2>4, <2>5 DEF Worker
  <1>5. ASSUME NEW c \in Clients, Crash(c) PROVE Prepared'
    BY <1>5 DEF Crash
  <1>6. CASE Decide \/ ForeignTurn \/ ForeignTurnEnds \/ UNCHANGED vars
    BY <1>6 DEF Decide, ForeignTurn, ForeignTurnEnds, vars, clientVars, workerVars
  <1> QED
    BY <1>1, <1>2, <1>3, <1>4, <1>5, <1>6 DEF Next, Client

LEMMA MarkersNext ==
    Confined /\ WorkerInv /\ [Next]_vars => MarkersHonest'
  <1> SUFFICES ASSUME Confined, WorkerInv, [Next]_vars PROVE MarkersHonest'
    OBVIOUS
  <1> USE ProcessAssumption DEF WorkerInv, BaseInv, TypeOK, LockDiscipline, Go, Goto,
        Return, Unlock, Kill, Start, Move, Fresh, Alive, Working, Call, NoCall, files,
        prompt, workerVars, LockedPoints, EntryView, LaunchOnce, WorkersNamed, Named,
        SpawnWindow, RecordQuiet, QuietPoints, Prepared, MarkersHonest, Statuses,
        Refused, RefusesLease, RefusesActive, RefusesInactive, ActiveStatuses,
        LeaseStatuses
  <1>1. ASSUME NEW c \in Clients, Launch(c) PROVE MarkersHonest'
    BY <1>1 DEF Launch, LaunchPrepare, LaunchSpawn, LaunchSpawnFails, LaunchRecord,
        LaunchRecordFails
  <1>2. ASSUME NEW c \in Clients, Transition(c) PROVE MarkersHonest'
    <2>1. CASE (\E op \in Operations : Enter(c, op))
      BY <2>1 DEF Enter
    <2>2. CASE Candidate(c) \/ Refuse(c) \/ SendQueued(c) \/ RefillFails(c)
      BY <2>2 DEF Candidate, Refuse, SendQueued, RefillFails
    <2>3. CASE SendRespawns(c) \/ Condemn(c) \/ RespawnInactive(c)
      BY <2>3 DEF SendRespawns, Condemn, RespawnInactive
    <2>4. CASE Terminate(c) \/ DropRequests(c) \/ MarkStopped(c) \/ Refill(c)
      BY <2>4 DEF Terminate, DropRequests, MarkStopped, Refill
    <2>5. CASE ClearRequests(c) \/ BlankExit(c) \/ UnlinkStopped(c)
      BY <2>5 DEF ClearRequests, BlankExit, UnlinkStopped
    <2>6. CASE Spawn(c) \/ SpawnFails(c) \/ WriteRecord(c) \/ WriteRecordFails(c)
      BY <2>6 DEF Spawn, SpawnFails, WriteRecord, WriteRecordFails
    <2>7. CASE RestoreExit(c) \/ RestoreStopped(c)
      BY <2>7 DEF RestoreExit, RestoreStopped
    <2>8. CASE RemoveMetadata(c)
      BY <2>8 DEF RemoveMetadata
    <2>9. CASE RemoveRecord(c)
      BY <2>9 DEF RemoveRecord
    <2> QED
      BY <1>2, <2>1, <2>2, <2>3, <2>4, <2>5, <2>6, <2>7, <2>8, <2>9 DEF Transition
  <1>3. ASSUME NEW c \in Clients, Terminal(c) \/ List(c) \/ Reap(c) PROVE MarkersHonest'
    BY <1>3 DEF Terminal, Attach, Activate, ActivateFails, TerminalTurn,
        TerminalTurnEnds, Leave, Detach, List, Reap
  <1>4. ASSUME NEW w \in Workers, Worker(w) \/ WorkerKilled(w) PROVE MarkersHonest'
    <2>1. CASE TakeMessage(w) \/ WorkerDone(w)
      BY <2>1 DEF TakeMessage, WorkerDone, clientVars
    <2>2. CASE BoundaryFails(w) \/ UnlinkMessage(w) \/ ProcessEnds(w) \/ TurnBusy(w) \/
               StartTurn(w) \/ FinishTurn(w) \/ SeeResponse(w)
      BY <2>2 DEF BoundaryFails, UnlinkMessage, ProcessEnds, TurnBusy, StartTurn,
          FinishTurn, SeeResponse, clientVars
    <2>3. CASE Ask(w)
      BY <2>3 DEF Ask, clientVars
    <2>4. CASE EndPrompt(w)
      BY <2>4 DEF EndPrompt, clientVars
    <2>5. CASE WorkerKilled(w)
      BY <2>5 DEF WorkerKilled, clientVars
    <2> QED
      BY <1>4, <2>1, <2>2, <2>3, <2>4, <2>5 DEF Worker
  <1>5. ASSUME NEW c \in Clients, Crash(c) PROVE MarkersHonest'
    BY <1>5 DEF Crash
  <1>6. CASE Decide \/ ForeignTurn \/ ForeignTurnEnds \/ UNCHANGED vars
    BY <1>6 DEF Decide, ForeignTurn, ForeignTurnEnds, vars, clientVars, workerVars
  <1> QED
    BY <1>1, <1>2, <1>3, <1>4, <1>5, <1>6 DEF Next, Client

LEMMA OwnedNext ==
    Confined /\ WorkerInv /\ [Next]_vars => RequestOwned'
  <1> SUFFICES ASSUME Confined, WorkerInv, [Next]_vars PROVE RequestOwned'
    OBVIOUS
  <1> USE ProcessAssumption DEF WorkerInv, BaseInv, TypeOK, LockDiscipline, Go, Goto,
        Return, Unlock, Kill, Start, Move, Fresh, Alive, Working, Call, NoCall, files,
        prompt, workerVars, LockedPoints, EntryView, LaunchOnce, WorkersNamed, Named,
        SpawnWindow, RecordQuiet, QuietPoints, Prepared, RequestOwned, RemoveRequests,
        NoRequest, Confined
  <1>1. ASSUME NEW c \in Clients, Launch(c) PROVE RequestOwned'
    BY <1>1 DEF Launch, LaunchPrepare, LaunchSpawn, LaunchSpawnFails, LaunchRecord,
        LaunchRecordFails
  <1>2. ASSUME NEW c \in Clients, Transition(c) PROVE RequestOwned'
    <2>1. CASE (\E op \in Operations : Enter(c, op))
      BY <2>1 DEF Enter
    <2>2. CASE Candidate(c) \/ Refuse(c) \/ SendQueued(c) \/ RefillFails(c)
      BY <2>2 DEF Candidate, Refuse, SendQueued, RefillFails
    <2>3. CASE SendRespawns(c) \/ Condemn(c) \/ RespawnInactive(c)
      BY <2>3 DEF SendRespawns, Condemn, RespawnInactive
    <2>4. CASE Terminate(c) \/ DropRequests(c) \/ MarkStopped(c) \/ Refill(c)
      BY <2>4 DEF Terminate, DropRequests, MarkStopped, Refill
    <2>5. CASE ClearRequests(c) \/ BlankExit(c) \/ UnlinkStopped(c)
      BY <2>5 DEF ClearRequests, BlankExit, UnlinkStopped
    <2>6. CASE Spawn(c) \/ SpawnFails(c) \/ WriteRecord(c) \/ WriteRecordFails(c)
      BY <2>6 DEF Spawn, SpawnFails, WriteRecord, WriteRecordFails
    <2>7. CASE RestoreExit(c) \/ RestoreStopped(c)
      BY <2>7 DEF RestoreExit, RestoreStopped
    <2>8. CASE RemoveMetadata(c)
      BY <2>8 DEF RemoveMetadata
    <2>9. CASE RemoveRecord(c)
      BY <2>9 DEF RemoveRecord
    <2> QED
      BY <1>2, <2>1, <2>2, <2>3, <2>4, <2>5, <2>6, <2>7, <2>8, <2>9 DEF Transition
  <1>3. ASSUME NEW c \in Clients, Terminal(c) \/ List(c) \/ Reap(c) PROVE RequestOwned'
    BY <1>3 DEF Terminal, Attach, Activate, ActivateFails, TerminalTurn,
        TerminalTurnEnds, Leave, Detach, List, Reap
  <1>4. ASSUME NEW w \in Workers, Worker(w) \/ WorkerKilled(w) PROVE RequestOwned'
    <2>1. CASE TakeMessage(w) \/ WorkerDone(w)
      BY <2>1 DEF TakeMessage, WorkerDone, clientVars
    <2>2. CASE BoundaryFails(w) \/ UnlinkMessage(w) \/ ProcessEnds(w) \/ TurnBusy(w) \/
               StartTurn(w) \/ FinishTurn(w) \/ SeeResponse(w)
      BY <2>2 DEF BoundaryFails, UnlinkMessage, ProcessEnds, TurnBusy, StartTurn,
          FinishTurn, SeeResponse, clientVars
    <2>3. CASE Ask(w)
      BY <2>3 DEF Ask, clientVars
    <2>4. CASE EndPrompt(w)
      <3>1. CASE request.owner = w
        BY <2>4, <3>1 DEF EndPrompt
      <3>2. CASE request.owner # w
        BY <2>4, <3>2 DEF EndPrompt, clientVars
      <3> QED
        BY <3>1, <3>2
    <2>5. CASE WorkerKilled(w)
      BY <2>5 DEF WorkerKilled, clientVars
    <2> QED
      BY <1>4, <2>1, <2>2, <2>3, <2>4, <2>5 DEF Worker
  <1>5. ASSUME NEW c \in Clients, Crash(c) PROVE RequestOwned'
    BY <1>5 DEF Crash
  <1>6. CASE Decide \/ ForeignTurn \/ ForeignTurnEnds \/ UNCHANGED vars
    BY <1>6 DEF Decide, ForeignTurn, ForeignTurnEnds, vars, clientVars, workerVars
  <1> QED
    BY <1>1, <1>2, <1>3, <1>4, <1>5, <1>6 DEF Next, Client

LEMMA WorkerInvInit == Init => WorkerInv
  <1> SUFFICES ASSUME Init PROVE WorkerInv
    OBVIOUS
  <1>1. BaseInv
    <2>1. LockDiscipline /\ RoomKept
      BY ProcessAssumption DEF Init, LockDiscipline, RoomKept, LockedPoints
    <2> QED
      BY <2>1, TypeInit DEF BaseInv
  <1>2. EntryView /\ LaunchOnce /\ WorkersNamed /\ RecordQuiet /\ Prepared
    BY ProcessAssumption DEF Init, EntryView, LaunchOnce, WorkersNamed, Working, RecordQuiet,
       QuietPoints, Prepared, LockedPoints, SpawnWindow
  <1>3. MarkersHonest /\ RequestOwned
    BY DEF Init, MarkersHonest, RequestOwned, NoRequest, Working
  <1> QED
    BY <1>1, <1>2, <1>3 DEF WorkerInv

\* The inductive invariant holds of every behaviour in which no client dies between
\* starting a worker and recording it and no request file is unreadable.
THEOREM WorkerInvariant ==
    ASSUME Confined
    PROVE  Spec => []WorkerInv
  <1>1. WorkerInv /\ [Next]_vars => BaseInv'
    BY TypeNext, LockNext, RoomNext DEF BaseInv, WorkerInv
  <1>2. WorkerInv /\ [Next]_vars => WorkerInv'
    BY <1>1, EntryNext, LaunchNext, NamedNext, QuietNext, PreparedNext, MarkersNext, OwnedNext
       DEF WorkerInv
  <1> QED
    BY <1>2, WorkerInvInit, PTL DEF Spec

\* A worker that works is named by the record or by the one operation that has yet
\* to write the record, which begins when the recorded worker works no more.
LEMMA WorkersCoincide == WorkerInv => OneWorker
  <1> SUFFICES ASSUME WorkerInv, NEW v \in Workers, NEW w \in Workers, Working(v), Working(w)
               PROVE  v = w
    BY DEF OneWorker
  <1>1. Named(v) /\ Named(w)
    BY DEF WorkerInv, WorkersNamed
  <1>2. \A c \in Clients : pc[c] = "record" => record \in Workers /\ ~Working(record)
    BY DEF WorkerInv, EntryView, RecordQuiet, QuietPoints, LockedPoints
  <1>3. \A c, d \in Clients : {pc[c], pc[d]} \subseteq SpawnWindow => c = d
    BY <1>2, ProcessAssumption DEF WorkerInv, BaseInv, LockDiscipline, LockedPoints, LaunchOnce, SpawnWindow
  <1>4. \A c \in Clients : pc[c] = "launchRecord" => record \notin Workers
    BY ProcessAssumption DEF WorkerInv, LaunchOnce
  <1> QED
    BY <1>1, <1>2, <1>3, <1>4 DEF Named, SpawnWindow

\* At most one worker process works for the agent, however sends, respawns, stops,
\* removals and attaches of any number of clients interleave with killed workers,
\* failing spawns, failing record writes and dying clients.
THEOREM OneWorkerAtATime ==
    ASSUME Confined
    PROVE  Spec => []OneWorker
  BY WorkersCoincide, WorkerInvariant, PTL

\* An agent shown as completed or failed has no worker that still works.
THEOREM ExitMarkHonest ==
    ASSUME Confined
    PROVE  Spec => []ExitMeansIdle
  <1>1. WorkerInv => ExitMeansIdle
    BY DEF WorkerInv, MarkersHonest, ExitMeansIdle
  <1> QED
    BY <1>1, WorkerInvariant, PTL

\* A stopped agent has no worker that still works.
THEOREM StoppedMarkHonest ==
    ASSUME Confined
    PROVE  Spec => []StoppedMeansIdle
  <1>1. WorkerInv => StoppedMeansIdle
    BY DEF WorkerInv, MarkersHonest, StoppedMeansIdle
  <1> QED
    BY <1>1, WorkerInvariant, PTL

\* A removed agent, or one whose launch failed, leaves no worker behind.
THEOREM RemovalLeavesNoWorker ==
    ASSUME Confined
    PROVE  Spec => []RemovedMeansIdle
  <1>1. WorkerInv => RemovedMeansIdle
    BY DEF WorkerInv, MarkersHonest, RemovedMeansIdle
  <1> QED
    BY <1>1, WorkerInvariant, PTL

\* An agent shown as "needs-input" has a live prompt of its recorded worker: an
\* answer never goes to a request that a dead predecessor left behind.
THEOREM AnswersReachWorker ==
    ASSUME Confined
    PROVE  Spec => []AnswerReachesWorker
  <1>1. WorkerInv => AnswerReachesWorker
    <2> SUFFICES ASSUME WorkerInv, Status = "needs-input"
                 PROVE  request.owner = record /\ state[record] \in {"asking", "answered"}
      BY DEF AnswerReachesWorker
    <2>1. record # NoProcess /\ Alive(record) /\ request # NoRequest
      BY DEF Status, CurrentLease, LeaseStatuses, NoLease, WorkerInv, BaseInv, TypeOK
    <2> QED
      BY <2>1 DEF WorkerInv, RequestOwned, LaunchOnce, Alive
  <1> QED
    BY <1>1, WorkerInvariant, PTL

=============================================================================
