--------------------------- MODULE SessionOwnerProofs ---------------------------
(***************************************************************************)
(* Theorems about who works on an agent's session and about its messages,  *)
(* for any numbers of clients, workers and messages: terminals and workers *)
(* exclude each other, the supervisor implements SessionOwner, and no      *)
(* accepted message is lost, overtaken or needlessly run again.            *)
(***************************************************************************)
EXTENDS BackgroundAgentProofs

\* What these theorems assume besides Confined: no unlocked listing, whose late
\* unlink takes a lease away from the terminal that has claimed it since.
NoReaper == "list" \notin Commands

-----------------------------------------------------------------------------
(* The lease. *)

\* From the claim of the lease until the terminal leaves the session.
Attending(c) == pc[c] \in {"wait", "interactive", "turn"}

\* A client in a locked operation that has seen the agent without a lease.
SeenFree(c) ==
    pc[c] \in LockedPoints /\ call[c].status \notin LeaseStatuses \cup {"not-found"}

\* A terminal keeps the lease it claimed, on the worker that is still recorded.
LeaseKept ==
    \A c \in Clients : Attending(c) =>
        /\ lease.owner = c
        /\ record \in Workers
        /\ target[c] = record

\* No operation that changes workers, records or leases runs beside it.
LeaseRespected == \A c, d \in Clients : ~(SeenFree(c) /\ Attending(d))

\* It reaches the session after the last worker has gone.
LeaseQuiet == \A c \in Clients : Interactive(c) => \A w \in Workers : ~Working(w)

LeaseInv == /\ \A c \in Clients : pc[c] # "reap"
            /\ LeaseKept
            /\ LeaseRespected
            /\ LeaseQuiet

\* An owner is a worker that somebody knows of, or a terminal.
LEMMA OperatingAlone ==
    ASSUME WorkerInv, LeaseInv, NEW c \in Clients, pc[c] \in QuietPoints \ SpawnWindow
    PROVE  /\ \A w \in Workers : ~Working(w)
           /\ \A d \in Clients : ~Attending(d) /\ pc[d] \notin {"launchSpawn", "launchRecord"}
  <1>1. SeenFree(c) /\ record \in Workers /\ ~Working(record)
    BY DEF WorkerInv, BaseInv, EntryView, RecordQuiet, QuietPoints, SeenFree, LockedPoints
  <1>2. \A d \in Clients : pc[d] \notin {"launchSpawn", "launchRecord"}
    BY <1>1, ProcessAssumption DEF WorkerInv, LaunchOnce
  <1>3. \A d \in Clients : pc[d] # "record"
    BY DEF WorkerInv, BaseInv, LockDiscipline, QuietPoints, LockedPoints, SpawnWindow
  <1>4. \A w \in Workers : ~Working(w)
    BY <1>1, <1>2, <1>3 DEF WorkerInv, WorkersNamed, Named, SpawnWindow
  <1> QED
    BY <1>1, <1>2, <1>4 DEF LeaseInv, LeaseRespected

\* While a terminal attends, nobody is about to start or to record a worker.
LEMMA AttendingAlone ==
    ASSUME WorkerInv, LeaseInv, NEW c \in Clients, Attending(c)
    PROVE  \A d \in Clients : /\ pc[d] \notin {"launchSpawn", "launchRecord"}
                              /\ pc[d] \notin LockedPoints \ {"enter"}
  <1>1. record \in Workers /\ state[record] # "none" /\ record # NoProcess
    BY ProcessAssumption DEF LeaseInv, LeaseKept, WorkerInv, LaunchOnce
  <1>2. \A d \in Clients : pc[d] \notin {"launchSpawn", "launchRecord"}
    BY <1>1 DEF WorkerInv, LaunchOnce
  <1>3. \A d \in Clients : pc[d] \in LockedPoints \ {"enter"} => SeenFree(d)
    BY DEF WorkerInv, EntryView, SeenFree
  <1> QED
    BY <1>2, <1>3 DEF LeaseInv, LeaseRespected

LEMMA LeaseNext ==
    ASSUME NoReaper, WorkerInv, LeaseInv, [Next]_vars
    PROVE  (\A c \in Clients : pc[c] # "reap")' /\ LeaseKept'
  <1> USE ProcessAssumption DEF WorkerInv, BaseInv, TypeOK, LockDiscipline, Go, Goto,
        Return, Unlock, Kill, Start, Move, CurrentLease, NoLease, LeaseInv, LeaseKept,
        Attending, files, LockedPoints
  <1> DEFINE Goal == (\A c \in Clients : pc[c] # "reap")' /\ LeaseKept'
  <1>0. ASSUME NEW c \in Clients, NEW d \in Clients, Attending(d)
        PROVE  /\ pc[c] \notin {"launchSpawn", "launchRecord"}
               /\ pc[c] \notin LockedPoints \ {"enter"}
               /\ pc[c] = "enter" => ~SeenFree(c)
    BY <1>0, AttendingAlone DEF LeaseRespected
  <1>1. ASSUME NEW c \in Clients, Launch(c) PROVE Goal
    BY <1>0, <1>1 DEF Launch, LaunchPrepare, LaunchSpawn, LaunchSpawnFails, LaunchRecord,
        LaunchRecordFails
  <1>2. ASSUME NEW c \in Clients, Transition(c) PROVE Goal
    <2>1. CASE Candidate(c) \/ (\E op \in Operations : Enter(c, op)) \/ Refuse(c)
      BY <2>1 DEF Candidate, Enter, Refuse
    <2>2. CASE \/ SendQueued(c) \/ SendRespawns(c) \/ Condemn(c) \/ RespawnInactive(c)
      BY <2>2 DEF SendQueued, SendRespawns, Condemn, RespawnInactive
    <2>3. CASE \/ Terminate(c) \/ DropRequests(c) \/ MarkStopped(c) \/ Refill(c) \/ RefillFails(c)
               \/ ClearRequests(c) \/ BlankExit(c) \/ UnlinkStopped(c)
      BY <2>3 DEF Terminate, DropRequests, MarkStopped, Refill, RefillFails, ClearRequests,
          BlankExit, UnlinkStopped
    <2>4. CASE Spawn(c) \/ SpawnFails(c) \/ WriteRecord(c) \/ WriteRecordFails(c)
      BY <1>0, <2>4 DEF Spawn, SpawnFails, WriteRecord, WriteRecordFails
    <2>5. CASE RestoreExit(c) \/ RestoreStopped(c) \/ RemoveRecord(c)
      BY <1>0, <2>5 DEF RestoreExit, RestoreStopped, RemoveRecord
    <2>6. CASE RemoveMetadata(c)
      <3>1. SeenFree(c)
        BY <2>6 DEF RemoveMetadata, Refused, RefusesLease, SeenFree, Call
      <3> QED
        BY <1>0, <2>6, <3>1 DEF RemoveMetadata
    <2> QED
      BY <1>2, <2>1, <2>2, <2>3, <2>4, <2>5, <2>6 DEF Transition
  <1>3. ASSUME NEW c \in Clients, Terminal(c) PROVE Goal
    <2>1. CASE Attach(c)
      <3>1. \A d \in Clients : ~Attending(d)
        BY <2>1 DEF Attach
      <3>2. record \in Workers
        BY <2>1 DEF Attach
      <3> QED
        BY <2>1, <3>1, <3>2 DEF Attach
    <2>2. CASE Activate(c) \/ ActivateFails(c) \/ Detach(c)
      BY <2>2 DEF Activate, ActivateFails, Detach
    <2>3. CASE TerminalTurn(c) \/ TerminalTurnEnds(c) \/ Leave(c)
      BY <2>3 DEF TerminalTurn, TerminalTurnEnds, Leave
    <2> QED
      BY <1>3, <2>1, <2>2, <2>3 DEF Terminal
  <1>4. ASSUME NEW c \in Clients, List(c) \/ Reap(c) \/ Crash(c) PROVE Goal
    BY <1>4 DEF NoReaper, List, Reap, Crash
  <1>5. ASSUME NEW w \in Workers, Worker(w) \/ WorkerKilled(w) PROVE Goal
    BY <1>5 DEF Worker, TakeMessage, WorkerDone, BoundaryFails, StartTurn, TurnBusy,
        FinishTurn, UnlinkMessage, Ask, SeeResponse, EndPrompt, ProcessEnds, WorkerKilled,
        clientVars
  <1>6. CASE Decide \/ ForeignTurn \/ ForeignTurnEnds \/ UNCHANGED vars
    BY <1>6 DEF Decide, ForeignTurn, ForeignTurnEnds, vars, clientVars
  <1> QED
    BY <1>1, <1>2, <1>3, <1>4, <1>5, <1>6 DEF Next, Client

\* Operations and terminals enter under the lock, after a look at the other.
LEMMA RespectNext ==
    ASSUME WorkerInv, LeaseInv, [Next]_vars
    PROVE  LeaseRespected'
  <1> USE ProcessAssumption DEF WorkerInv, BaseInv, TypeOK, LockDiscipline, Go, Goto,
        Return, Unlock, Kill, Start, Move, LeaseInv, LeaseRespected,
        Attending, SeenFree, files, LockedPoints
  <1>1. ASSUME NEW c \in Clients, Launch(c) PROVE LeaseRespected'
    BY <1>1 DEF Launch, LaunchPrepare, LaunchSpawn, LaunchSpawnFails, LaunchRecord,
        LaunchRecordFails
  <1>2. ASSUME NEW c \in Clients, Transition(c) PROVE LeaseRespected'
    <2>1. ASSUME NEW op \in Operations, Enter(c, op) PROVE LeaseRespected'
      <3>1. CASE Status \in LeaseStatuses \cup {"not-found"}
        BY <2>1, <3>1 DEF Enter
      <3>2. CASE Status \notin LeaseStatuses \cup {"not-found"}
        <4>1. CurrentLease = NoLease
          BY <3>2 DEF Status, CurrentLease, NoLease
        <4>2. \A d \in Clients : ~Attending(d)
          BY <4>1 DEF LeaseKept, CurrentLease, NoLease
        <4> QED
          BY <2>1, <4>2 DEF Enter
      <3> QED
        BY <3>1, <3>2
    <2>2. CASE \/ Candidate(c) \/ Refuse(c)
               \/ SendQueued(c) \/ SendRespawns(c) \/ Condemn(c) \/ RespawnInactive(c)
      BY <2>2 DEF Candidate, Refuse, SendQueued, SendRespawns, Condemn, RespawnInactive,
          Refused, RefusesLease, Call
    <2>3. CASE \/ Terminate(c) \/ DropRequests(c) \/ MarkStopped(c) \/ Refill(c) \/ RefillFails(c)
               \/ ClearRequests(c) \/ BlankExit(c) \/ UnlinkStopped(c)
      BY <2>3 DEF Terminate, DropRequests, MarkStopped, Refill, RefillFails, ClearRequests,
          BlankExit, UnlinkStopped
    <2>4. CASE Spawn(c) \/ SpawnFails(c) \/ WriteRecord(c) \/ WriteRecordFails(c)
      BY <2>4 DEF Spawn, SpawnFails, WriteRecord, WriteRecordFails
    <2>5. CASE RestoreExit(c) \/ RestoreStopped(c) \/ RemoveRecord(c) \/ RemoveMetadata(c)
      BY <2>5 DEF RestoreExit, RestoreStopped, RemoveRecord, RemoveMetadata, Refused,
          RefusesLease, Call
    <2> QED
      BY <1>2, <2>1, <2>2, <2>3, <2>4, <2>5 DEF Transition
  <1>3. ASSUME NEW c \in Clients, Terminal(c) PROVE LeaseRespected'
    BY <1>3 DEF Terminal, Attach, Activate, ActivateFails, TerminalTurn,
        TerminalTurnEnds, Leave, Detach
  <1>4. ASSUME NEW c \in Clients, List(c) \/ Reap(c) \/ Crash(c) PROVE LeaseRespected'
    BY <1>4 DEF List, Reap, Crash
  <1>5. ASSUME NEW w \in Workers, Worker(w) \/ WorkerKilled(w) PROVE LeaseRespected'
    BY <1>5 DEF Worker, TakeMessage, WorkerDone, BoundaryFails, StartTurn, TurnBusy,
        FinishTurn, UnlinkMessage, Ask, SeeResponse, EndPrompt, ProcessEnds, WorkerKilled,
        clientVars
  <1>6. CASE Decide \/ ForeignTurn \/ ForeignTurnEnds \/ UNCHANGED vars
    BY <1>6 DEF Decide, ForeignTurn, ForeignTurnEnds, vars, clientVars
  <1> QED
    BY <1>1, <1>2, <1>3, <1>4, <1>5, <1>6 DEF Next, Client

-----------------------------------------------------------------------------
(* The owners of the session. *)

\* A worker that works is the recorded one, or its operation has yet to write the
\* record; a terminal enters when the recorded one is gone.
LEMMA OneOwner ==
    ASSUME WorkerInv, LeaseInv
    PROVE  \A p, q \in Owners : p = q
  <1>1. \A v, w \in Workers : Working(v) /\ Working(w) => v = w
    BY WorkersCoincide DEF OneWorker
  <1>2. \A c, d \in Clients : Interactive(c) /\ Interactive(d) => c = d
    BY DEF LeaseInv, LeaseKept, Attending, Interactive
  <1>3. \A c \in Clients, w \in Workers : ~(Interactive(c) /\ Working(w))
    BY DEF LeaseInv, LeaseQuiet
  <1> QED
    BY <1>1, <1>2, <1>3 DEF Owners

\* Every step that gives the session an owner begins with none.
LEMMA OwnerStep ==
    ASSUME WorkerInv, LeaseInv, [Next]_vars
    PROVE  \/ Owners' \subseteq Owners
           \/ Owners = {} /\ \E p \in Clients \cup Workers : Owners' = {p}
  <1> USE ProcessAssumption DEF WorkerInv, BaseInv, TypeOK, Go, Goto,
        Return, Unlock, Kill, Start, Move, Fresh, Owners, Working, Interactive, Alive,
        files, workerVars
  <1> DEFINE Goal == \/ Owners' \subseteq Owners
                     \/ Owners = {} /\ \E p \in Clients \cup Workers : Owners' = {p}
  <1>1. ASSUME NEW c \in Clients, Launch(c) PROVE Goal
    <2>1. CASE LaunchSpawn(c)
      <3>1. \A w \in Workers : state[w] = "none"
        BY <2>1 DEF LaunchSpawn, LaunchOnce
      <3>2. \A d \in Clients : ~Interactive(d)
        BY <2>1, AttendingAlone DEF LaunchSpawn, Attending
      <3> QED
        BY <2>1, <3>1, <3>2 DEF LaunchSpawn
    <2>2. CASE LaunchPrepare(c) \/ LaunchSpawnFails(c) \/ LaunchRecord(c) \/ LaunchRecordFails(c)
      BY <2>2 DEF LaunchPrepare, LaunchSpawnFails, LaunchRecord, LaunchRecordFails
    <2> QED
      BY <1>1, <2>1, <2>2 DEF Launch
  <1>2. ASSUME NEW c \in Clients, Transition(c) PROVE Goal
    <2>1. CASE Spawn(c)
      <3>1. /\ \A w \in Workers : ~Working(w)
            /\ \A d \in Clients : ~Interactive(d)
        BY <2>1, OperatingAlone DEF Spawn, QuietPoints, LockedPoints, SpawnWindow, Attending
      <3> QED
        BY <2>1, <3>1 DEF Spawn
    <2>2. CASE \/ Candidate(c) \/ (\E op \in Operations : Enter(c, op)) \/ Refuse(c)
               \/ SendQueued(c) \/ SendRespawns(c) \/ Condemn(c) \/ RespawnInactive(c)
      BY <2>2 DEF Candidate, Enter, Refuse, SendQueued, SendRespawns, Condemn, RespawnInactive
    <2>3. CASE \/ Terminate(c) \/ DropRequests(c) \/ MarkStopped(c) \/ Refill(c) \/ RefillFails(c)
               \/ ClearRequests(c) \/ BlankExit(c) \/ UnlinkStopped(c)
      BY <2>3 DEF Terminate, DropRequests, MarkStopped, Refill, RefillFails, ClearRequests,
          BlankExit, UnlinkStopped
    <2>4. CASE SpawnFails(c) \/ WriteRecord(c) \/ WriteRecordFails(c)
      BY <2>4 DEF SpawnFails, WriteRecord, WriteRecordFails
    <2>5. CASE RestoreExit(c) \/ RestoreStopped(c) \/ RemoveRecord(c) \/ RemoveMetadata(c)
      BY <2>5 DEF RestoreExit, RestoreStopped, RemoveRecord, RemoveMetadata
    <2> QED
      BY <1>2, <2>1, <2>2, <2>3, <2>4, <2>5 DEF Transition
  <1>3. ASSUME NEW c \in Clients, Terminal(c) PROVE Goal
    <2>1. CASE Activate(c)
      <3>1. Attending(c) /\ pc[c] = "wait"
        BY <2>1 DEF Activate, Attending
      <3>2. record \in Workers /\ ~Alive(record)
        BY <2>1, <3>1 DEF Activate, WorkerGone, LeaseInv, LeaseKept
      <3>3. \A w \in Workers : ~Working(w)
        BY <3>1, <3>2, AttendingAlone DEF WorkersNamed, Named, SpawnWindow, LockedPoints
      <3>4. \A d \in Clients : ~Interactive(d)
        BY <3>1 DEF LeaseInv, LeaseKept, Attending
      <3> QED
        BY <2>1, <3>3, <3>4 DEF Activate
    <2>2. CASE \/ Attach(c) \/ ActivateFails(c) \/ TerminalTurn(c) \/ TerminalTurnEnds(c)
               \/ Leave(c) \/ Detach(c)
      BY <2>2 DEF Attach, ActivateFails, TerminalTurn, TerminalTurnEnds, Leave, Detach
    <2> QED
      BY <1>3, <2>1, <2>2 DEF Terminal
  <1>4. ASSUME NEW c \in Clients, List(c) \/ Reap(c) \/ Crash(c) PROVE Goal
    BY <1>4 DEF List, Reap, Crash
  <1>5. ASSUME NEW w \in Workers, Worker(w) \/ WorkerKilled(w) PROVE Goal
    <2>1. CASE TakeMessage(w) \/ WorkerDone(w) \/ BoundaryFails(w)
      BY <2>1 DEF TakeMessage, WorkerDone, BoundaryFails, clientVars
    <2>2. CASE StartTurn(w) \/ TurnBusy(w) \/ FinishTurn(w) \/ UnlinkMessage(w)
      BY <2>2 DEF StartTurn, TurnBusy, FinishTurn, UnlinkMessage, clientVars
    <2>3. CASE Ask(w) \/ SeeResponse(w) \/ EndPrompt(w)
      BY <2>3 DEF Ask, SeeResponse, EndPrompt, clientVars
    <2>4. CASE ProcessEnds(w) \/ WorkerKilled(w)
      BY <2>4 DEF ProcessEnds, WorkerKilled, clientVars
    <2> QED
      BY <1>5, <2>1, <2>2, <2>3, <2>4 DEF Worker
  <1>6. CASE Decide \/ ForeignTurn \/ ForeignTurnEnds \/ UNCHANGED vars
    BY <1>6 DEF Decide, ForeignTurn, ForeignTurnEnds, vars, clientVars
  <1> QED
    BY <1>1, <1>2, <1>3, <1>4, <1>5, <1>6 DEF Next, Client

LEMMA QuietLeaseNext ==
    ASSUME WorkerInv, LeaseInv, [Next]_vars
    PROVE  LeaseQuiet'
  <1> SUFFICES ASSUME NEW c \in Clients, NEW w \in Workers, Interactive(c)', Working(w)'
               PROVE  FALSE
    BY DEF LeaseQuiet
  <1>1. c \in Owners' /\ w \in Owners' /\ c # w
    BY ProcessAssumption DEF Owners
  <1> QED
    BY <1>1, OneOwner, OwnerStep

THEOREM LeaseInvariant ==
    ASSUME Confined, NoReaper
    PROVE  Spec => [](WorkerInv /\ LeaseInv)
  <1>1. Init => LeaseInv
    BY DEF Init, LeaseInv, LeaseKept, LeaseRespected, LeaseQuiet, Attending, SeenFree,
        LockedPoints, Interactive
  <1>2. WorkerInv /\ LeaseInv /\ [Next]_vars => LeaseInv'
    BY LeaseNext, RespectNext, QuietLeaseNext DEF LeaseInv
  <1> QED
    BY <1>1, <1>2, WorkerInvariant, PTL DEF Spec

\* Once a terminal is in the session, no worker works and no other terminal is
\* there, whoever launches, sends, respawns, stops, removes or attaches meanwhile.
THEOREM TerminalsExclude ==
    ASSUME Confined, NoReaper
    PROVE  Spec => []LeaseExclusive
  <1>1. WorkerInv /\ LeaseInv => LeaseExclusive
    <2> SUFFICES ASSUME LeaseInv, NEW c \in Clients, Interactive(c)
                 PROVE  /\ \A w \in Workers : ~Working(w)
                        /\ \A d \in Clients : Interactive(d) => d = c
      BY DEF LeaseExclusive
    <2> QED
      BY DEF LeaseInv, LeaseQuiet, LeaseKept, Attending, Interactive
  <1> QED
    BY <1>1, LeaseInvariant, PTL

\* The session has at most one owner and changes hands only through none.
THEOREM SupervisorImplementsSessionOwner ==
    ASSUME Confined, NoReaper
    PROVE  Spec => ImplementsSessionOwner
  <1>1. Init => Owner!Init
    BY DEF Init, Owner!Init, Owners, Working, Interactive
  <1>2. WorkerInv /\ LeaseInv /\ [Next]_vars => [Owner!Next]_Owners
    <2> SUFFICES ASSUME WorkerInv, LeaseInv, [Next]_vars PROVE [Owner!Next]_Owners
      OBVIOUS
    <2>1. CASE Owners' \subseteq Owners
      <3>1. CASE Owners' = Owners
        BY <3>1
      <3>2. CASE Owners' # Owners
        <4>1. PICK p \in Owners : p \notin Owners'
          BY <2>1, <3>2
        <4>2. Owners = {p} /\ Owners' = {}
          BY <2>1, <4>1, OneOwner
        <4>3. p \in Clients \cup Workers
          BY DEF Owners
        <4> QED
          BY <4>2, <4>3 DEF Owner!Next, Owner!Release
      <3> QED
        BY <3>1, <3>2
    <2>2. CASE Owners = {} /\ \E p \in Clients \cup Workers : Owners' = {p}
      BY <2>2 DEF Owner!Next, Owner!Acquire
    <2> QED
      BY <2>1, <2>2, OwnerStep
  <1> QED
    BY <1>1, <1>2, LeaseInvariant, PTL DEF Spec, ImplementsSessionOwner, Owner!Spec
=============================================================================
