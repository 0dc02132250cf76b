------------------------------ MODULE MessageProofs ------------------------------
(***************************************************************************)
(* Theorems about the messages of an agent and its stopped mark, for any   *)
(* numbers of clients, workers and messages: an accepted message waits     *)
(* until a turn has run with it, messages run in order and only once       *)
(* unless a worker is killed, and nobody revives a stopped agent by        *)
(* respawning all.                                                         *)
(***************************************************************************)
EXTENDS SessionOwnerProofs

\* What the message theorems assume besides: no other process runs a turn of the
\* session, which would make a worker's turn fail with its message in hand.
Undisturbed == NoReaper /\ "foreign" \notin Faults

InTurn == {"turn", "asking", "answered"}

\* The turn lock is held only by a process that is in a turn.
TurnLockOwned ==
    /\ \A w \in Workers : turnLock = w => state[w] \in InTurn
    /\ \A c \in Clients : turnLock = c => pc[c] = "turn"
    /\ turnLock \in Clients \cup Workers \cup {NoProcess}

LEMMA TurnLockOwnedNext ==
    ASSUME Undisturbed, TypeOK, TurnLockHeld, TurnLockOwned, [Next]_vars
    PROVE  TurnLockOwned'
  <1> USE ProcessAssumption DEF TypeOK, TurnLockHeld, TurnLockOwned, InTurn, Go, Goto, Return,
        Unlock, Move, Kill, Start, Fresh, Alive, workerVars
  <1>1. ASSUME NEW c \in Clients, Launch(c) PROVE TurnLockOwned'
    BY <1>1 DEF Launch, LaunchPrepare, LaunchSpawn, LaunchSpawnFails, LaunchRecord,
        LaunchRecordFails
  <1>2. ASSUME NEW c \in Clients, Transition(c) PROVE TurnLockOwned'
    <2>1. CASE \/ Candidate(c) \/ (\E op \in Operations : Enter(c, op)) \/ Refuse(c)
               \/ SendQueued(c) \/ SendRespawns(c) \/ Condemn(c) \/ RespawnInactive(c)
      BY <2>1 DEF Candidate, Enter, Refuse, SendQueued, SendRespawns, Condemn, RespawnInactive
    <2>2. CASE Terminate(c)
      BY <2>2 DEF Terminate
    <2>3. CASE \/ DropRequests(c) \/ MarkStopped(c) \/ Refill(c) \/ RefillFails(c)
               \/ ClearRequests(c) \/ BlankExit(c) \/ UnlinkStopped(c)
      BY <2>3 DEF DropRequests, MarkStopped, Refill, RefillFails, ClearRequests,
          BlankExit, UnlinkStopped
    <2>4. CASE Spawn(c) \/ SpawnFails(c) \/ WriteRecord(c) \/ WriteRecordFails(c)
      BY <2>4 DEF Spawn, SpawnFails, WriteRecord, WriteRecordFails
    <2>5. CASE RestoreExit(c) \/ RestoreStopped(c) \/ RemoveRecord(c) \/ RemoveMetadata(c)
      BY <2>5 DEF RestoreExit, RestoreStopped, RemoveRecord, RemoveMetadata
    <2> QED
      BY <1>2, <2>1, <2>2, <2>3, <2>4, <2>5 DEF Transition
  <1>3. ASSUME NEW c \in Clients, Terminal(c) \/ List(c) \/ Reap(c) \/ Crash(c)
        PROVE TurnLockOwned'
    BY <1>3 DEF Terminal, Attach, Activate, ActivateFails, TerminalTurn,
        TerminalTurnEnds, Leave, Detach, List, Reap, Crash
  <1>4. ASSUME NEW w \in Workers, Worker(w) \/ WorkerKilled(w) PROVE TurnLockOwned'
    <2>1. CASE \/ TakeMessage(w) \/ WorkerDone(w) \/ BoundaryFails(w) \/ TurnBusy(w)
               \/ UnlinkMessage(w) \/ ProcessEnds(w)
      BY <2>1 DEF TakeMessage, WorkerDone, BoundaryFails, TurnBusy, UnlinkMessage,
          ProcessEnds, clientVars
    <2>2. CASE StartTurn(w) \/ FinishTurn(w) \/ WorkerKilled(w)
      <3>1. CASE StartTurn(w)
        BY <3>1 DEF StartTurn, clientVars
      <3>2. CASE FinishTurn(w)
        BY <3>2 DEF FinishTurn, clientVars
      <3>3. CASE WorkerKilled(w)
        BY <3>3 DEF WorkerKilled, clientVars
      <3> QED
        BY <2>2, <3>1, <3>2, <3>3
    <2>3. CASE Ask(w) \/ SeeResponse(w) \/ EndPrompt(w)
      <3>1. CASE Ask(w)
        BY <3>1 DEF Ask, clientVars
      <3>2. CASE SeeResponse(w) \/ EndPrompt(w)
        BY <3>2 DEF SeeResponse, EndPrompt, clientVars
      <3> QED
        BY <2>3, <3>1, <3>2
    <2> QED
      BY <1>4, <2>1, <2>2, <2>3 DEF Worker
  <1>5. CASE Decide \/ ForeignTurn \/ ForeignTurnEnds \/ UNCHANGED vars
    BY <1>5 DEF Undisturbed, Decide, ForeignTurn, ForeignTurnEnds, vars, clientVars
  <1> QED
    BY <1>1, <1>2, <1>3, <1>4, <1>5 DEF Next, Client

\* A worker that is ready for a turn finds the turn lock free.
LEMMA ReadyRuns ==
    ASSUME WorkerInv, LeaseInv, TurnLockOwned, NEW w \in Workers, state[w] = "ready"
    PROVE  turnLock = NoProcess
  <1>1. w \in Owners
    BY DEF Owners, Working
  <1>2. \A v \in Workers : state[v] \in InTurn => v \in Owners /\ v # w
    BY DEF Owners, Working, InTurn
  <1>3. \A c \in Clients : pc[c] = "turn" => c \in Owners /\ c # w
    BY ProcessAssumption DEF Owners, Interactive
  <1> QED
    BY <1>1, <1>2, <1>3, OneOwner DEF TurnLockOwned, WorkerInv, BaseInv, TypeOK

-----------------------------------------------------------------------------
(* The mail. *)

\* Messages are numbered without gaps, from the first one to a launched agent.
Numbered ==
    /\ inbox \subseteq 1 .. sent /\ ran \subseteq 1 .. sent
    /\ (\A w \in Workers : state[w] = "none") => sent = 0
    /\ \A w \in Workers : state[w] = "none" => hand[w] = NoMessage

\* A worker that has begun the turn of its message has run with it.
HandRan ==
    \A w \in Workers : state[w] \in InTurn \cup {"finished"} /\ hand[w] # NoMessage
                         => hand[w] \in ran

\* A message is taken up after all before it have run.
HandNext ==
    \A w \in Workers : state[w] = "ready" => \A n \in 1 .. hand[w] - 1 : n \in ran

\* The message of a ready worker is still queued.
HandQueued ==
    \A w \in Workers : state[w] = "ready" /\ hand[w] # NoMessage => hand[w] \in inbox

\* A queued message that has run is about to be unlinked, or its worker was killed.
RanByHand ==
    \A m \in inbox \cap ran :
        \E w \in Workers : hand[w] = m /\ state[w] \in InTurn \cup {"finished", "dead"}

MailInv == /\ Numbered /\ HandRan /\ HandNext /\ HandQueued /\ RanByHand
           /\ MessageKept /\ InOrder

Full == WorkerInv /\ LeaseInv /\ TurnLockHeld /\ TurnLockOwned /\ MailInv

\* Steps that touch neither the mail nor a worker.
LEMMA UnchangedMail ==
    ASSUME Full, UNCHANGED <<mail, workerVars>>, config' => config \/ sent = 0
    PROVE  MailInv'
  BY DEF Full, MailInv, Numbered, HandRan, HandNext, HandQueued, RanByHand, MessageKept,
      InOrder, mail, workerVars

LEMMA EnqueueKeeps ==
    ASSUME Full, Enqueue, UNCHANGED <<workerVars, config>>, record \in Workers
    PROVE  MailInv'
  <1> USE DEF Full, MailInv, Enqueue, workerVars
  <1>0. sent \in Nat
    BY BoundAssumption DEF WorkerInv, BaseInv, TypeOK
  <1>1. sent + 1 \notin ran /\ 1 .. sent + 1 = (1 .. sent) \cup {sent + 1}
    BY <1>0 DEF Numbered
  <1>2. state[record] # "none"
    BY DEF WorkerInv, LaunchOnce
  <1>3. Numbered'
    BY <1>0, <1>1, <1>2 DEF Numbered
  <1>4. HandRan' /\ HandNext' /\ HandQueued' /\ InOrder'
    BY DEF HandRan, HandNext, HandQueued, InOrder
  <1>5. RanByHand' /\ MessageKept'
    BY <1>0, <1>1 DEF RanByHand, MessageKept
  <1> QED
    BY <1>3, <1>4, <1>5

\* A worker process begins without a message.
LEMMA StartKeeps ==
    ASSUME Full, NEW c \in Clients, NEW w \in Workers, NEW point \in {"boundary", "ready"},
           Start(c, w, point), UNCHANGED <<mail, config>>
    PROVE  MailInv'
  <1>1. /\ state[w] = "none" /\ hand[w] = NoMessage /\ hand' = hand
        /\ state' = [state EXCEPT ![w] = point] /\ w \in DOMAIN state
    BY DEF Start, Fresh, Full, MailInv, Numbered, WorkerInv, BaseInv, TypeOK
  <1> QED
    BY <1>1 DEF Full, MailInv, Numbered, HandRan, HandNext, HandQueued, RanByHand,
        MessageKept, InOrder, mail, InTurn, NoMessage

\* A killed worker leaves its message in the inbox.
LEMMA KillKeeps ==
    ASSUME Full, NEW w, Kill(w), UNCHANGED <<mail, config>>
    PROVE  MailInv'
  <1>1. CASE Alive(w)
    <2>1. /\ w \in Workers /\ hand' = hand /\ state[w] # "none"
          /\ state' = [state EXCEPT ![w] = "dead"] /\ w \in DOMAIN state
      BY <1>1 DEF Kill, Alive, Full, WorkerInv, BaseInv, TypeOK
    <2> QED
      BY <2>1 DEF Full, MailInv, Numbered, HandRan, HandNext, HandQueued, RanByHand,
          MessageKept, InOrder, mail, InTurn
  <1>2. CASE ~Alive(w)
    BY <1>2, UnchangedMail DEF Kill
  <1> QED
    BY <1>1, <1>2

\* The agent is removed, or was never launched, and no worker is left.
LEMMA EmptyKeeps ==
    ASSUME Full, inbox' = {}, config' = FALSE, UNCHANGED <<sent, ran, hand>>,
           \A w \in Workers : state'[w] # "ready",
           \A w \in Workers : state'[w] = state[w] \/ (state'[w] = "dead" /\ state[w] # "none")
    PROVE  MailInv'
  BY DEF Full, MailInv, Numbered, HandRan, HandNext, HandQueued, RanByHand, MessageKept,
      InOrder, InTurn

LEMMA ClientMail ==
    ASSUME Full, NEW c \in Clients, Client(c) \/ Crash(c)
    PROVE  MailInv'
  <1> USE DEF Goto, Go
  <1>1. CASE Launch(c)
    <2>1. CASE LaunchPrepare(c)
      BY <2>1, UnchangedMail DEF LaunchPrepare, Full, MailInv, Numbered, Fresh
    <2>2. CASE LaunchSpawn(c)
      BY <2>2, StartKeeps DEF LaunchSpawn, files
    <2>3. CASE LaunchSpawnFails(c) \/ LaunchRecord(c)
      BY <2>3, UnchangedMail DEF LaunchSpawnFails, LaunchRecord
    <2>4. CASE LaunchRecordFails(c)
      <3>1. \A w \in Workers : Working(w) => w = target[c]
        <4>1. record = NoProcess
          BY <2>4 DEF LaunchRecordFails, Full, WorkerInv, LaunchOnce
        <4>2. \A d \in Clients : pc[d] \in SpawnWindow => d = c
          BY <2>4, <4>1, ProcessAssumption DEF LaunchRecordFails, Full, WorkerInv, BaseInv,
             LaunchOnce, EntryView, SpawnWindow, LockedPoints
        <4> QED
          BY <4>1, <4>2, ProcessAssumption DEF Full, WorkerInv, WorkersNamed, Named
      <3>2. \A w \in Workers : state'[w] # "ready"
        BY <2>4, <3>1 DEF LaunchRecordFails, Kill, Alive, Working, Full, WorkerInv, BaseInv,
           TypeOK, workerVars
      <3>3. \A w \in Workers : state'[w] = state[w] \/ (state'[w] = "dead" /\ state[w] # "none")
        <4>1. Kill(target[c]) /\ state \in [Workers -> WorkerStates]
          BY <2>4 DEF LaunchRecordFails, Full, WorkerInv, BaseInv, TypeOK
        <4>2. CASE Alive(target[c])
          BY <4>1, <4>2 DEF Kill, Alive
        <4>3. CASE ~Alive(target[c])
          BY <4>1, <4>3 DEF Kill, workerVars
        <4> QED
          BY <4>2, <4>3
      <3> QED
        BY <2>4, <3>2, <3>3, EmptyKeeps DEF LaunchRecordFails, Kill, workerVars
    <2> QED
      BY <1>1, <2>1, <2>2, <2>3, <2>4 DEF Launch
  <1>2. CASE Transition(c)
    <2>1. CASE SendQueued(c) \/ SendRespawns(c)
      <3>1. record \in Workers /\ Enqueue /\ UNCHANGED <<workerVars, config>>
        BY <2>1 DEF SendQueued, SendRespawns, Refused, RefusesLease, Call, Full, WorkerInv,
           EntryView, LockedPoints, files
      <3> QED
        BY <3>1, EnqueueKeeps
    <2>2. CASE Refill(c)
      <3>1. record \in Workers /\ UNCHANGED <<workerVars, config>>
        BY <2>2 DEF Refill, Full, WorkerInv, EntryView, LockedPoints, files
      <3> QED
        BY <2>2, <3>1, EnqueueKeeps, UnchangedMail DEF Refill
    <2>3. CASE Terminate(c) \/ WriteRecordFails(c)
      BY <2>3, KillKeeps DEF Terminate, WriteRecordFails, files
    <2>4. CASE Spawn(c)
      BY <2>4, StartKeeps DEF Spawn, files
    <2>5. CASE RemoveMetadata(c)
      <3>1. SeenFree(c) /\ record \in Workers /\ ~Working(record)
        BY <2>5 DEF RemoveMetadata, Refused, RefusesLease, RefusesActive, Call, SeenFree,
           Full, WorkerInv, BaseInv, TypeOK, EntryView, RecordQuiet, Statuses, LockedPoints
      <3>2. \A d \in Clients : pc[d] \notin SpawnWindow
        BY <2>5, <3>1, ProcessAssumption DEF RemoveMetadata, Full, WorkerInv, BaseInv,
           LockDiscipline, LaunchOnce, SpawnWindow, LockedPoints
      <3>3. \A w \in Workers : state[w] # "ready"
        BY <3>1, <3>2 DEF Full, WorkerInv, WorkersNamed, Named, Working
      <3>4. inbox' = {} /\ config' = FALSE /\ UNCHANGED <<sent, ran, hand, state>>
        BY <2>5 DEF RemoveMetadata, workerVars
      <3>5. \A w \in Workers : state'[w] = state[w] /\ state'[w] # "ready"
        BY <3>3, <3>4
      <3> QED
        BY <3>4, <3>5, EmptyKeeps
    <2>6. CASE \/ Candidate(c) \/ (\E op \in Operations : Enter(c, op)) \/ Refuse(c)
               \/ Condemn(c) \/ RespawnInactive(c) \/ DropRequests(c) \/ MarkStopped(c)
               \/ RefillFails(c) \/ ClearRequests(c) \/ BlankExit(c) \/ UnlinkStopped(c)
               \/ SpawnFails(c) \/ WriteRecord(c) \/ RestoreExit(c) \/ RestoreStopped(c)
               \/ RemoveRecord(c)
      <3>1. UNCHANGED <<mail, workerVars, config>>
        BY <2>6 DEF Candidate, Enter, Refuse, Condemn, RespawnInactive, DropRequests,
           MarkStopped, RefillFails, ClearRequests, BlankExit, UnlinkStopped, SpawnFails,
           WriteRecord, RestoreExit, RestoreStopped, RemoveRecord, files
      <3> QED
        BY <3>1, UnchangedMail
    <2> QED
      BY <1>2, <2>1, <2>2, <2>3, <2>4, <2>5, <2>6 DEF Transition
  <1>3. CASE Terminal(c) \/ List(c) \/ Reap(c) \/ Crash(c)
    <2>1. UNCHANGED <<mail, workerVars, config>>
      BY <1>3 DEF Terminal, Attach, Activate, ActivateFails, TerminalTurn, TerminalTurnEnds,
         Leave, Detach, List, Reap, Crash, files
    <2> QED
      BY <2>1, UnchangedMail
  <1> QED
    BY <1>1, <1>2, <1>3 DEF Client

LEMMA WorkerMail ==
    ASSUME Full, NEW w \in Workers, Worker(w) \/ WorkerKilled(w)
    PROVE  MailInv'
  <1>0. /\ state \in [Workers -> WorkerStates] /\ hand \in [Workers -> Messages \cup {NoMessage}]
        /\ Messages \cup {NoMessage} \subseteq Nat /\ sent \in Nat
    BY BoundAssumption DEF Full, WorkerInv, BaseInv, TypeOK, Messages, NoMessage
  <1>1. \A v \in Workers : Working(v) /\ Working(w) => v = w
    BY WorkersCoincide DEF Full, OneWorker
  <1> USE DEF Full, MailInv, InTurn, Move, mail
  <1>2. CASE TakeMessage(w)
    <2> DEFINE m == Oldest(inbox)
    <2>1. m \in inbox /\ \A n \in inbox : m <= n
      BY <1>0, <1>2, OldestQueued DEF TakeMessage, Numbered
    <2>2. /\ hand' = [hand EXCEPT ![w] = m] /\ state' = [state EXCEPT ![w] = "ready"]
          /\ state[w] = "boundary" /\ config /\ UNCHANGED <<mail, config>>
      BY <1>2 DEF TakeMessage
    <2> HIDE DEF m
    <2>3. \A n \in 1 .. m - 1 : n \in ran
      <3> SUFFICES ASSUME NEW n \in 1 .. m - 1 PROVE n \in ran
        OBVIOUS
      <3>1. m \in 1 .. sent
        BY <2>1 DEF Numbered
      <3>2. n \in 1 .. sent /\ ~(m <= n)
        BY <1>0, <3>1
      <3> QED
        BY <2>1, <2>2, <3>2 DEF MessageKept
    <2>4. Numbered' /\ MessageKept' /\ InOrder'
      BY <1>0, <2>2 DEF Numbered, MessageKept, InOrder
    <2>5. HandRan' /\ HandNext' /\ HandQueued'
      BY <1>0, <2>1, <2>2, <2>3 DEF HandRan, HandNext, HandQueued
    <2>6. RanByHand'
      BY <1>0, <2>2 DEF RanByHand
    <2> QED
      BY <2>4, <2>5, <2>6
  <1>3. CASE StartTurn(w)
    <2>1. /\ ran' = IF hand[w] = NoMessage THEN ran ELSE ran \cup {hand[w]}
          /\ state' = [state EXCEPT ![w] = "turn"] /\ state[w] = "ready"
          /\ UNCHANGED <<inbox, sent, hand, config>>
      BY <1>3 DEF StartTurn, files
    <2>2. hand[w] # NoMessage => hand[w] \in inbox /\ hand[w] \in 1 .. sent
      BY <2>1 DEF HandQueued, Numbered
    <2>3. Numbered' /\ MessageKept'
      BY <1>0, <2>1, <2>2 DEF Numbered, MessageKept
    <2>4. HandRan' /\ HandNext' /\ HandQueued'
      BY <1>0, <2>1 DEF HandRan, HandNext, HandQueued
    <2>5. RanByHand'
      BY <1>0, <2>1 DEF RanByHand
    <2>6. InOrder'
      <3> SUFFICES ASSUME NEW m \in ran', NEW n \in 1 .. m PROVE n \in ran'
        BY DEF InOrder
      <3>1. CASE m \in ran
        BY <2>1, <3>1 DEF InOrder
      <3>2. CASE m = hand[w] /\ hand[w] # NoMessage
        <4>1. n \in 1 .. hand[w] - 1 \/ n = hand[w]
          BY <1>0, <3>2
        <4> QED
          BY <2>1, <3>2, <4>1 DEF HandNext
      <3> QED
        BY <2>1, <3>1, <3>2
    <2> QED
      BY <2>3, <2>4, <2>5, <2>6
  <1>4. CASE TurnBusy(w)
    BY <1>4, ReadyRuns DEF TurnBusy
  <1>5. CASE UnlinkMessage(w)
    <2>1. /\ inbox' = inbox \ {hand[w]} /\ hand' = [hand EXCEPT ![w] = NoMessage]
          /\ state' = [state EXCEPT ![w] = "boundary"] /\ state[w] = "finished"
          /\ UNCHANGED <<sent, ran, config>>
      BY <1>5 DEF UnlinkMessage, files
    <2>2. \A v \in Workers : state[v] # "ready"
      BY <1>1, <2>1 DEF Working
    <2>3. hand[w] \notin 1 .. sent \/ hand[w] \in ran
      BY <1>0, <2>1 DEF HandRan, NoMessage
    <2>4. Numbered' /\ MessageKept' /\ InOrder'
      BY <1>0, <2>1, <2>3 DEF Numbered, MessageKept, InOrder
    <2>5. HandRan' /\ HandNext' /\ HandQueued'
      BY <1>0, <2>1, <2>2 DEF HandRan, HandNext, HandQueued
    <2>6. RanByHand'
      BY <1>0, <2>1 DEF RanByHand
    <2> QED
      BY <2>4, <2>5, <2>6
  <1>6. CASE WorkerDone(w) \/ BoundaryFails(w) \/ ProcessEnds(w)
    <2>1. /\ state' = [state EXCEPT ![w] = state'[w]] /\ state[w] \in {"boundary", "exited"}
          /\ state'[w] \in {"exited", "dead"} /\ UNCHANGED <<mail, hand, config>>
      BY <1>0, <1>6 DEF WorkerDone, BoundaryFails, ProcessEnds, files
    <2> QED
      BY <1>0, <2>1 DEF Numbered, HandRan, HandNext, HandQueued, RanByHand, MessageKept, InOrder
  <1>7. CASE FinishTurn(w) \/ Ask(w) \/ SeeResponse(w) \/ EndPrompt(w)
    <2>1. /\ state' = [state EXCEPT ![w] = state'[w]] /\ state[w] \in InTurn
          /\ state'[w] \in InTurn \cup {"finished"} /\ UNCHANGED <<mail, hand, config>>
      BY <1>0, <1>7 DEF FinishTurn, Ask, SeeResponse, EndPrompt, files
    <2> QED
      BY <1>0, <2>1 DEF Numbered, HandRan, HandNext, HandQueued, RanByHand, MessageKept, InOrder
  <1>8. CASE WorkerKilled(w)
    BY <1>8, KillKeeps DEF WorkerKilled, files
  <1> QED
    BY <1>2, <1>3, <1>4, <1>5, <1>6, <1>7, <1>8 DEF Worker

THEOREM MailInvariant ==
    ASSUME Confined, Undisturbed
    PROVE  Spec => []Full
  <1>1. Init => TurnLockHeld /\ TurnLockOwned /\ MailInv
    BY ProcessAssumption DEF Init, TurnLockHeld, TurnLockOwned, MailInv, Numbered, HandRan, HandNext,
        HandQueued, RanByHand, MessageKept, InOrder, InTurn
  <1>2. Full /\ [Next]_vars => TurnLockHeld' /\ TurnLockOwned' /\ MailInv'
    <2> SUFFICES ASSUME Full, [Next]_vars PROVE TurnLockHeld' /\ TurnLockOwned' /\ MailInv'
      OBVIOUS
    <2>1. TurnLockHeld' /\ TurnLockOwned'
      BY TurnLockNext, TurnLockOwnedNext DEF Full, WorkerInv, BaseInv
    <2>2. CASE Decide \/ ForeignTurn \/ ForeignTurnEnds \/ UNCHANGED vars
      <3>1. UNCHANGED <<mail, workerVars, config>>
        BY <2>2 DEF Decide, ForeignTurn, ForeignTurnEnds, vars, files
      <3> QED
        BY <2>1, <3>1, UnchangedMail
    <2> QED
      BY <2>1, <2>2, ClientMail, WorkerMail DEF Next
  <1>3. NoReaper
    BY DEF Undisturbed
  <1> QED
    BY <1>1, <1>2, <1>3, LeaseInvariant, PTL DEF Spec, Full

\* No kill, respawn, attach, failed spawn or failed record write loses a message.
THEOREM MessagesAreKept ==
    ASSUME Confined, Undisturbed
    PROVE  Spec => []MessageKept
  BY MailInvariant, PTL DEF Full, MailInv

\* No interleaving of senders, respawns and killed workers lets a message overtake.
THEOREM MessagesRunInOrder ==
    ASSUME Confined, Undisturbed
    PROVE  Spec => []InOrder
  BY MailInvariant, PTL DEF Full, MailInv

\* A message runs again only when the worker that had it was killed.
THEOREM MessagesRunOnce ==
    ASSUME Confined, Undisturbed
    PROVE  Spec => NoNeedlessRerun
  <1>1. Full => \A w \in Workers : state[w] = "ready" /\ hand[w] \in ran =>
                    \E v \in Workers : state[v] = "dead" /\ hand[v] = hand[w]
    <2> SUFFICES ASSUME Full, NEW w \in Workers, state[w] = "ready", hand[w] \in ran
                 PROVE  \E v \in Workers : state[v] = "dead" /\ hand[v] = hand[w]
      OBVIOUS
    <2>1. hand[w] \in inbox \cap ran
      BY DEF Full, MailInv, Numbered, HandQueued, NoMessage
    <2>2. PICK v \in Workers : hand[v] = hand[w] /\ state[v] \in InTurn \cup {"finished", "dead"}
      BY <2>1 DEF Full, MailInv, RanByHand
    <2>3. ~(Working(v) /\ Working(w) /\ v # w)
      BY WorkersCoincide DEF Full, OneWorker
    <2> QED
      BY <2>2, <2>3 DEF Working, InTurn
  <1>2. Full => [\A w \in Workers :
                    state[w] = "ready" /\ state'[w] = "turn" /\ hand[w] \in ran =>
                        \E v \in Workers : state[v] = "dead" /\ hand[v] = hand[w]]_vars
    BY <1>1
  <1> QED
    BY <1>2, MailInvariant, PTL DEF NoNeedlessRerun

-----------------------------------------------------------------------------
(* The stopped mark. *)

\* Which operation is at a point, and what respawn --all has checked by then.
Rechecked ==
    \A c \in Clients :
        /\ pc[c] \in {"drop", "kill"} => call[c].op \in {"stop", "respawn", "respawnAll"}
        /\ pc[c] \in {"refill", "clear", "blank", "unstop"} =>
               call[c].op \in {"send", "respawn", "respawnAll"}
        /\ pc[c] = "mark" => call[c].op = "stop"
        /\ pc[c] = "erase" => call[c].op = "remove"
        /\ pc[c] \in LockedPoints \ {"enter"} /\ call[c].op = "respawnAll" =>
               call[c].status \in ActiveStatuses
        /\ pc[c] \in LockedPoints /\ call[c].op = "respawnAll"
               /\ call[c].status \in ActiveStatuses => ~stopped

\* An agent with an active status is not marked stopped.
LEMMA ActiveUnstopped ==
    ASSUME WorkerInv, Status \in ActiveStatuses
    PROVE  ~stopped
  <1>1. CASE Alive(record) /\ request # NoRequest
    <2>1. request.owner = record
      BY <1>1, ProcessAssumption DEF WorkerInv, RequestOwned, LaunchOnce, Alive
    <2>2. Working(record) /\ record \in Workers
      BY <1>1, <2>1 DEF WorkerInv, RequestOwned, Alive, Working
    <2> QED
      BY <2>2 DEF WorkerInv, MarkersHonest
  <1>2. CASE ~(Alive(record) /\ request # NoRequest)
    <2>1. CurrentLease # NoLease => CurrentLease.state \in LeaseStatuses
      BY DEF WorkerInv, BaseInv, TypeOK, CurrentLease
    <2> QED
      BY <1>2, <2>1 DEF Status, ActiveStatuses, LeaseStatuses
  <1> QED
    BY <1>1, <1>2

LEMMA RecheckedNext ==
    ASSUME WorkerInv, Rechecked, [Next]_vars
    PROVE  Rechecked'
  <1> USE ProcessAssumption DEF WorkerInv, BaseInv, TypeOK, LockDiscipline, Rechecked, Go, Goto,
        Return, Unlock, LockedPoints, files, NoCall
  <1>1. ASSUME NEW c \in Clients, Launch(c) PROVE Rechecked'
    BY <1>1 DEF Launch, LaunchPrepare, LaunchSpawn, LaunchSpawnFails, LaunchRecord,
        LaunchRecordFails
  <1>2. ASSUME NEW c \in Clients, Transition(c) PROVE Rechecked'
    <2>1. ASSUME NEW op \in Operations, Enter(c, op) PROVE Rechecked'
      BY <2>1, ActiveUnstopped DEF Enter
    <2>2. CASE Candidate(c) \/ Refuse(c) \/ SendQueued(c) \/ SendRespawns(c)
      BY <2>2 DEF Candidate, Refuse, SendQueued, SendRespawns, Call
    <2>3. CASE Condemn(c) \/ RespawnInactive(c)
      BY <2>3 DEF Condemn, RespawnInactive, Respawning, Refused, RefusesInactive, Call
    <2>4. CASE Terminate(c) \/ DropRequests(c) \/ MarkStopped(c)
      BY <2>4 DEF Terminate, DropRequests, MarkStopped, Call
    <2>5. CASE Refill(c) \/ RefillFails(c) \/ ClearRequests(c) \/ BlankExit(c)
      BY <2>5 DEF Refill, RefillFails, ClearRequests, BlankExit
    <2>6. CASE UnlinkStopped(c) \/ Spawn(c) \/ SpawnFails(c) \/ WriteRecord(c) \/ WriteRecordFails(c)
      BY <2>6 DEF UnlinkStopped, Spawn, SpawnFails, WriteRecord, WriteRecordFails, Start
    <2>7. CASE RestoreExit(c) \/ RestoreStopped(c)
      BY <2>7 DEF RestoreExit, RestoreStopped, Call
    <2>8. CASE RemoveMetadata(c) \/ RemoveRecord(c)
      BY <2>8 DEF RemoveMetadata, RemoveRecord, Call
    <2> QED
      BY <1>2, <2>1, <2>2, <2>3, <2>4, <2>5, <2>6, <2>7, <2>8 DEF Transition
  <1>3. ASSUME NEW c \in Clients, Terminal(c) \/ List(c) \/ Reap(c) \/ Crash(c)
        PROVE Rechecked'
    BY <1>3 DEF Terminal, Attach, Activate, ActivateFails, TerminalTurn,
        TerminalTurnEnds, Leave, Detach, List, Reap, Crash
  <1>4. ASSUME NEW w \in Workers, Worker(w) \/ WorkerKilled(w) PROVE Rechecked'
    <2>1. CASE TakeMessage(w) \/ WorkerDone(w) \/ BoundaryFails(w)
      BY <2>1 DEF TakeMessage, WorkerDone, BoundaryFails, clientVars
    <2>2. CASE StartTurn(w) \/ TurnBusy(w) \/ FinishTurn(w) \/ UnlinkMessage(w)
      BY <2>2 DEF StartTurn, TurnBusy, FinishTurn, UnlinkMessage, clientVars
    <2>3. CASE Ask(w) \/ SeeResponse(w) \/ EndPrompt(w)
      <3>1. CASE Ask(w)
        BY <3>1 DEF Ask, clientVars
      <3>2. CASE SeeResponse(w) \/ EndPrompt(w)
        BY <3>2 DEF SeeResponse, EndPrompt, clientVars
      <3> QED
        BY <2>3, <3>1, <3>2
    <2>4. CASE ProcessEnds(w) \/ WorkerKilled(w)
      BY <2>4 DEF ProcessEnds, WorkerKilled, clientVars
    <2> QED
      BY <1>4, <2>1, <2>2, <2>3, <2>4 DEF Worker
  <1>5. CASE Decide \/ ForeignTurn \/ ForeignTurnEnds \/ UNCHANGED vars
    BY <1>5 DEF Decide, ForeignTurn, ForeignTurnEnds, vars, clientVars
  <1> QED
    BY <1>1, <1>2, <1>3, <1>4, <1>5 DEF Next, Client

\* A step that takes the mark away belongs to an operation that asks for it.
LEMMA UnmarkStep ==
    ASSUME WorkerInv, Rechecked, [Next]_vars, stopped, ~stopped'
    PROVE  \E c \in Clients : lock = c /\ call[c].op \in {"send", "respawn", "remove"}
  <1>1. stopped' # stopped
    OBVIOUS
  <1>2. \E c \in Clients : UnlinkStopped(c) \/ RemoveRecord(c)
    <2>1. ASSUME NEW c \in Clients, Launch(c) PROVE FALSE
      BY <1>1, <2>1 DEF Launch, LaunchPrepare, LaunchSpawn, LaunchSpawnFails, LaunchRecord,
          LaunchRecordFails, files
    <2>2. ASSUME NEW c \in Clients, Transition(c) PROVE UnlinkStopped(c) \/ RemoveRecord(c)
      BY <1>1, <2>2 DEF Transition, Candidate, Enter, Refuse, SendQueued, SendRespawns, Condemn,
          RespawnInactive, Terminate, DropRequests, MarkStopped, Refill, RefillFails,
          ClearRequests, BlankExit, Spawn, SpawnFails, WriteRecord, WriteRecordFails,
          RestoreExit, RestoreStopped, RemoveMetadata, files
    <2>3. ASSUME NEW c \in Clients, Terminal(c) \/ List(c) \/ Reap(c) \/ Crash(c) PROVE FALSE
      BY <1>1, <2>3 DEF Terminal, Attach, Activate, ActivateFails, TerminalTurn,
          TerminalTurnEnds, Leave, Detach, List, Reap, Crash, files
    <2>4. ASSUME NEW w \in Workers, Worker(w) \/ WorkerKilled(w) PROVE FALSE
      BY <1>1, <2>4 DEF Worker, TakeMessage, WorkerDone, BoundaryFails, StartTurn, TurnBusy,
          FinishTurn, UnlinkMessage, Ask, SeeResponse, EndPrompt, ProcessEnds, WorkerKilled, files
    <2>5. ~(Decide \/ ForeignTurn \/ ForeignTurnEnds \/ UNCHANGED vars)
      BY <1>1 DEF Decide, ForeignTurn, ForeignTurnEnds, vars, files
    <2> QED
      BY <2>1, <2>2, <2>3, <2>4, <2>5 DEF Next, Client
  <1>3. PICK c \in Clients : UnlinkStopped(c) \/ RemoveRecord(c)
    BY <1>2
  <1>4. pc[c] \in LockedPoints /\ lock = c
    BY <1>3 DEF UnlinkStopped, RemoveRecord, LockedPoints, WorkerInv, BaseInv, LockDiscipline
  <1>5. call[c].op \in {"send", "respawn", "remove"}
    BY <1>3 DEF UnlinkStopped, RemoveRecord, Rechecked, LockedPoints
  <1> QED
    BY <1>4, <1>5

\* Stopping sticks, whatever has been listed before.
THEOREM StopsStick ==
    ASSUME Confined
    PROVE  Spec => StopSticks
  <1>1. Init => Rechecked
    BY DEF Init, Rechecked, LockedPoints
  <1>2. WorkerInv /\ Rechecked /\ [Next]_vars => Rechecked'
    BY RecheckedNext
  <1>3. WorkerInv /\ Rechecked /\ [Next]_vars =>
          [stopped /\ ~stopped' =>
             \E c \in Clients : /\ lock = c
                                /\ call[c].op \in {"send", "respawn", "remove"}]_vars
    BY UnmarkStep
  <1> QED
    BY <1>1, <1>2, <1>3, WorkerInvariant, PTL DEF Spec, StopSticks

-----------------------------------------------------------------------------
(* Failed respawns. *)

\* The status of a record without a lease and a live prompt, from its markers.
Marked(isStopped, exit) ==
    IF isStopped THEN "stopped"
    ELSE IF exit = "ok" THEN "completed"
    ELSE IF exit = "error" THEN "failed"
    ELSE "lost"

Dormant(c) == SeenFree(c) /\ call[c].status \notin ActiveStatuses

\* What an operation on an agent that is not active has read stays true under it.
ViewHolds ==
    \A c \in Clients : Dormant(c) =>
        /\ CurrentLease = NoLease
        /\ Alive(record) => request = NoRequest
        /\ call[c].status = Marked(call[c].stopped, call[c].exit)
        /\ call[c].status = "lost" => ~Alive(record)

\* The two steps of _restore_background_agent_terminal_state.
Restoring ==
    \A c \in Clients :
        /\ pc[c] \in {"restore", "restop"} => ~stopped
        /\ pc[c] = "restop" =>
               exitMark = IF call[c].exit = "absent" THEN "blank" ELSE call[c].exit

\* A dormant agent has been launched.
LEMMA DormantLaunched ==
    ASSUME WorkerInv, NEW c \in Clients, pc[c] \in LockedPoints,
           call[c].status # "not-found"
    PROVE  /\ record \in Workers /\ state[record] # "none" /\ lock = c
           /\ \A d \in Clients : pc[d] \notin {"launchSpawn", "launchRecord"}
  BY ProcessAssumption DEF WorkerInv, BaseInv, LockDiscipline, EntryView, LaunchOnce

LEMMA RestoringNext ==
    ASSUME WorkerInv, Restoring, [Next]_vars
    PROVE  Restoring'
  <1> USE ProcessAssumption DEF WorkerInv, BaseInv, TypeOK, LockDiscipline, Restoring, Go, Goto,
        Return, Unlock, LockedPoints, files, NoCall
  <1>0. ASSUME NEW c \in Clients, pc[c] \in {"restore", "restop"}
        PROVE  /\ lock = c /\ state[record] # "none" /\ record \in Workers
               /\ \A d \in Clients : pc[d] \notin {"launchSpawn", "launchRecord"}
    BY <1>0, DormantLaunched DEF EntryView
  <1>1. ASSUME NEW c \in Clients, Launch(c) PROVE Restoring'
    BY <1>0, <1>1 DEF Launch, LaunchPrepare, LaunchSpawn, LaunchSpawnFails, LaunchRecord,
        LaunchRecordFails, Fresh
  <1>2. ASSUME NEW c \in Clients, Transition(c) PROVE Restoring'
    <2>1. CASE \/ Candidate(c) \/ (\E op \in Operations : Enter(c, op)) \/ Refuse(c)
               \/ SendQueued(c) \/ SendRespawns(c) \/ Condemn(c) \/ RespawnInactive(c)
      BY <2>1 DEF Candidate, Enter, Refuse, SendQueued, SendRespawns, Condemn, RespawnInactive
    <2>2. CASE \/ Terminate(c) \/ DropRequests(c) \/ MarkStopped(c) \/ Refill(c) \/ RefillFails(c)
               \/ ClearRequests(c) \/ BlankExit(c) \/ UnlinkStopped(c)
      BY <2>2 DEF Terminate, DropRequests, MarkStopped, Refill, RefillFails, ClearRequests,
          BlankExit, UnlinkStopped
    <2>3. CASE Spawn(c) \/ SpawnFails(c) \/ WriteRecord(c) \/ WriteRecordFails(c)
      BY <2>3 DEF Spawn, SpawnFails, WriteRecord, WriteRecordFails, Prepared
    <2>4. CASE RestoreExit(c) \/ RestoreStopped(c) \/ RemoveRecord(c) \/ RemoveMetadata(c)
      BY <2>4 DEF RestoreExit, RestoreStopped, RemoveRecord, RemoveMetadata, Call
    <2> QED
      BY <1>2, <2>1, <2>2, <2>3, <2>4 DEF Transition
  <1>3. ASSUME NEW c \in Clients, Terminal(c) \/ List(c) \/ Reap(c) \/ Crash(c)
        PROVE Restoring'
    BY <1>3 DEF Terminal, Attach, Activate, ActivateFails, TerminalTurn,
        TerminalTurnEnds, Leave, Detach, List, Reap, Crash
  <1>4. ASSUME NEW w \in Workers, Worker(w) \/ WorkerKilled(w) PROVE Restoring'
    BY <1>0, <1>4 DEF Worker, TakeMessage, WorkerDone, BoundaryFails, StartTurn, TurnBusy,
        FinishTurn, UnlinkMessage, Ask, SeeResponse, EndPrompt, ProcessEnds, WorkerKilled,
        clientVars
  <1>5. CASE Decide \/ ForeignTurn \/ ForeignTurnEnds \/ UNCHANGED vars
    BY <1>5 DEF Decide, ForeignTurn, ForeignTurnEnds, vars, clientVars
  <1> QED
    BY <1>1, <1>2, <1>3, <1>4, <1>5 DEF Next, Client

\* What others do to the agent while c has the lock: at most unlink a stale lease,
\* end workers and drop the request of one.
LEMMA UnderLock ==
    ASSUME WorkerInv, [Next]_vars, NEW c \in Clients, call[c].status # "not-found",
           pc[c] \in LockedPoints, pc'[c] \in LockedPoints
    PROVE  /\ record' = record
           /\ lease' \in {lease, NoLease} /\ request' \in {request, NoRequest}
           /\ \A d \in Clients : pc[d] = "dead" => pc'[d] = "dead"
           /\ state'[record] \notin {"none", "dead"} => state[record] \notin {"none", "dead"}
  <1> DEFINE Goal ==
           /\ record' = record
           /\ lease' \in {lease, NoLease} /\ request' \in {request, NoRequest}
           /\ \A d \in Clients : pc[d] = "dead" => pc'[d] = "dead"
           /\ state'[record] \notin {"none", "dead"} => state[record] \notin {"none", "dead"}
  <1>0. /\ record \in Workers /\ state[record] # "none" /\ lock = c
        /\ \A d \in Clients : pc[d] \notin {"launchSpawn", "launchRecord"}
        /\ \A d \in Clients : pc[d] \in LockedPoints => d = c
    BY DormantLaunched, ProcessAssumption DEF WorkerInv, BaseInv, LockDiscipline
  <1> USE <1>0, ProcessAssumption DEF WorkerInv, BaseInv, TypeOK, Go, Goto, Return, Unlock,
        Kill, Start, Move, Fresh, Alive, LockedPoints, files, prompt, workerVars
  <1>1. ASSUME NEW d \in Clients, Launch(d) PROVE Goal
    BY <1>1 DEF Launch, LaunchPrepare, LaunchSpawn, LaunchSpawnFails, LaunchRecord,
        LaunchRecordFails
  <1>2. ASSUME NEW d \in Clients, Transition(d) PROVE Goal
    <2>1. CASE \/ Candidate(d) \/ (\E op \in Operations : Enter(d, op)) \/ Refuse(d)
               \/ SendQueued(d) \/ SendRespawns(d) \/ Condemn(d) \/ RespawnInactive(d)
      BY <2>1 DEF Candidate, Enter, Refuse, SendQueued, SendRespawns, Condemn, RespawnInactive
    <2>2. CASE \/ Terminate(d) \/ DropRequests(d) \/ MarkStopped(d) \/ Refill(d) \/ RefillFails(d)
      BY <2>2 DEF Terminate, DropRequests, MarkStopped, Refill, RefillFails, RemoveRequests
    <2>3. CASE ClearRequests(d) \/ BlankExit(d) \/ UnlinkStopped(d)
      BY <2>3 DEF ClearRequests, BlankExit, UnlinkStopped, RemoveRequests
    <2>4. CASE Spawn(d) \/ SpawnFails(d) \/ WriteRecord(d) \/ WriteRecordFails(d)
      BY <2>4 DEF Spawn, SpawnFails, WriteRecord, WriteRecordFails
    <2>5. CASE RestoreExit(d) \/ RestoreStopped(d) \/ RemoveRecord(d) \/ RemoveMetadata(d)
      BY <2>5 DEF RestoreExit, RestoreStopped, RemoveRecord, RemoveMetadata, RemoveRequests
    <2> QED
      BY <1>2, <2>1, <2>2, <2>3, <2>4, <2>5 DEF Transition
  <1>3. ASSUME NEW d \in Clients, Terminal(d) \/ List(d) \/ Reap(d) \/ Crash(d) PROVE Goal
    <2>1. CASE TerminalTurn(d) \/ TerminalTurnEnds(d) \/ Leave(d) \/ List(d) \/ Reap(d) \/ Crash(d)
      BY <2>1 DEF TerminalTurn, TerminalTurnEnds, Leave, List, Reap, Crash
    <2>2. ~(Attach(d) \/ Activate(d) \/ ActivateFails(d) \/ Detach(d))
      BY DEF Attach, Activate, ActivateFails, Detach
    <2> QED
      BY <1>3, <2>1, <2>2 DEF Terminal
  <1>4. ASSUME NEW w \in Workers, Worker(w) \/ WorkerKilled(w) PROVE Goal
    <2>1. ~(TakeMessage(w) \/ WorkerDone(w) \/ Ask(w) \/ EndPrompt(w))
      BY DEF TakeMessage, WorkerDone, Ask, EndPrompt
    <2>2. CASE \/ BoundaryFails(w) \/ StartTurn(w) \/ TurnBusy(w) \/ FinishTurn(w)
               \/ UnlinkMessage(w) \/ SeeResponse(w) \/ ProcessEnds(w) \/ WorkerKilled(w)
      BY <2>2 DEF BoundaryFails, StartTurn, TurnBusy, FinishTurn, UnlinkMessage, SeeResponse,
          ProcessEnds, WorkerKilled, clientVars
    <2> QED
      BY <1>4, <2>1, <2>2 DEF Worker
  <1>5. CASE Decide \/ ForeignTurn \/ ForeignTurnEnds \/ UNCHANGED vars
    BY <1>5 DEF Decide, ForeignTurn, ForeignTurnEnds, vars, clientVars
  <1> QED
    BY <1>1, <1>2, <1>3, <1>4, <1>5 DEF Next, Client

\* A client gets a view of the agent only when it enters.
LEMMA ViewFromEntry ==
    ASSUME WorkerInv, [Next]_vars, NEW c \in Clients, pc'[c] \in LockedPoints,
           \A op \in Operations : ~Enter(c, op)
    PROVE  pc[c] \in LockedPoints /\ call'[c] = call[c]
  <1> USE DEF WorkerInv, BaseInv, TypeOK, Go, Goto, Return, Unlock, LockedPoints
  <1>1. ASSUME NEW d \in Clients, Launch(d) PROVE pc[c] \in LockedPoints /\ call'[c] = call[c]
    BY <1>1 DEF Launch, LaunchPrepare, LaunchSpawn, LaunchSpawnFails, LaunchRecord,
        LaunchRecordFails
  <1>2. ASSUME NEW d \in Clients, Transition(d) PROVE pc[c] \in LockedPoints /\ call'[c] = call[c]
    BY <1>2 DEF Transition, Candidate, Enter, Refuse, SendQueued, SendRespawns, Condemn,
        RespawnInactive, Terminate, DropRequests, MarkStopped, Refill, RefillFails,
        ClearRequests, BlankExit, UnlinkStopped, Spawn, SpawnFails, WriteRecord,
        WriteRecordFails, RestoreExit, RestoreStopped, RemoveMetadata, RemoveRecord
  <1>3. ASSUME NEW d \in Clients, Terminal(d) \/ List(d) \/ Reap(d) \/ Crash(d)
        PROVE pc[c] \in LockedPoints /\ call'[c] = call[c]
    BY <1>3 DEF Terminal, Attach, Activate, ActivateFails, TerminalTurn,
        TerminalTurnEnds, Leave, Detach, List, Reap, Crash
  <1>4. ASSUME NEW w \in Workers, Worker(w) \/ WorkerKilled(w)
        PROVE pc[c] \in LockedPoints /\ call'[c] = call[c]
    BY <1>4 DEF Worker, TakeMessage, WorkerDone, BoundaryFails, StartTurn, TurnBusy,
        FinishTurn, UnlinkMessage, Ask, SeeResponse, EndPrompt, ProcessEnds, WorkerKilled,
        clientVars
  <1>5. CASE Decide \/ ForeignTurn \/ ForeignTurnEnds \/ UNCHANGED vars
    BY <1>5 DEF Decide, ForeignTurn, ForeignTurnEnds, vars, clientVars
  <1> QED
    BY <1>1, <1>2, <1>3, <1>4, <1>5 DEF Next, Client

LEMMA ViewNext ==
    ASSUME WorkerInv, ViewHolds, [Next]_vars
    PROVE  ViewHolds'
  <1> SUFFICES ASSUME NEW c \in Clients, Dormant(c)'
               PROVE  /\ (CurrentLease = NoLease)'
                      /\ (Alive(record) => request = NoRequest)'
                      /\ (call[c].status = Marked(call[c].stopped, call[c].exit))'
                      /\ (call[c].status = "lost" => ~Alive(record))'
    BY DEF ViewHolds
  <1>1. ASSUME NEW op \in Operations, Enter(c, op)
        PROVE  /\ (CurrentLease = NoLease)'
               /\ (Alive(record) => request = NoRequest)'
               /\ (call[c].status = Marked(call[c].stopped, call[c].exit))'
               /\ (call[c].status = "lost" => ~Alive(record))'
    <2>1. /\ call'[c] = [op |-> op, status |-> Status, exit |-> exitMark, stopped |-> stopped]
          /\ lease' = CurrentLease /\ UNCHANGED <<record, request, state>>
      BY <1>1 DEF Enter, WorkerInv, BaseInv, TypeOK, files, prompt, workerVars
    <2>2. Status \notin ActiveStatuses \cup LeaseStatuses \cup {"not-found"}
      BY <2>1 DEF Dormant, SeenFree
    <2>3. CurrentLease = NoLease
      BY <2>2 DEF Status, CurrentLease, NoLease, WorkerInv, BaseInv, TypeOK
    <2>4. /\ ~(Alive(record) /\ request # NoRequest) /\ record # NoProcess
          /\ Status = Marked(stopped, exitMark)
          /\ Status = "lost" => ~Alive(record)
      BY <2>2, <2>3 DEF Status, Marked, ActiveStatuses
    <2>5. (CurrentLease = NoLease)'
      BY <2>1, <2>3 DEF CurrentLease, NoLease
    <2> QED
      BY <2>1, <2>4, <2>5 DEF Alive
  <1>2. ASSUME \A op \in Operations : ~Enter(c, op)
        PROVE  /\ (CurrentLease = NoLease)'
               /\ (Alive(record) => request = NoRequest)'
               /\ (call[c].status = Marked(call[c].stopped, call[c].exit))'
               /\ (call[c].status = "lost" => ~Alive(record))'
    <2>1. pc[c] \in LockedPoints /\ pc'[c] \in LockedPoints /\ call'[c] = call[c]
      BY <1>2, ViewFromEntry DEF Dormant, SeenFree
    <2>2. Dormant(c) /\ call[c].status # "not-found"
      BY <2>1 DEF Dormant, SeenFree
    <2>3. /\ record' = record
          /\ lease' \in {lease, NoLease} /\ request' \in {request, NoRequest}
          /\ \A d \in Clients : pc[d] = "dead" => pc'[d] = "dead"
          /\ state'[record] \notin {"none", "dead"} => state[record] \notin {"none", "dead"}
      BY <2>1, <2>2, UnderLock
    <2>4. (CurrentLease = NoLease)'
      BY <2>2, <2>3 DEF ViewHolds, CurrentLease
    <2>5. Alive(record)' => Alive(record)
      BY <2>3 DEF Alive
    <2> QED
      BY <2>1, <2>2, <2>3, <2>4, <2>5 DEF ViewHolds
  <1> QED
    BY <1>1, <1>2

\* A failed respawn of an agent that was not active leaves it with its status.
THEOREM FailuresRestore ==
    ASSUME Confined
    PROVE  Spec => FailedRespawnRestores
  <1> DEFINE Inv == ViewHolds /\ Restoring
             Restores == \A c \in Clients :
                 pc[c] = "restop" /\ pc'[c] = "idle" /\ call[c].status \notin ActiveStatuses
                     => Status' = call[c].status
  <1>1. Init => Inv
    BY DEF Init, ViewHolds, Restoring, Dormant, SeenFree, LockedPoints
  <1>2. WorkerInv /\ Inv /\ [Next]_vars => Inv'
    BY ViewNext, RestoringNext
  <1>3. WorkerInv /\ Inv /\ [Next]_vars => [Restores]_vars
    <2> SUFFICES ASSUME WorkerInv, Inv, [Next]_vars, NEW c \in Clients, pc[c] = "restop",
                        pc'[c] = "idle", call[c].status \notin ActiveStatuses
                 PROVE  Status' = call[c].status
      OBVIOUS
    <2>1. Dormant(c) /\ record \in Workers /\ lock = c
      BY DEF Dormant, SeenFree, LockedPoints, WorkerInv, BaseInv, LockDiscipline, EntryView
    <2>2. RestoreStopped(c)
      <3> USE DEF WorkerInv, BaseInv, TypeOK, Go, Goto, Return, Unlock
      <3>1. ASSUME NEW d \in Clients, Launch(d) PROVE FALSE
        BY <3>1 DEF Launch, LaunchPrepare, LaunchSpawn, LaunchSpawnFails, LaunchRecord,
            LaunchRecordFails
      <3>2. ASSUME NEW d \in Clients, Transition(d) PROVE RestoreStopped(c)
        <4>1. ASSUME RestoreStopped(d) PROVE d = c
          BY <4>1 DEF RestoreStopped
        <4>2. CASE RestoreExit(d) \/ RemoveMetadata(d) \/ RemoveRecord(d)
          BY <4>2 DEF RestoreExit, RemoveMetadata, RemoveRecord
        <4>3. CASE \/ Candidate(d) \/ (\E op \in Operations : Enter(d, op)) \/ Refuse(d)
                   \/ SendQueued(d) \/ SendRespawns(d) \/ Condemn(d) \/ RespawnInactive(d)
          BY <4>3 DEF Candidate, Enter, Refuse, SendQueued, SendRespawns, Condemn, RespawnInactive
        <4>4. CASE \/ Terminate(d) \/ DropRequests(d) \/ MarkStopped(d) \/ Refill(d)
                   \/ RefillFails(d) \/ ClearRequests(d) \/ BlankExit(d) \/ UnlinkStopped(d)
          BY <4>4 DEF Terminate, DropRequests, MarkStopped, Refill, RefillFails, ClearRequests,
              BlankExit, UnlinkStopped
        <4>5. CASE Spawn(d) \/ SpawnFails(d) \/ WriteRecord(d) \/ WriteRecordFails(d)
          BY <4>5 DEF Spawn, SpawnFails, WriteRecord, WriteRecordFails
        <4> QED
          BY <3>2, <4>1, <4>2, <4>3, <4>4, <4>5 DEF Transition
      <3>3. ASSUME NEW d \in Clients, Terminal(d) \/ List(d) \/ Reap(d) \/ Crash(d) PROVE FALSE
        BY <3>3 DEF Terminal, Attach, Activate, ActivateFails, TerminalTurn,
            TerminalTurnEnds, Leave, Detach, List, Reap, Crash
      <3>4. ASSUME NEW w \in Workers, Worker(w) \/ WorkerKilled(w) PROVE FALSE
        BY <3>4 DEF Worker, TakeMessage, WorkerDone, BoundaryFails, StartTurn, TurnBusy,
            FinishTurn, UnlinkMessage, Ask, SeeResponse, EndPrompt, ProcessEnds, WorkerKilled,
            clientVars
      <3>5. ~(Decide \/ ForeignTurn \/ ForeignTurnEnds \/ UNCHANGED vars)
        BY DEF Decide, ForeignTurn, ForeignTurnEnds, vars, clientVars
      <3> QED
        BY <3>1, <3>2, <3>3, <3>4, <3>5 DEF Next, Client
    <2>3. /\ UNCHANGED <<record, exitMark, lease, request, state>>
          /\ stopped' = call[c].stopped /\ pc' = [pc EXCEPT ![c] = "idle"]
      BY <2>2 DEF RestoreStopped, Restoring, Call, Unlock, Return, Go, prompt, workerVars,
         WorkerInv, BaseInv, TypeOK
    <2>4. (CurrentLease = NoLease)'
      BY <2>1, <2>3 DEF ViewHolds, CurrentLease, NoLease, WorkerInv, BaseInv, TypeOK
    <2>5. /\ (Alive(record) => request = NoRequest)'
          /\ call[c].status = Marked(stopped', exitMark')
          /\ call[c].status = "lost" => ~Alive(record)'
      BY <2>1, <2>3 DEF ViewHolds, Restoring, Marked, Alive, NoRequest
    <2> QED
      BY <2>1, <2>3, <2>4, <2>5, ProcessAssumption DEF Status, Marked
  <1> QED
    BY <1>1, <1>2, <1>3, WorkerInvariant, PTL DEF Spec, FailedRespawnRestores
=============================================================================
