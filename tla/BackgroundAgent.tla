--------------------------- MODULE BackgroundAgent ---------------------------
(***************************************************************************)
(* The supervisor of one detached ("background") agent: the files under    *)
(* .vibeagent/background-agents/ that describe it, the worker processes    *)
(* that run its turns, and the client processes (CLI commands, the agent   *)
(* dashboard, the remote-control server, attaching terminals) that send it *)
(* messages, stop, respawn, remove or take it over.                        *)
(*                                                                         *)
(* Every agent has its own files, its own transition lock and its own      *)
(* workers, so one agent is the whole state of the protocol.  A client     *)
(* operation that holds the transition lock is one action per file         *)
(* operation, because workers run and processes die between them.          *)
(*                                                                         *)
(* Op_Variant is Op with a plausible bug; the properties are tested        *)
(* against these variants, no specification uses them.                     *)
(***************************************************************************)
EXTENDS Naturals

CONSTANTS
    Clients,      \* client processes
    Workers,      \* worker processes (a pid with its start ticks is never reused)
    MaxMessages,  \* bound on the messages ever enqueued
    Commands,     \* the operations clients use, a subset of Operations
    Faults,       \* what can go wrong in the environment, a subset of AllFaults
    CrashPoints,  \* control points at which a client process may die
    NoProcess     \* "no process": no record, no lock holder, no lease

Operations == {"launch", "send", "respawn", "respawnAll", "stop", "remove",
               "attach", "list"}

AllFaults == {"spawn",       \* starting the worker process raises
              "record",      \* writing the agent record raises
              "death",       \* a worker is killed from outside (OOM, reboot)
              "unreadable",  \* a request file exceeds MAX_APPROVAL_BYTES
              "foreign"}     \* another process runs a turn of the same session

\* Control points of a client.  At a LockedPoint it holds the transition lock.
LockedPoints == {"enter", "kill", "drop", "refill", "clear", "blank", "unstop",
                 "spawn", "record", "restore", "restop", "mark", "erase"}
LeasePoints  == {"wait", "interactive", "turn", "detach"}
Points == LockedPoints \cup LeasePoints
          \cup {"idle", "launchSpawn", "launchRecord", "candidate", "reap", "dead"}

\* Between the start of a worker process and the write of the record that names it.
SpawnWindow == {"record", "launchRecord"}

Foreign == "foreign"     \* the other process of the "foreign" fault

ASSUME ProcessAssumption == /\ {NoProcess, Foreign} \cap (Clients \cup Workers) = {}
                            /\ Clients \cap Workers = {}
ASSUME BoundAssumption   == MaxMessages \in Nat
ASSUME ChoiceAssumption  == /\ Commands \subseteq Operations
                            /\ Faults \subseteq AllFaults
                            /\ CrashPoints \subseteq Points \ {"idle", "dead"}

Messages  == 1 .. MaxMessages
NoMessage == 0
ExitMarks == {"absent", "blank", "ok", "error"}

NoLease   == [owner |-> NoProcess, state |-> "none"]
NoRequest == [owner |-> NoProcess, readable |-> TRUE]

ActiveStatuses == {"running", "needs-input", "approval-error"}
LeaseStatuses  == {"attaching", "attached"}
Statuses == ActiveStatuses \cup LeaseStatuses
            \cup {"not-found", "stopped", "completed", "failed", "lost"}

VARIABLES
    record,     \* the worker named by <id>.json, NoProcess when there is none
    config,     \* the configuration file exists
    exitMark,   \* content of <id>.exitcode
    stopped,    \* the .stopped marker exists
    inbox,      \* the message files (their names sort as the numbers do)
    sent,       \* how many messages have been enqueued (message m is the m-th)
    ran,        \* history: the messages some turn has run with
    lease,      \* the attachment file
    request,    \* the approval or user-input request file
    response,   \* the worker the response file answers, NoProcess when absent
    lock,       \* holder of the transition lock
    turnLock,   \* holder of the session's turn lock
    pc, call,   \* per client: control point; operation and the view it read
    target,     \* per client: the worker it started or waits for
    state, hand, code  \* per worker: state, message in hand, last exit code

files      == <<record, config, exitMark, stopped>>
mail       == <<inbox, sent, ran>>
prompt     == <<request, response>>
clientVars == <<pc, call, target>>
workerVars == <<state, hand, code>>
vars == <<files, mail, lease, prompt, lock, turnLock, clientVars, workerVars>>

WorkerStates == {"none",      \* not started
                 "boundary",  \* about to take the lock between two turns
                 "ready",     \* about to run a turn
                 "turn",      \* in cli_main
                 "asking",    \* in a turn, polling for a response file
                 "answered",  \* in a turn, about to clean up its request
                 "finished",  \* the turn returned, its message file is still there
                 "exited",    \* the exit code is written, the process is closing
                 "dead"}

\* The states in which a process exists, and those in which it still works.
Alive(w)   == w \in Workers /\ state[w] \notin {"none", "dead"}
Working(w) == w \in Workers /\ state[w] \notin {"none", "exited", "dead"}

Call(c) == call[c]
NoCall  == [op |-> "list", status |-> "not-found", exit |-> "absent", stopped |-> FALSE]

TypeOK ==
    /\ record \in Workers \cup {NoProcess}
    /\ config \in BOOLEAN
    /\ exitMark \in ExitMarks
    /\ stopped \in BOOLEAN
    /\ inbox \subseteq Messages
    /\ sent \in 0 .. MaxMessages
    /\ ran \subseteq Messages
    /\ lease \in {NoLease} \cup [owner : Clients, state : LeaseStatuses]
    /\ request \in [owner : Workers \cup {NoProcess}, readable : BOOLEAN]
    /\ response \in Workers \cup {NoProcess}
    /\ lock \in Clients \cup {NoProcess}
    /\ turnLock \in Clients \cup Workers \cup {NoProcess, Foreign}
    /\ pc \in [Clients -> Points]
    /\ call \in [Clients -> [op : Operations, status : Statuses,
                             exit : ExitMarks, stopped : BOOLEAN]]
    /\ target \in [Clients -> Workers \cup {NoProcess}]
    /\ state \in [Workers -> WorkerStates]
    /\ hand \in [Workers -> Messages \cup {NoMessage}]
    /\ code \in [Workers -> {"ok", "error"}]

Init ==
    /\ record = NoProcess /\ config = FALSE /\ exitMark = "absent" /\ stopped = FALSE
    /\ inbox = {} /\ sent = 0 /\ ran = {}
    /\ lease = NoLease
    /\ request = NoRequest /\ response = NoProcess
    /\ lock = NoProcess /\ turnLock = NoProcess
    /\ pc = [c \in Clients |-> "idle"]
    /\ call = [c \in Clients |-> NoCall]
    /\ target = [c \in Clients |-> NoProcess]
    /\ state = [w \in Workers |-> "none"]
    /\ hand = [w \in Workers |-> NoMessage]
    /\ code = [w \in Workers |-> "ok"]

-----------------------------------------------------------------------------
(* Reading the files. *)

\* The lease as a reader sees it: that of a process that died is unlinked on read.
CurrentLease ==
    IF lease.owner \in Clients /\ pc[lease.owner] = "dead" THEN NoLease ELSE lease

\* The status a view derives from the files and the recorded process, in the
\* order of background_agent_view's returns.
Status ==
    IF record = NoProcess THEN "not-found"
    ELSE IF CurrentLease # NoLease THEN CurrentLease.state
    ELSE IF Alive(record) /\ request # NoRequest
         THEN IF request.readable THEN "needs-input" ELSE "approval-error"
    ELSE IF stopped THEN "stopped"
    ELSE IF exitMark = "ok" THEN "completed"
    ELSE IF exitMark = "error" THEN "failed"
    ELSE IF Alive(record) THEN "running" ELSE "lost"

\* next_background_agent_message takes the first file in name order.
Oldest_Newest(queue) == CHOOSE m \in queue : \A n \in queue : m >= n
Oldest(queue) == CHOOSE m \in queue : \A n \in queue : m <= n

Fresh(w) == w \in Workers /\ state[w] = "none"
Go(c, point) == pc' = [pc EXCEPT ![c] = point]
Goto(c, point) == Go(c, point) /\ UNCHANGED lock

\* The operation returns: its local variables are gone.
Return(c) == /\ Go(c, "idle")
             /\ call' = [call EXCEPT ![c] = NoCall]
             /\ target' = [target EXCEPT ![c] = NoProcess]
Unlock(c) == Return(c) /\ lock' = NoProcess

\* terminate_persistent_process: SIGTERM, then SIGKILL, to the process group.
Kill(w) ==
    IF Alive(w)
    THEN /\ state' = [state EXCEPT ![w] = "dead"]
         /\ turnLock' = IF turnLock = w THEN NoProcess ELSE turnLock
         /\ UNCHANGED <<hand, code>>
    ELSE UNCHANGED <<workerVars, turnLock>>

\* spawn_background_agent_worker: a process that starts at the given point.
Start(c, w, point) ==
    /\ Fresh(w)
    /\ state' = [state EXCEPT ![w] = point]
    /\ target' = [target EXCEPT ![c] = w]
    /\ UNCHANGED <<hand, code>>

-----------------------------------------------------------------------------
(* launch_background_agent: no lock, nobody knows the agent id yet. *)

LaunchPrepare(c) ==
    /\ "launch" \in Commands /\ pc[c] = "idle" /\ ~config
    /\ \A w \in Workers : Fresh(w)
    /\ config' = TRUE
    /\ exitMark' = "blank"
    /\ Goto(c, "launchSpawn")
    /\ UNCHANGED <<record, stopped, mail, lease, prompt, turnLock, call, target, workerVars>>

LaunchSpawn(c) ==
    /\ pc[c] = "launchSpawn"
    /\ \E w \in Workers : Start(c, w, "ready")
    /\ Goto(c, "launchRecord")
    /\ UNCHANGED <<files, mail, lease, prompt, turnLock, call>>

LaunchSpawnFails(c) ==
    /\ pc[c] = "launchSpawn" /\ "spawn" \in Faults
    /\ config' = FALSE /\ exitMark' = "absent"
    /\ Return(c)
    /\ UNCHANGED <<record, stopped, mail, lease, prompt, lock, turnLock, workerVars>>

LaunchRecord_OwnPid(c) ==
    /\ pc[c] = "launchRecord"
    /\ record' = c
    /\ Return(c)
    /\ UNCHANGED <<config, exitMark, stopped, mail, lease, prompt, lock, turnLock, workerVars>>

LaunchRecord(c) ==
    /\ pc[c] = "launchRecord"
    /\ record' = target[c]
    /\ Return(c)
    /\ UNCHANGED <<config, exitMark, stopped, mail, lease, prompt, lock, turnLock, workerVars>>

\* The record cannot be written: the worker is terminated, its files removed.
LaunchRecordFails(c) ==
    /\ pc[c] = "launchRecord" /\ "record" \in Faults
    /\ Kill(target[c])
    /\ config' = FALSE /\ exitMark' = "absent"
    /\ request' = NoRequest /\ response' = NoProcess
    /\ inbox' = {}
    /\ Return(c)
    /\ UNCHANGED <<record, stopped, sent, ran, lease, lock>>

-----------------------------------------------------------------------------
(* The operations that run under the transition lock. *)

\* respawn --all first lists the active agents, without any lock.
Candidate(c) ==
    /\ "respawnAll" \in Commands /\ pc[c] = "idle" /\ Status \in ActiveStatuses
    /\ Goto(c, "candidate")
    /\ UNCHANGED <<files, mail, lease, prompt, turnLock, call, target, workerVars>>

CanSend == sent < MaxMessages
CanSpawn == \E w \in Workers : Fresh(w)

\* Take the lock and read the view.  A process is bounded by the constants: an
\* operation that may enqueue or spawn starts only while it could do so.
Enter(c, op) ==
    /\ IF op = "respawnAll" THEN pc[c] = "candidate" ELSE pc[c] = "idle"
    /\ op \in Commands \cap {"send", "respawn", "respawnAll", "stop", "remove"}
    /\ lock = NoProcess
    /\ op \in {"send", "respawn", "respawnAll"} => CanSend /\ CanSpawn
    /\ lock' = c
    /\ Go(c, "enter")
    /\ lease' = CurrentLease
    /\ call' = [call EXCEPT ![c] = [op |-> op, status |-> Status,
                                    exit |-> exitMark, stopped |-> stopped]]
    /\ UNCHANGED <<files, mail, prompt, turnLock, target, workerVars>>

\* No such agent, or _reject_attached_background_agent.
RefusesLease_Never(c) == Call(c).status = "not-found"
RefusesLease(c) == Call(c).status \in LeaseStatuses \cup {"not-found"}

\* remove keeps an agent that is active, in whatever way.
RefusesActive_Running(c) == Call(c).op = "remove" /\ Call(c).status = "running"
RefusesActive(c) == Call(c).op = "remove" /\ Call(c).status \in ActiveStatuses

\* stop has nothing to do, and respawn --all rechecks what it listed.
RefusesInactive_NoRecheck(c) == Call(c).op = "stop" /\ Call(c).status \notin ActiveStatuses
RefusesInactive(c) ==
    Call(c).op \in {"stop", "respawnAll"} /\ Call(c).status \notin ActiveStatuses

Refused(c) == \/ RefusesLease(c) \/ RefusesActive(c) \/ RefusesInactive(c)
              \/ Call(c).op = "send" /\ ~config

Refuse(c) ==
    /\ pc[c] = "enter" /\ Refused(c)
    /\ Unlock(c)
    /\ UNCHANGED <<files, mail, lease, prompt, turnLock, workerVars>>

Enqueue == /\ inbox' = inbox \cup {sent + 1}
           /\ sent' = sent + 1
           /\ UNCHANGED ran

\* A live worker reads the message at its next boundary; otherwise one is started.
WorkerTakesIt_OnlyRunning(c) == Call(c).status = "running"
WorkerTakesIt_Always(c) == TRUE
WorkerTakesIt(c) == Call(c).status \in {"running", "needs-input"}

SendQueued(c) ==
    /\ pc[c] = "enter" /\ Call(c).op = "send" /\ ~Refused(c)
    /\ WorkerTakesIt(c)
    /\ Enqueue
    /\ Unlock(c)
    /\ UNCHANGED <<files, lease, prompt, turnLock, workerVars>>

SendRespawns(c) ==
    /\ pc[c] = "enter" /\ Call(c).op = "send" /\ ~Refused(c)
    /\ ~WorkerTakesIt(c)
    /\ Enqueue
    /\ Goto(c, "clear")
    /\ UNCHANGED <<files, lease, prompt, turnLock, call, target, workerVars>>

Respawning(c) == Call(c).op \in {"respawn", "respawnAll"}

\* stop, and respawn of an active agent, end the recorded worker first.
Condemn(c) ==
    /\ pc[c] = "enter" /\ ~Refused(c)
    /\ Call(c).status \in ActiveStatuses
    /\ Respawning(c) \/ Call(c).op = "stop"
    /\ Goto(c, "kill")
    /\ UNCHANGED <<files, mail, lease, prompt, turnLock, call, target, workerVars>>

RespawnInactive(c) ==
    /\ pc[c] = "enter" /\ ~Refused(c)
    /\ Respawning(c) /\ Call(c).status \notin ActiveStatuses
    /\ Goto(c, "refill")
    /\ UNCHANGED <<files, mail, lease, prompt, turnLock, call, target, workerVars>>

Terminate_OnlyRequests(c) ==
    /\ pc[c] = "kill"
    /\ Goto(c, "drop")
    /\ UNCHANGED <<files, mail, lease, prompt, turnLock, call, target, workerVars>>

Terminate(c) ==
    /\ pc[c] = "kill"
    /\ Kill(record)
    /\ Goto(c, "drop")
    /\ UNCHANGED <<files, mail, lease, prompt, call, target>>

\* remove_background_approval and remove_background_user_input.
RemoveRequests == request' = NoRequest /\ response' = NoProcess

DropRequests(c) ==
    /\ pc[c] = "drop"
    /\ RemoveRequests
    /\ Goto(c, IF Call(c).op = "stop" THEN "mark" ELSE "refill")
    /\ UNCHANGED <<files, mail, lease, turnLock, call, target, workerVars>>

MarkStopped(c) ==
    /\ pc[c] = "mark"
    /\ stopped' = TRUE
    /\ Unlock(c)
    /\ UNCHANGED <<record, config, exitMark, mail, lease, prompt, turnLock, workerVars>>

\* A respawned worker needs a message: "Continue ..." when none is queued.
Refill(c) ==
    /\ pc[c] = "refill" /\ config
    /\ IF inbox = {} THEN Enqueue ELSE UNCHANGED mail
    /\ Goto(c, "clear")
    /\ UNCHANGED <<files, lease, prompt, turnLock, call, target, workerVars>>

\* A crashed removal left a record without its configuration: reading it raises.
RefillFails(c) ==
    /\ pc[c] = "refill" /\ ~config
    /\ Unlock(c)
    /\ UNCHANGED <<files, mail, lease, prompt, turnLock, workerVars>>

\* _respawn_background_agent_locked, one file operation at a time.
ClearRequests_Kept(c) ==
    /\ pc[c] = "clear"
    /\ Goto(c, "blank")
    /\ UNCHANGED <<files, mail, lease, prompt, turnLock, call, target, workerVars>>

ClearRequests(c) ==
    /\ pc[c] = "clear"
    /\ RemoveRequests
    /\ Goto(c, "blank")
    /\ UNCHANGED <<files, mail, lease, turnLock, call, target, workerVars>>

BlankExit_Kept(c) ==
    /\ pc[c] = "blank"
    /\ Goto(c, "unstop")
    /\ UNCHANGED <<files, mail, lease, prompt, turnLock, call, target, workerVars>>

BlankExit(c) ==
    /\ pc[c] = "blank"
    /\ exitMark' = "blank"
    /\ Goto(c, "unstop")
    /\ UNCHANGED <<record, config, stopped, mail, lease, prompt, turnLock, call, target,
                   workerVars>>

UnlinkStopped_Kept(c) ==
    /\ pc[c] = "unstop"
    /\ Goto(c, "spawn")
    /\ UNCHANGED <<files, mail, lease, prompt, turnLock, call, target, workerVars>>

UnlinkStopped(c) ==
    /\ pc[c] = "unstop"
    /\ stopped' = FALSE
    /\ Goto(c, "spawn")
    /\ UNCHANGED <<record, config, exitMark, mail, lease, prompt, turnLock, call, target,
                   workerVars>>

Spawn(c) ==
    /\ pc[c] = "spawn"
    /\ \E w \in Workers : Start(c, w, "boundary")
    /\ Goto(c, "record")
    /\ UNCHANGED <<files, mail, lease, prompt, turnLock, call>>

SpawnFails(c) ==
    /\ pc[c] = "spawn" /\ "spawn" \in Faults
    /\ Goto(c, "restore")
    /\ UNCHANGED <<files, mail, lease, prompt, turnLock, call, target, workerVars>>

WriteRecord(c) ==
    /\ pc[c] = "record"
    /\ record' = target[c]
    /\ Unlock(c)
    /\ UNCHANGED <<config, exitMark, stopped, mail, lease, prompt, turnLock, workerVars>>

WriteRecordFails(c) ==
    /\ pc[c] = "record" /\ "record" \in Faults
    /\ Kill(target[c])
    /\ Goto(c, "restore")
    /\ UNCHANGED <<files, mail, lease, prompt, call, target>>

\* _restore_background_agent_terminal_state
RestoreExit_Blank(c) ==
    /\ pc[c] = "restore"
    /\ exitMark' = "blank"
    /\ Goto(c, "restop")
    /\ UNCHANGED <<record, config, stopped, mail, lease, prompt, turnLock, call, target,
                   workerVars>>

RestoreExit(c) ==
    /\ pc[c] = "restore"
    /\ exitMark' = IF Call(c).exit = "absent" THEN "blank" ELSE Call(c).exit
    /\ Goto(c, "restop")
    /\ UNCHANGED <<record, config, stopped, mail, lease, prompt, turnLock, call, target,
                   workerVars>>

RestoreStopped(c) ==
    /\ pc[c] = "restop"
    /\ stopped' = (stopped \/ Call(c).stopped)
    /\ Unlock(c)
    /\ UNCHANGED <<record, config, exitMark, mail, lease, prompt, turnLock, workerVars>>

\* remove_background_agent: the metadata first, the record last.
RemoveMetadata(c) ==
    /\ pc[c] = "enter" /\ Call(c).op = "remove" /\ ~Refused(c)
    /\ config' = FALSE
    /\ inbox' = {}
    /\ lease' = NoLease
    /\ RemoveRequests
    /\ Goto(c, "erase")
    /\ UNCHANGED <<record, exitMark, stopped, sent, ran, turnLock, call, target, workerVars>>

RemoveRecord(c) ==
    /\ pc[c] = "erase"
    /\ exitMark' = "absent" /\ stopped' = FALSE /\ record' = NoProcess
    /\ Unlock(c)
    /\ UNCHANGED <<config, mail, lease, prompt, turnLock, workerVars>>

\* decide_background_approval and answer_background_user_input: one exclusive write.
Decide ==
    /\ lock = NoProcess
    /\ request # NoRequest /\ request.readable
    /\ response = NoProcess
    /\ response' = request.owner
    /\ UNCHANGED <<files, mail, lease, request, lock, turnLock, clientVars, workerVars>>

-----------------------------------------------------------------------------
(* attach_background_agent: a terminal takes the session over. *)

Attach(c) ==
    /\ "attach" \in Commands /\ pc[c] = "idle" /\ lock = NoProcess
    /\ record # NoProcess /\ config
    /\ Status \notin {"needs-input", "approval-error"}
    /\ CurrentLease = NoLease
    /\ lease' = [owner |-> c, state |-> IF Alive(record) THEN "attaching" ELSE "attached"]
    /\ target' = [target EXCEPT ![c] = record]
    /\ Goto(c, "wait")
    /\ UNCHANGED <<files, mail, prompt, turnLock, call, workerVars>>

\* The poll of attach: the process recorded at the claim no longer runs.
WorkerGone_ExitCode(c) == exitMark \in {"ok", "error"}
WorkerGone(c) == ~Alive(target[c])

\* The poll saw the worker gone, the lock is free and the lease still ours.
Activate(c) ==
    /\ pc[c] = "wait" /\ WorkerGone(c) /\ lock = NoProcess
    /\ CurrentLease.owner = c
    /\ lease' = [lease EXCEPT !.state = "attached"]
    /\ Goto(c, "interactive")
    /\ UNCHANGED <<files, mail, prompt, turnLock, call, target, workerVars>>

\* "Background agent attachment was lost" or "belongs to another terminal".
ActivateFails(c) ==
    /\ pc[c] = "wait" /\ WorkerGone(c) /\ lock = NoProcess
    /\ CurrentLease.owner # c
    /\ lease' = CurrentLease
    /\ Goto(c, "detach")
    /\ UNCHANGED <<files, mail, prompt, turnLock, call, target, workerVars>>

\* The interactive session runs turns of its own, under the session's turn lock.
TerminalTurn(c) ==
    /\ pc[c] = "interactive" /\ turnLock = NoProcess
    /\ turnLock' = c
    /\ Goto(c, "turn")
    /\ UNCHANGED <<files, mail, lease, prompt, call, target, workerVars>>

TerminalTurnEnds(c) ==
    /\ pc[c] = "turn"
    /\ turnLock' = NoProcess
    /\ Goto(c, "interactive")
    /\ UNCHANGED <<files, mail, lease, prompt, call, target, workerVars>>

\* Exit of the interactive session, or Ctrl-C while waiting.
Leave(c) ==
    /\ pc[c] \in {"wait", "interactive"}
    /\ Goto(c, "detach")
    /\ UNCHANGED <<files, mail, lease, prompt, turnLock, call, target, workerVars>>

Detach(c) ==
    /\ pc[c] = "detach" /\ lock = NoProcess
    /\ lease' = IF CurrentLease.owner = c THEN NoLease ELSE CurrentLease
    /\ Return(c)
    /\ UNCHANGED <<files, mail, prompt, lock, turnLock, workerVars>>

-----------------------------------------------------------------------------
(* list_background_agents: an unlocked reader, which also unlinks the lease of *)
(* a process it found dead, some time after it read that lease.                *)

List(c) ==
    /\ "list" \in Commands /\ pc[c] = "idle"
    /\ record # NoProcess /\ lease # CurrentLease
    /\ Goto(c, "reap")
    /\ UNCHANGED <<files, mail, lease, prompt, turnLock, call, target, workerVars>>

Reap(c) ==
    /\ pc[c] = "reap"
    /\ lease' = NoLease
    /\ Return(c)
    /\ UNCHANGED <<files, mail, prompt, lock, turnLock, workerVars>>

-----------------------------------------------------------------------------
(* The worker process: run_worker and the prompts of a turn. *)

Move(w, point) == state' = [state EXCEPT ![w] = point]

\* Between two turns, under the lock: give way to a terminal, end, or go on.
TakeMessage_Unlinks(w) ==
    /\ state[w] = "boundary" /\ config /\ lock = NoProcess
    /\ CurrentLease = NoLease /\ inbox # {}
    /\ hand' = [hand EXCEPT ![w] = Oldest(inbox)]
    /\ inbox' = inbox \ {Oldest(inbox)}
    /\ exitMark' = "blank"
    /\ Move(w, "ready")
    /\ lease' = CurrentLease
    /\ UNCHANGED <<record, config, stopped, sent, ran, prompt, lock, turnLock, clientVars,
                   code>>

TakeMessage(w) ==
    /\ state[w] = "boundary" /\ config /\ lock = NoProcess
    /\ CurrentLease = NoLease /\ inbox # {}
    /\ hand' = [hand EXCEPT ![w] = Oldest(inbox)]
    /\ exitMark' = "blank"
    /\ Move(w, "ready")
    /\ lease' = CurrentLease
    /\ UNCHANGED <<record, config, stopped, mail, prompt, lock, turnLock, clientVars, code>>

WorkerDone(w) ==
    /\ state[w] = "boundary" /\ config /\ lock = NoProcess
    /\ CurrentLease # NoLease \/ inbox = {}
    /\ exitMark' = code[w]
    /\ Move(w, "exited")
    /\ lease' = CurrentLease
    /\ UNCHANGED <<record, config, stopped, mail, prompt, lock, turnLock, clientVars,
                   hand, code>>

\* read_background_agent_config raises: the process ends without an exit code.
BoundaryFails(w) ==
    /\ state[w] = "boundary" /\ ~config
    /\ Move(w, "dead")
    /\ UNCHANGED <<files, mail, lease, prompt, lock, turnLock, clientVars, hand, code>>

StartTurn_NoTurnLock(w) ==
    /\ state[w] = "ready"
    /\ turnLock' = w
    /\ ran' = IF hand[w] = NoMessage THEN ran ELSE ran \cup {hand[w]}
    /\ Move(w, "turn")
    /\ UNCHANGED <<files, inbox, sent, lease, prompt, lock, clientVars, hand, code>>

StartTurn(w) ==
    /\ state[w] = "ready" /\ turnLock = NoProcess
    /\ turnLock' = w
    /\ ran' = IF hand[w] = NoMessage THEN ran ELSE ran \cup {hand[w]}
    /\ Move(w, "turn")
    /\ UNCHANGED <<files, inbox, sent, lease, prompt, lock, clientVars, hand, code>>

\* SessionTurnBusyError: cli_main fails at once.
TurnBusy(w) ==
    /\ state[w] = "ready" /\ turnLock # NoProcess
    /\ code' = [code EXCEPT ![w] = "error"]
    /\ Move(w, "finished")
    /\ UNCHANGED <<files, mail, lease, prompt, lock, turnLock, clientVars, hand>>

FinishTurn(w) ==
    /\ state[w] = "turn"
    /\ \E result \in {"ok", "error"} : code' = [code EXCEPT ![w] = result]
    /\ turnLock' = NoProcess
    /\ Move(w, "finished")
    /\ UNCHANGED <<files, mail, lease, prompt, lock, clientVars, hand>>

UnlinkMessage_Kept(w) ==
    /\ state[w] = "finished"
    /\ hand' = [hand EXCEPT ![w] = NoMessage]
    /\ Move(w, "boundary")
    /\ UNCHANGED <<files, mail, lease, prompt, lock, turnLock, clientVars, code>>

UnlinkMessage(w) ==
    /\ state[w] = "finished"
    /\ inbox' = inbox \ {hand[w]}
    /\ hand' = [hand EXCEPT ![w] = NoMessage]
    /\ Move(w, "boundary")
    /\ UNCHANGED <<files, sent, ran, lease, prompt, lock, turnLock, clientVars, code>>

Ask(w) ==
    /\ state[w] = "turn" /\ lock = NoProcess
    /\ response' = NoProcess
    /\ \E readable \in IF "unreadable" \in Faults THEN BOOLEAN ELSE {TRUE} :
         request' = [owner |-> w, readable |-> readable]
    /\ Move(w, "asking")
    /\ UNCHANGED <<files, mail, lease, lock, turnLock, clientVars, hand, code>>

\* The poll finds a response file; one for another request raises, and the prompt
\* cleans up in either case.
SeeResponse(w) ==
    /\ state[w] = "asking" /\ response # NoProcess
    /\ Move(w, "answered")
    /\ UNCHANGED <<files, mail, lease, prompt, lock, turnLock, clientVars, hand, code>>

\* An unreadable request raises before anything is unlinked.
EndPrompt(w) ==
    /\ state[w] = "answered" /\ lock = NoProcess
    /\ request' = IF request.owner = w /\ request.readable THEN NoRequest ELSE request
    /\ response' = IF request.readable THEN NoProcess ELSE response
    /\ Move(w, "turn")
    /\ UNCHANGED <<files, mail, lease, lock, turnLock, clientVars, hand, code>>

ProcessEnds(w) ==
    /\ state[w] = "exited"
    /\ Move(w, "dead")
    /\ UNCHANGED <<files, mail, lease, prompt, lock, turnLock, clientVars, hand, code>>

-----------------------------------------------------------------------------
(* The environment. *)

WorkerKilled(w) ==
    /\ "death" \in Faults /\ Alive(w)
    /\ Kill(w)
    /\ UNCHANGED <<files, mail, lease, prompt, lock, clientVars>>

\* A client dies: the kernel drops its locks, its lease becomes stale.
Crash(c) ==
    /\ pc[c] \in CrashPoints
    /\ Go(c, "dead")
    /\ lock' = IF lock = c THEN NoProcess ELSE lock
    /\ turnLock' = IF turnLock = c THEN NoProcess ELSE turnLock
    /\ call' = [call EXCEPT ![c] = NoCall]
    /\ target' = [target EXCEPT ![c] = NoProcess]
    /\ UNCHANGED <<files, mail, lease, prompt, workerVars>>

ForeignTurn ==
    /\ "foreign" \in Faults /\ turnLock = NoProcess
    /\ turnLock' = Foreign
    /\ UNCHANGED <<files, mail, lease, prompt, lock, clientVars, workerVars>>

ForeignTurnEnds ==
    /\ turnLock = Foreign
    /\ turnLock' = NoProcess
    /\ UNCHANGED <<files, mail, lease, prompt, lock, clientVars, workerVars>>

-----------------------------------------------------------------------------
Launch(c) == \/ LaunchPrepare(c) \/ LaunchSpawn(c) \/ LaunchSpawnFails(c)
             \/ LaunchRecord(c) \/ LaunchRecordFails(c)

Transition(c) ==
    \/ Candidate(c) \/ (\E op \in Operations : Enter(c, op)) \/ Refuse(c)
    \/ SendQueued(c) \/ SendRespawns(c) \/ Condemn(c) \/ RespawnInactive(c)
    \/ Terminate(c) \/ DropRequests(c) \/ MarkStopped(c) \/ Refill(c) \/ RefillFails(c)
    \/ ClearRequests(c) \/ BlankExit(c) \/ UnlinkStopped(c) \/ Spawn(c) \/ SpawnFails(c)
    \/ WriteRecord(c) \/ WriteRecordFails(c) \/ RestoreExit(c) \/ RestoreStopped(c)
    \/ RemoveMetadata(c) \/ RemoveRecord(c)

Terminal(c) == \/ Attach(c) \/ Activate(c) \/ ActivateFails(c) \/ TerminalTurn(c)
               \/ TerminalTurnEnds(c) \/ Leave(c) \/ Detach(c)

Client(c) == Launch(c) \/ Transition(c) \/ Terminal(c) \/ List(c) \/ Reap(c)

Worker(w) == \/ TakeMessage(w) \/ WorkerDone(w) \/ BoundaryFails(w) \/ StartTurn(w)
             \/ TurnBusy(w) \/ FinishTurn(w) \/ UnlinkMessage(w) \/ Ask(w)
             \/ SeeResponse(w) \/ EndPrompt(w) \/ ProcessEnds(w)

Next == \/ \E c \in Clients : Client(c) \/ Crash(c)
        \/ \E w \in Workers : Worker(w) \/ WorkerKilled(w)
        \/ Decide \/ ForeignTurn \/ ForeignTurnEnds

Spec == Init /\ [][Next]_vars

-----------------------------------------------------------------------------
(* Safety. *)

\* At most one worker process works for the agent.
\* respawn terminates the recorded worker before it spawns another, and send
\* spawns one only for an agent whose status says that none is running.
OneWorker == \A v, w \in Workers : Working(v) /\ Working(w) => v = w

Interactive(c) == pc[c] \in {"interactive", "turn"}

\* While a terminal is attached no worker works, and no second terminal is.
\* attach claims the lease, waits for the worker, and every other operation
\* and the worker itself give way to the lease.
LeaseExclusive ==
    \A c \in Clients : Interactive(c) =>
        /\ \A w \in Workers : ~Working(w)
        /\ \A d \in Clients : Interactive(d) => d = c

\* Of another process only the turn lock is seen.
RunsTurn(p) ==
    \/ p \in Workers /\ state[p] \in {"turn", "asking", "answered"}
    \/ p \in Clients /\ pc[p] = "turn"
    \/ p = Foreign /\ turnLock = Foreign

\* Two processes, be they workers, terminals or others, never run a turn of the
\* session at the same time, whatever the supervisor lost: the session turn lock
\* backs the lease up.
TurnExclusive ==
    \A p, q \in Workers \cup Clients \cup {Foreign} : RunsTurn(p) /\ RunsTurn(q) => p = q

\* An agent shown as completed or failed does no more work by itself.
ExitMeansIdle == exitMark \in {"ok", "error"} => \A w \in Workers : ~Working(w)

\* An agent marked stopped has no worker that goes on working.
StoppedMeansIdle == stopped => \A w \in Workers : ~Working(w)

\* A removed agent (or one whose launch failed) leaves no worker behind.
RemovedMeansIdle == ~config => \A w \in Workers : ~Working(w)

\* An accepted message is queued until a turn has run with it or the agent is
\* removed: neither a kill, a respawn, an attach nor a failed spawn drops it.
MessageKept == config => \A m \in 1 .. sent : m \in inbox \cup ran

\* Messages run in the order they were accepted.
InOrder == \A m \in ran : \A n \in 1 .. m : n \in ran

\* When the dashboard shows "needs-input", the recorded worker is the one that
\* asks, so that the answer reaches a live prompt.
AnswerReachesWorker ==
    lock = NoProcess /\ Status = "needs-input" =>
        /\ request.owner = record
        /\ state[record] \in {"asking", "answered"}

-----------------------------------------------------------------------------
(* Action properties. *)

\* A message is run a second time only if a worker was killed while it had it.
NoNeedlessRerun ==
    [][\A w \in Workers :
         state[w] = "ready" /\ state'[w] = "turn" /\ hand[w] \in ran =>
             \E v \in Workers : state[v] = "dead" /\ hand[v] = hand[w]]_vars

\* A respawn that fails leaves an agent that was not active as it was.
FailedRespawnRestores ==
    [][\A c \in Clients :
         pc[c] = "restop" /\ pc'[c] = "idle" /\ call[c].status \notin ActiveStatuses =>
             Status' = call[c].status]_vars

\* Only a request for this very agent takes the stopped mark away: respawn --all
\* never revives an agent that was stopped after it was listed.
StopSticks ==
    [][stopped /\ ~stopped' =>
         \E c \in Clients : /\ lock = c
                            /\ call[c].op \in {"send", "respawn", "remove"}]_vars

\* The supervisor implements the single-owner session.
Owners == {w \in Workers : Working(w)} \cup {c \in Clients : Interactive(c)}
Owner == INSTANCE SessionOwner WITH Processes <- Clients \cup Workers, owners <- Owners
ImplementsSessionOwner == Owner!Spec

-----------------------------------------------------------------------------
(* Liveness. *)

\* A client finishes the operation it began; a worker that can go on does.
\* Fairness is strong because a process blocked on the transition lock is woken
\* when it is released, however often others take it in between.  A turn ends
\* although it may ask many questions: max_iterations bounds it.
Proceed(c) == \/ LaunchSpawn(c) \/ LaunchRecord(c) \/ Refuse(c) \/ SendQueued(c)
              \/ SendRespawns(c) \/ Condemn(c) \/ RespawnInactive(c) \/ Terminate(c)
              \/ DropRequests(c) \/ MarkStopped(c) \/ Refill(c) \/ RefillFails(c)
              \/ ClearRequests(c) \/ BlankExit(c) \/ UnlinkStopped(c) \/ Spawn(c)
              \/ WriteRecord(c) \/ RestoreExit(c) \/ RestoreStopped(c)
              \/ RemoveMetadata(c) \/ RemoveRecord(c) \/ Activate(c) \/ ActivateFails(c)
              \/ TerminalTurnEnds(c) \/ Detach(c)

Fairness == /\ \A c \in Clients : SF_vars(Proceed(c))
            /\ \A w \in Workers : SF_vars(Worker(w)) /\ SF_vars(FinishTurn(w))

FairSpec == Spec /\ Fairness

\* Nobody is to run the inbox: a terminal has asked for the session, the agent was
\* stopped or its worker killed, and no operation is under way.
GivenUp == lock = NoProcess /\ Status \in LeaseStatuses \cup {"stopped", "lost"}

\* No lost wake-up: a message accepted is run, although its sender and the worker's
\* last look at the inbox race, unless a prompt of the turn before waits for the user
\* or the session is given up while it is queued.
MessageRuns ==
    \A m \in Messages : [](m \in inbox => ~GivenUp)
        => (m \in inbox ~> m \in ran \/ request # NoRequest)

\* A terminal that waits for the worker gets the session after the current turn,
\* however many messages are queued, unless that turn waits for the user.
AttachGetsSession ==
    \A c \in Clients : pc[c] = "wait" ~> pc[c] # "wait" \/ request # NoRequest
=============================================================================
