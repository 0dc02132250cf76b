# Verification of VibeAgent

VibeAgent is a terminal coding agent (Python, `vibeagent/`). Most of its code is
sequential: a loop asks a model for the next action, executes it and appends the
result to a transcript. What can go wrong in ways that tests hardly reach is the
part that several processes, threads and users share. These TLA+ modules model that
part, TLC checks it on small instances, and TLAPS proves its main properties for
any number of processes, threads, tasks and messages.

All paths below are relative to the repository.

## Inventory

| Component | State | Operations | What is hard | What makes it correct | Modelled in |
| --- | --- | --- | --- | --- | --- |
| **Background agent supervisor** `background_agent_{runtime,store,worker,lock,attach,attachment,inbox,process,config}.py`, `process_registry.py` | per agent: record, configuration, exit marker, stopped marker, inbox, lease, transition lock (files); worker processes | launch, send, respawn, respawn --all, stop, remove, attach, list; worker loop | interleavings of clients and workers, processes that die at any point, failing spawns and writes, stale leases | one worker at a time, one owner of the session, no message lost, reordered or run twice, honest statuses | `BackgroundAgent`, `SessionOwner` |
| **Session turn lock** `session_turn_lock.py` | a lock file per session | acquire without waiting, release | the owner dies; the lock is refused | two turns never overlap | `BackgroundAgent` |
| **Background prompts** `background_agent_{approval,input}.py`, `agent_view.py` | request and response file; what a dashboard shows | ask, poll, leave, show, decide | stale views, requests of killed workers, overlapping prompts of several threads | an answer reaches the prompt its user saw | `BackgroundAgent`, `BackgroundPrompt` |
| **Background delegates** `background_delegate_*.py`, `agent_delegate*.py`, `subagent_concurrency.py` | registry of threads, inboxes, results | start, nest, send, wait, resume, collect, TaskOutput, TaskStop, prune, close; the loop of a subagent | registration races the end of a thread, limits of the registry, compaction of a conversation that takes messages, teardown beside threads that go on | a delivered message is not left in the inbox, a working subagent can be found, the limit holds | `BackgroundDelegate` |
| **Subagent transcripts** `subagent_transcripts.py` | transcript file with status and runs | create, claim, checkpoint, complete | two resumes, a checkpoint after completion | one owner per transcript, nothing forgotten but what is compacted | `BackgroundDelegate` |
| **Session task graph** `session_task*.py` | task file with edges at both ends | create, get, update, delete | cycles and asymmetries through sequences of updates | the file is one the parser accepts | `SessionTasks` |
| **Agent teams** `agent_team_runtime.py`, `team_state.py` | team file, lead mailbox | claim and update tasks, message | check and update in two locked sections | no work on another's task | `SessionTasks`, `BackgroundDelegate` (partly) |
| **Model budget and fallback** `model_budget.py`, `model_fallback*.py` | sum, failure latch, fallback index | call, charge, advance | concurrent calls | bounded overrun, no model skipped | `ModelCalls` |
| **Dynamic workflows** `dynamic_workflow_*.py` | record file, threads, recorded calls | start, run, finish, stop, show, resume, close | every step reads the record and writes it back later, without a lock between processes | results and paid calls are final, stops end | `DynamicWorkflow` |
| **Scheduled tasks** `scheduled_task_*.py`, `cron_*.py`, `cli_interactive_idle.py` | task file of each session, prompts collected, the terminal's session | create, delete, collect, run, compact, resume, branch | catch-up after a pause, expiry, errors between collection and run, copies of a store whose source stays | no slot runs twice, a missed task runs once | `ScheduledTasks` |
| **Peer messaging** `peer_*.py` | bounded queues, window of duplicates, settings | accept, hold, collect, decide, change settings | settings change while a message is classified | held only what the settings hold | `PeerInbox` (partly) |
| **Memory-limited workers** `background_agent_memory*.py` | monitor process, exit marker | wait, record the verdict | see "Further disagreements" | - | - |
| **Review and integration** `background_agent_{changes,integration}.py` | git worktrees | inspect, merge, discard | git | - | - |
| **Async hooks, monitors, processes** `async_hook_runtime.py`, `monitor_runtime.py`, `process_*.py` | registries of processes and output | start, poll, stop, close | one lock each | each exit is reported once | - |
| **Permissions, plugin store, checkpoints, branching** | rule files, directories, copies | update, install, restore, fork | sequential | - | - |
| **Agent loop, tools, MCP, LSP, interfaces** | transcript, screens | a turn | sequential, or defined outside | - | - |

How they interact: clients and workers of the supervisor share files; a worker takes the
session turn lock for each turn; within a turn the main loop starts subagent
threads, which share the model client, the task graph and the prompt files with it;
scheduled prompts, notifications of subagents and peer messages are collected between the
iterations of a turn. `PROJECT.json` lists every component with its status and every hazard
with the line where it bites and the properties that would catch it.

## Plan

| Step | State |
| --- | --- |
| `BackgroundAgent`, `SessionOwner`, `BackgroundAgentProofs`: the supervisor, its abstract promise, one worker at a time | done |
| `SessionOwnerProofs`, `MessageProofs`: attachment, the refinement, the inbox, the action properties | done |
| `BackgroundDelegate` with transcripts; `BackgroundDelegateProofs` for the inbox, `DelegateRegistryProofs` for the registry and the transcripts | done |
| `SessionTasks`, `DynamicWorkflow` with a proof module each; `ModelCalls`, `BackgroundPrompt`, `ScheduledTasks`, `PeerInbox` with `ServicesProofs` | done |
| Compaction of subagents, the unlocked writes of workflows, a store for each session of a terminal (`MCSchedules`) | done |
| The team file and the lead's mailbox; `inherit_task_store`; peer registrations | left |
| Registries of async hooks and monitored processes | left |

Parameters are constants with named assumptions, each operation is an action, invariants
are conjunctions of named parts, and no module uses RECURSIVE operators. Several fields of
one record are updated as `![t] = [@ EXCEPT !.a = .., !.b = ..]`, once per index, which is the
form the provers encode reliably.

## The runs

| Run | Question | Bounds |
| --- | --- | --- |
| `agent_core` | are all safety properties of the supervisor and the refinement kept by every operation, with failing spawns and writes and killed workers? | 2 clients, 3 workers, 3 messages |
| `agent_crash` | which of them survive clients that die anywhere except between spawn and record, and unlocked readers that reap leases? | 3 clients, 2 workers, 2 messages |
| `agent_orphan` | what is left when a client dies between spawn and record, half-way through a removal, or the session is used by others? | 2 clients, 3 workers, 2 messages |
| `agent_live` | does every accepted message run, and does a waiting terminal get the session, with kills, stops, respawns and attachments? | 2 clients, 2 workers, 2 messages |
| `delegate` | do subagents keep their promises to senders, to the registry and to their transcripts? | four scenarios, below |
| `services` | do the smaller services keep theirs? | seven scenarios, below |
| `schedules` | does a slot run twice, whatever a terminal does with its sessions? | 3 sessions and 1 task, or 1 session and 2 tasks; period 2, jitter 1, expiry after 5 of 5 instants |
| `agent_unreadable` | finding: a second worker | 2 clients, 2 workers, 2 messages |
| `agent_stale_lease` | finding: a lease removed by a reader | 3 clients, 2 workers, 1 message |
| `agent_busy_session` | finding: a message dropped | 2 clients, 2 workers, 2 messages |
| `tasks_claims` | finding: another's task updated | 2 teammates, 1 task |
| `prompt_stale` | finding: an approval nobody gave | 1 thread, 1 dashboard, 3 requests |

`delegate` and `services` hold several scenarios in one run: the initial state picks one,
no step changes the choice, and the bound of the scenario keeps the steps to what it is
about, so TLC explores their disjoint union. Every behavior of the runs is one of the
modules' own specifications (for `services`: `RunTyped` of `ServicesProofs`, whose steps 1 and 2
say so), and the properties are the modules' own definitions, so what a run checks is what
the theorems state.

| Scenario of `delegate` | Bounds | Aimed at |
| --- | --- | --- |
| `core` | 3 subagents that nest, limit 2, 2 retained, 1 turn each | `WithinLimit`, `RunningIsRegistered` |
| `mail` | 2 teammates and the lead, 2 iterations, 1 message, no compaction | `DeliveredIsRead` |
| `resume` | 1 subagent with 2 tasks, 2 iterations, 2 messages, compactions | `HistoryGrows`, `DeliveredIsRead` |
| `claim` | 1 subagent with 3 tasks of one turn, 2 runs with a teardown between, 2 messages, compactions | `OneOwner` |

| Scenario of `services` | Bounds | Aimed at |
| --- | --- | --- |
| `team`, `lead` | 1 teammate and 2 tasks; 3 tasks and nobody who claims them, for cycles of three | `StoreReadable` |
| `calls` | 3 threads, a primary and 2 fallbacks, with and without a budget of 3, responses that cost at most 2 | `FollowsOverloads`, `OneCallBeyond` |
| `flow` | 3 sessions one after the other and 2 calls; or (`overlap`) 2 sessions at once and 1 call, until two threads are at work at once | `CompletedStays`, `CallsKept`, `RunningIsWorked`, `StopEnds` |
| `questions` | 2 threads, 2 dashboards, 3 requests | `AnswerIsForRequest` |
| `delegates` | 1 subagent with 2 tasks, a teardown between 2 runs, 1 message | `TeardownReleases` |
| `peers` | 2 senders of either permission class, queues of 2 | `HeldBySettings` |

Deadlock is not checked where the system really stops: when the bounds are used up, every
agent, subagent and session has ended and nobody has begun anything. `TypeOK` (`TypesOK` for
the services, the conjunction of theirs; `CronTypeOK` for the schedules) is the one type
invariant of each run.

## The supervisor: `BackgroundAgent`

### What it models

An agent has its own files, its own lock and its own workers, and no operation touches two
agents, so one agent is the whole protocol.

| Variable | Code |
| --- | --- |
| `record` | the process named by `<id>.json`, its other fields dropped |
| `config` | `config/<id>.json` exists |
| `exitMark` | `logs/<id>.exitcode`: absent, blank, 0 (`ok`) or another code (`error`) |
| `stopped` | `logs/<id>.stopped` exists |
| `inbox`, `sent` | the files of `inbox/<id>/`; message *m* is the *m*-th enqueued, because names start with the time |
| `ran` | history: messages a turn has run with |
| `lease` | `attachments/<id>.json`: the owner and `attaching` or `attached` |
| `request`, `response` | the request file (approval or user input) and the file that answers it |
| `lock` | the holder of `locks/<id>.lock` |
| `turnLock` | the holder of the session's `turn.lock` |
| `pc`, `call`, `target` | a client's place in an operation, the view it read under the lock, the process it started or waits for |
| `state`, `hand`, `code` | a worker's place in `run_worker`, the message file it runs, its last exit code |

A worker is a process incarnation: its pid together with its start ticks, so it is never
reused. `Status` is `background_agent_view`, return by return.

### Granularity

An operation holds the transition lock for its whole length, but workers run their turns,
processes die and unlocked readers read while it does. Each file operation of a
client under the lock is therefore an action of its own (`clear`, `blank`,
`unstop`, `spawn`, `record`, ...), and a client may die at each of these points. What a worker
does under the lock between two turns is one action: it reads, decides and writes one
file. The same holds for the three locked sections of a prompt and of an
attaching terminal.

`terminate_persistent_process` is one step (`Kill`): SIGTERM, a wait of half a second, SIGKILL.
The code does not wait for the last signal to take effect, which leaves a gap of
one signal delivery that the model does not have; the session turn lock covers
it. Approvals and user input are two pairs of files that every operation
treats alike; the model has one. The two error statuses (`approval-error`, `input-error`)
become one.

### Faults

`Faults` and `CrashPoints` are constants, so a run says what may go wrong: `spawn` and
`record` (starting the process, writing its record raises), `death` (a worker is
killed from outside), `unreadable` (a request file exceeds `MAX_APPROVAL_BYTES`
and cannot be read back), `foreign` (another process runs a turn of the same session), and the
control points at which a client dies. The kernel drops the locks of a dead
process; its files stay.

### Properties

| Property | Says |
| --- | --- |
| `TypeOK` | type invariant |
| `OneWorker` | at most one worker process works |
| `LeaseExclusive` | while a terminal is attached no worker works and no second terminal is attached |
| `TurnExclusive` | two of the workers, the terminals and any other process never run a turn of the session at once, whatever was lost |
| `ExitMeansIdle`, `StoppedMeansIdle`, `RemovedMeansIdle` | an agent shown as completed, failed or stopped, or removed, has no worker that works |
| `MessageKept` | an accepted message is queued until a turn has run with it or the agent is removed |
| `InOrder` | messages run in the order accepted |
| `AnswerReachesWorker` | when the status is needs-input, the recorded worker is the one that asks |
| `NoNeedlessRerun` (action) | a message runs again only if a worker was killed while it had it |
| `FailedRespawnRestores` (action) | a respawn that fails leaves the status it found |
| `StopSticks` (action) | only a request for this very agent takes the stopped mark away |
| `ImplementsSessionOwner` | refinement: the set of workers and attached terminals that own the session implements `SessionOwner` |
| `MessageRuns` (liveness) | an accepted message runs, unless the turn before it waits for the user, or a terminal asks for the session or the agent is stopped or killed while it is queued (`GivenUp`) |
| `AttachGetsSession` (liveness) | a waiting terminal leaves its wait, or the turn waits for the user |

`SessionOwner` is the promise in its shortest form: a set of owners that is empty or a
singleton, and that changes only between the two. Under the refinement mapping the owners are
the workers that work and the terminals that are interactive.

### Bounds

Why the bounds are enough: the transition lock serialises operations, so two clients
show every race of an operation with an unlocked step of another (three where a lease has
a dead owner, a new owner and a reader). Three workers are a predecessor that is still
closing, the recorded one and the one about to be recorded; three messages are one in hand, one queued
and one arriving. An operation that may enqueue or spawn starts only while the bounds
(`MaxMessages`, `Workers`) leave room for it, so no operation is cut in its middle.
Clients, and workers, are interchangeable; the safety runs use the symmetry, the
liveness runs do not.

## Subagents: `BackgroundDelegate`

Background subagents are threads of one process, registered in a dictionary under their id.
`task` numbers the `BackgroundDelegateTask` objects in the order of their creation, because
one id can have several over time: a resumed subagent is a new object with the id of the
old one.

| Variable | Code |
| --- | --- |
| `task[t].id`, `line`, `born` | its key, the tasks whose cancellation it sees (its own event and its parents'), the run of the agent it belongs to |
| `task[t].pc`, `turns` | the place of its thread in `run` and `run_delegate_iterations` |
| `cancel`, `done`, `discard`, `notified`, `accepting` | the events and flags of the object |
| `pending` | the messages queued for it |
| `accepted` | history: messages whose sender was told they are delivered |
| `context`, `base`, `followup` | the messages of its conversation; what a resume read from the transcript, and the message it was resumed with |
| `seen`, `forgotten` | history: the messages in a request its model has answered; what compactions took out of its conversation |
| `registry` | `_TASKS`: the objects in it, each with the place of its key in the order of the dictionary, which pruning follows |
| `transcript` | `subagents/<id>.json`: status, number of runs, messages (`history`) |
| `lead` | the place of the main loop in an operation of several steps, and what it has read; `matching` are the objects the teardown has found |

Sections under `_TASKS_LOCK` or the inbox lock are one action each; what lies between
them is not. A message to a running subagent is one (`Accept`); a message to one
that is ending waits at most five seconds (`LeadMeetsEnding`, `LeadWaited`: the wait may
end before the task does), reads the transcript, and starts a new task, in three steps
(`LeadReadsTranscript`, `LeadResumes`). The end of a thread is four steps: the inbox closes,
the transcript is completed, the event is set, the key removed. The teardown at the end of a run
marks, cancels and drops in three (`CloseMarks`, `CloseCancels`, `CloseDrops`). A
conversation is a set: responses are numbered by their task and turn, messages by the
order of sending. A model call responds with tool calls or a last word, fails, or is
cancelled; a tool runs, halts the turn, starts a subagent or sends a message; the finish tool
is called and takes a last look at the inbox, and what is left of its iteration then follows the tool
calls (`batch`), also when a stop hook sends the subagent on.

`compact_delegate_message_history` is called with the tool results, with the feedback to a last
word (`Continues`), and when the provider refuses a request as too long (`ContextLimit`), once for
a request. What it leaves is chosen (`Compacted`): everything, where the thresholds are
not met, a hook refuses or the summary is not shorter; the prompt alone; or the prompt and the
response whose tools returned images, which is kept with its results if these still end the
conversation. The checkpoint after it writes what is left, the retry writes none. It may
take a message away before any request held it (`DeliveredIsSeen` under "Further disagreements").

A start can fail before its transcript exists (`SetupFails`: a policy, a worktree, an error),
and an exception can end a run anywhere in its loop (`Breaks`), which leaves the inbox open.
That a write of the transcript fails is not modelled.

| Property | Says |
| --- | --- |
| `WithinLimit` | until a teardown is over, subagents at work stay within the limit |
| `RunningIsRegistered` | until a teardown is over, TaskOutput, TaskStop and messages find each one that works, whatever was pruned |
| `DeliveredIsRead` | of what its senders were told is delivered, one that completes has left nothing in its inbox: a model has answered a request with it, or a compaction took it |
| `OneOwner` | one thread at a time continues a subagent, and its transcript says so (of a teammate, until a teardown is over) |
| `HistoryGrows` (action) | until a teardown is over, no checkpoint, completion or resume of a subagent other than a teammate forgets what the transcript held, except what its own threads have compacted |
| `TeardownReleases` (liveness) | what a teardown has marked leaves the registry |

Two of them, and `HistoryGrows`, begin with `run = 1`, because the code does not keep them
beyond a teardown, nor `HistoryGrows` for a teammate that a hook sends back to work, nor `OneOwner` for a
teammate whose start failed (see "Further disagreements").

Why the bounds are enough: the limit, pruning and a nested start need three subagents at
once; a race of a resume with the end it resumes after needs two tasks of one id, and with a
teardown between them three; a message is read in the iteration after it came or in the
last look, so two iterations show both.

## Task graph: `SessionTasks`

`tasks`, `nextId` are `tasks.json`; `reading` holds, per teammate, the task its TaskUpdate
has read. One lock makes every operation on the store atomic, so each is one action with all
its checks (`Allowed`); a teammate's update is two of them (`TeammateReads`,
`TeammateUpdates`). `HasCycle` states a cycle without recursion: some tasks each
block another of them. `StoreReadable` says that whatever was created, linked,
unlinked and deleted, the file satisfies every check of `_parse_task_store`; if it did not, every
later task tool of the session would fail. `NoForeignWork` is what README.md promises of
teammates, and is violated (`tasks_claims`). A call adds at most one dependency (`UpdateCalls`),
which loses no state: a call with two is checked for cycles as two calls are.

## Model calls: `ModelCalls`

`budgeted` says whether the session has a budget. If it does, a call enters under the budget's
lock and keeps it for its whole length. A call asks the model in use, and on an overload asks
the next. `active` is the shared index, read once (`Chooses`) and advanced under a lock
(`NextModel`). `FollowsOverloads`:
however many threads report one overload, the chain moves once, and never past a model that
reported none. `OneCallBeyond`: the cost at the end is below the budget plus one response.
A response whose usage has no price latches the failure whatever it cost.

## Workflows: `DynamicWorkflow`

One workflow of a project, run by sessions that open, exit and crash. `record` is its
`state.json`: status, the pid of its owner, the recorded calls. `runner` is
the thread of a session, `ui` the command it is in. Nobody's access to the record is one step: the
thread reads it, adds a call or the outcome, and writes its `copy` (`CallReads`,
`FinishReads`, `Writes`), under a lock of its own process only; `get`, `list` and `resume`
read the record, look at the owner, and write their copy back, without any lock. A resumed run reads
the calls it replays first (`Begins`); for a call that was replayed it writes the record
back as it read it. `overlap` says whether two sessions may be open at once.

What the refusals of `resume` are for, that one session at a time runs the workflow
(`OneSessionRuns`), does not hold: two that resume at once both go on. Once
that has happened (`doubled`) the two threads write over each other: each may take the record
back to what it read before the other finished, down to a record that is running, with an
owner that lives and has no thread, which nothing can stop or resume before that process exits.
So `RunningIsWorked` (a running record has a dead owner or a thread at work, so something
can end or resume it) says what holds until then, with any sessions, views and commands at
once; it would fail if one view or one failing thread could orphan a record by itself. The
run `services` ends the executions at that point; the theorem does not.
`StopEnds` holds with overlapping sessions. `CompletedStays` and `CallsKept` hold for
sessions one after the other only (see "Further disagreements").

## Schedules: `ScheduledTasks`

Time is discrete and an expression matches every `Period`-th instant; jitter and
forward shift are chosen within the limits of the code. `store[s]` is the
`scheduled_tasks.json` of session *s*, `due` the prompts the idle loop has collected, `runs[s]`
the history of what ran in *s* and, before *s* was opened, in the session it goes on from.

| Variable | Code |
| --- | --- |
| `current` | `resume_run_id`; during a turn, the session of the turn |
| `back` | `resume_run_id` before the turn, which an error or an interrupt leaves in force |
| `fresh` | there is no `pending_workspace`: the next turn opens a session |
| `opened` | the directories of sessions that exist |

Collection reschedules or removes before anything is delivered (`Collected`). A turn collects from
its own session; the idle loop from that of `resume_run_id`, also when the next turn will open
another, as after `/compact`, so prompts of the source run in the copy. A turn
that fails leaves the loop with prompts undelivered (`TurnBreaks`), and if it was the first
of a new session, leaves that session behind: the next turn opens another one. A session that
goes on from another one copies what has not expired or been missed, and the source keeps
its tasks (`Inherited`); nothing is copied where the new session's directory exists before
the turn (a debug or verbose view), after `/rewind`, or from a store that cannot be read. Which of
these is chosen (`restores`).

`RunsOnce`: in the history of a session, across turns, idle time, breaks and restarts, no
slot of a task runs twice, a task that missed slots runs once for them and goes on after the
collection, and an expired one runs one last time. It speaks of histories and not of the
project: since the source keeps its tasks, a slot that ran in the copy runs again in the source when
that is resumed, which README.md leaves open. One terminal at a time uses the sessions, as
`_STORE_LOCK` and `resume_run_id` are local to a process. Left out are sessions that a shell
command or a workflow opens before the first turn: their stores are empty.

Bounds: three sessions are one, its copy and a copy of either; the second task shows the prompts that
wait while another runs, within one session. Five instants hold two slots, one of them
missed, and an expiry.

## Prompts: `BackgroundPrompt`

Several threads of one worker ask through one request and one response file, and several
dashboards answer what they showed last. `shown` holds both what a dashboard displays
and the request its user saw last, because a key is read against the first and meant for the
second. `AnswerIsForRequest`: what releases a thread is an answer to its own request. It
holds for questions (`Approvals` FALSE), whose views always name their request, and not
for approvals (`prompt_stale`).

## Peer messages: `PeerInbox`

The server thread classifies a message under the inbox lock in two steps, because it reads
two settings that the main thread assigns without the lock; a change of the settings is two
assignments and a pass over the held messages. `HeldBySettings`: once a change is through, a
message is held only if the new settings hold it. A message that was
classified under the old settings is caught because the pass waits for the lock its
classification holds. A filter of a queue picks places in increasing order (`InOrder`,
`Picked`); a full queue keeps the newest (`Put`).

## Fairness

Only liveness is checked with fairness.

* `FairSpec` of `BackgroundAgent`: a client goes on with the operation it began and a worker
  with its turn. Both are strong fairness, because `flock` queues its waiters: a process that
  waits for the transition lock is woken when it is released, even if others take it
  again and again. `FinishTurn` is fair because a turn is bounded by `max_iterations`.
* `FairSpec` of `BackgroundDelegate`: weak fairness of each thread (model calls, tools and hooks
  have timeouts and iterations a limit) and of the operations the lead has begun.
* `FlowSpec` of `DynamicWorkflow`: weak fairness of the thread of each session that lives: a
  script has at most 1000 calls, and a cancellation ends its interpreter.

Nothing is assumed of users: that they answer, send, attach, open or leave. Nor is it
assumed that processes die or that spawns fail.

## Findings

Each is shown by a run that TLC ends with a counterexample.

* **A message to an agent in `approval-error` starts a second worker** (`agent_unreadable`).
  `send_background_agent_message` queues for `running` and `needs-input` only, although
  `ACTIVE_BACKGROUND_AGENT_STATUSES` has the error statuses too; it respawns without
  terminating the worker that waits. `README.md:664-666` promises that unresolved input
  "cannot accidentally create a second worker".
* **An unlocked reader can remove a fresh lease** (`agent_stale_lease`).
  `read_background_agent_attachment` checks the owner, then unlinks the path; a
  terminal that replaced the stale lease in between loses its own. A third terminal
  then attaches to the same session.
* **A message whose turn is refused is dropped** (`agent_busy_session`). The `finally`
  clause of `run_worker` unlinks the message file even when `cli_main` failed at once because
  another process holds the session's turn lock.
* **A teammate updates a task that is no longer its own** (`tasks_claims`). The owner is
  checked in one locked section and the update made in the next; the lead gives the task to
  another teammate in between.
* **A key meant for one approval releases the next** (`prompt_stale`). A dashboard whose
  last refresh showed no approval passes no request id, and the comparison is skipped.

The assumptions of the proofs document another weakness: a client that dies
between `spawn_background_agent_worker` and `write_background_agent_record` leaves a
worker nobody knows of. `OneWorker` and `RemovedMeansIdle` fail then, `TurnExclusive` still
holds (`agent_orphan`, theorem `TurnsExclude`).

## Further disagreements

Met while modelling; TLC finds the executions with the constants named, and no run is kept
for them.

* **A delivered message no model sees** (`DeliveredIsSeen`, end of `BackgroundDelegate`, with one
  subagent, two iterations and one message). The last look at the inbox, after the finish tool was
  called, appends a message to the conversation and sends the subagent on; the compaction at
  the end of the same iteration (`agent_delegate_loop.py:374`), or the one that recovers
  from a request that is too long (`:107`), may replace the conversation, and the subagent
  completes. `README.md:3556` says SendMessage "steers a running" subagent.
* **Results that are never announced** (`ResultIsKept`, end of `BackgroundDelegate`).
  "Completed results are injected once" (`README.md:3556`), but a start at the registry's limit
  prunes finished tasks whether announced or not (`background_delegate_runtime.py:83`), and
  a resume replaces the finished object under its key.
* **Subagents a teardown misses** (`LeftoversCancelled`). "run teardown cancels and releases any
  remaining session tasks" (`README.md:3556`), but `close_background_delegate_tasks` lists
  the tasks once (`:325`): what a subagent starts while its parent is not yet cancelled, or
  what an earlier removal took out of the registry, is not told to stop.
* **The limit across a teardown** (`LimitAcrossRuns`). A thread the teardown
  marked removes its key when it ends (`background_delegate_runtime.py:67`), also when a resumed
  task has taken the key; that one works on without being counted. `OneOwner` still holds.
* **A teammate sent back to work takes no messages** (`WorkingTakesMessages`). The last look
  at the inbox closes it before the TeammateIdle hook runs; with feedback the teammate goes on
  for further turns (`agent_delegate_loop.py:148`), and SendMessage to it waits and fails with
  "already running", where `README.md:3556` says it steers a running subagent.
* **Turns forgotten** (`NothingForgotten`). A resume reads the transcript before
  its claim (`subagent_transcripts.py:77`), and the claim compares status and number of runs, not
  what was read.
* **Two sessions run one workflow** (`OneSessionRuns`, with `Processes = {1, 2}`, `Calls = {1}`).
  `resume` looks at the owner in the record it has read and writes itself into it later
  (`dynamic_workflow_runtime.py:75-86`), with no lock between processes, so two sessions that resume
  at once both run its script, past the refusal "Workflow is owned by another live process".
* **A teammate started twice** (`OneOwner` without `NamedOnce`). A teammate's id is its name, and
  a start fails on a name whose transcript exists. If the first start failed before its transcript was
  written and a teardown has dropped it from the registry, two later starts can both proceed.
* **Schedules that are not inherited.** "Unexpired session schedules are inherited on resume"
  (`README.md:1992`), but a session whose directory is made for a debug or verbose view
  (`cli_interactive_code_turn.py:127`) is opened without a source, and one that /rewind opens
  copies none (`session_rewind.py:124`).
* **Slots that run in source and copy.** The copy of a store leaves the source as it is
  (`scheduled_task_store.py:131-167`); resuming both runs each slot in both.
* **One-shot prompts lost.** `collect_due_scheduled_tasks` removes a one-shot task from the
  store before it is delivered; an error in an earlier prompt of the idle loop
  (`cli_interactive_idle.py:134-150`) or a crash drops it. `README.md:1991-1992` says they
  "delete themselves after delivery".
* **Overwritten prompts.** A second thread that asks overwrites the first's request file; the
  first then fails on the second's response and unlinks it, or waits forever.
* **Two sessions of one project and one workflow** (`CompletedStays`, `CallsKept`
  without `~overlap`). A view made by one session of a running record writes its copy back
  as interrupted, over a completion or a recorded call of a run that the other has resumed.
  Two threads that two
  resumes have started do the same to each other (`RunningIsWorked` without `~doubled`).
  If `_finish` itself fails with an I/O error, the record stays running with a live owner.
* **Peer messages under mixed settings.** A message can be delivered under the old inbound
  setting together with the new approval policy (`peer_runtime.py:84-85`, `:187-191`), a pair that
  was never in force.
* **The exit code of a killed memory-limited worker.** The monitor writes it with `O_EXCL`
  (`background_agent_memory_monitor.py:254`), but launch and respawn always create the marker
  empty, so nothing is written and the agent is shown as lost instead of failed.
  `tests/test_background_agent_memory_monitor.py:71-92` expects the fallback code, in a
  directory without a marker.

## Proofs

No theorem bounds the numbers of processes, threads, tasks, messages or ids. Each module's
theorems assume its named constant assumption (`ProcessAssumption`, `TasksAssumption`,
`CallsAssumption`, ...), which TLC evaluates in the runs, and what is said below.

### The supervisor: `BackgroundAgentProofs`, `SessionOwnerProofs`, `MessageProofs`

| Assumption | Says | Why it is needed |
| --- | --- | --- |
| `Confined` | no client dies between spawn and record, and requests can be read back | `agent_orphan`'s crash points and `agent_unreadable` violate `OneWorker` |
| `NoReaper` | no unlocked listing | `agent_stale_lease` violates `LeaseExclusive` |
| `Undisturbed` | `NoReaper`, and no other process runs turns of the session | `agent_busy_session` violates `MessageKept` |

* `BaseCorrect`, `TypeCorrect`: `TypeOK`. It is not inductive: that `sent` stays in its
  bound needs that the operation that checked the bound is still alone when it enqueues.
  `BaseInv` adds `LockDiscipline` (a client is at a locked point exactly if it holds the lock) and
  `RoomKept`.
* `TurnsExclude`: `TurnExclusive`, for every pair of workers, terminals and the other process,
  from `TurnLockHeld`, with no assumption on crashes.
* `WorkerInvariant` (`Confined`). The inductive invariant `WorkerInv` has one part per idea:
  what an operation read on entry still holds (`EntryView`); nothing is recorded while
  the launch is under way (`LaunchOnce`); a working process is recorded or about to be
  (`WorkersNamed`); an operation past its check has a quiet record (`RecordQuiet`); markers
  and requests are cleared before the spawn and not touched until the record is written
  (`Prepared`); a marker that says the agent is idle is true (`MarkersHonest`);
  a request belongs to the recorded worker (`RequestOwned`). `OneWorker` alone is not
  inductive: a second spawn is impossible only because the recorded worker is quiet,
  which for `completed` follows from the markers, and these are honest
  only because no other worker exists. From it: `OneWorkerAtATime`, `ExitMarkHonest`,
  `StoppedMarkHonest`, `RemovalLeavesNoWorker`, `AnswersReachWorker`.
* `LeaseInvariant` (`Confined`, `NoReaper`): a terminal keeps its lease on the recorded worker
  (`LeaseKept`); no operation that has seen the agent free runs beside it
  (`LeaseRespected`); it gets the session when the last worker has gone (`LeaseQuiet`).
  From it and `WorkerInv`: `TerminalsExclude` (`LeaseExclusive`) and
  `SupervisorImplementsSessionOwner`, in which every step of the supervisor maps to a change
  of owner or a stutter.
* `MailInvariant` (`Confined`, `Undisturbed`): messages are numbered (`Numbered`); a ready
  worker holds the oldest message, still queued, after all before it have run (`HandNext`,
  `HandQueued`); a queued message that has run is in the hand of a worker about to unlink it
  or killed (`RanByHand`). A ready worker finds the turn lock free because it is the one owner
  (`ReadyRuns`); with another owner of the lock its message would be dropped.
  From it: `MessagesAreKept`, `MessagesRunInOrder`, `MessagesRunOnce`.
* `StopsStick`, `FailuresRestore` (`Confined`): the action properties `StopSticks` and
  `FailedRespawnRestores`, from what an operation has checked (`Rechecked`) and from
  what its view holds until it returns (`ViewHolds`, `Restoring`).

### Subagents: `BackgroundDelegateProofs`, `DelegateRegistryProofs`

For any subagents, teammates, tasks, limits and numbers of messages and runs, from
`DelegateAssumption` alone.

* `TypeCorrect`: `TypeOK`.
* `DeliveredMessagesAreRead` (`DeliveredIsRead`), from `InboxInvariant`: while the inbox may be
  read, what was accepted is pending, part of the conversation, seen by the model or forgotten by a
  compaction (`Waiting`), and a last word closed the inbox when nothing was pending and
  nothing unseen was left in the conversation (`LastWord`). It needs nothing of which object
  the registry holds under a key.
* `EverySubagentHasOneOwner` (`OneOwner`), from `OwnerInvariant`. `OneOwner` is not inductive:
  a thread that claims a transcript is its only owner because no other thread of the
  subagent still owns it, which the claim does not look at. It compares the transcript's status
  and number of runs with what the start has read, so the invariant says what these tell: a
  transcript that is not running has no owner (the second part of `OneOwner`), one that is absent
  has a single task that is about to create it, under its key (`Unwritten`, `Absent`), and
  what an owner has in memory is what the transcript holds, less what a compaction took out of it
  since the last checkpoint (`Conversation`). Two owners are impossible across teardowns too,
  where registration does not prevent two threads; the exception is a teammate, which a later
  run of the lead may name anew (`NamedOnce`).
* `RunningSubagentsAreRegistered`, `LimitHolds`, `HistoriesGrow` (`RunningIsRegistered`,
  `WithinLimit`, `HistoryGrows`), from `FirstRunInvariant`. Until the first teardown is over a
  working subagent loses its key only to the teardown's own marks, and these are on no object
  that shares its key (`Marks`); so a task that is not registered is not at work, the check of the limit
  counts all that are, and a start under a key in use has replaced a finished task.
  With one thread per subagent at a time, nothing is written between the read of
  a resume and its claim (`Settled`, `Current`). The limit needs counting: `WithinLimit` for the tasks
  after a start follows from the check for the tasks in the registry because the two sets of
  working tasks are equal, by facts about `Cardinality` cited from `FiniteSetTheorems`.

### The other components

* `SessionTasksProofs`: `TasksTyped`, `StoreStaysReadable`. Symmetry, acyclicity and known
  edges need each other: a deletion strikes both ends only because both are recorded.
* `DynamicWorkflowProofs`: `FlowTyped`; `RunningStaysWorked` for any sessions at once, from
  `UntilDoubledInvariant`: until two threads are at work at once there is at most one, and
  what it is about to write back as running is its own or of a session that has died
  (`SingleThread`); `ResultsStay` and `RecordedCallsStay` (whose properties speak of sessions one
  after the other), from `AloneInvariant`: what a thread or a command has read is still what is
  on disk when it writes it back.
* `ServicesProofs`, one part per module, and last `RunTyped`, that every behavior of the run
  `services` is one of the specification of each of its modules:
  * model calls: `AtMostOneCallBeyond`, because a thread that has entered is alone and
    entered within the budget (`EnteredWithin`); `ChainFollowsOverloads`, because a thread
    asks a model no later than the one in use (`AsksKnown`).
  * prompts: `QuestionsAnswered` (`~Approvals`, as in the run), because a view that names a
    request has been seen with it (`SeenIsShown`). With approvals the property fails
    (`prompt_stale`).
  * scheduled tasks: `SlotsRunOnce` (`RunsOnce`), from `PromptOrder`, for any sessions. The
    difficulty is that a prompt collected while the terminal was idle can wait through the turn of
    another, in which a later prompt of its own task is collected and run first, in the
    session it was collected from or in a new one with a copy of the store. So the
    invariant `PromptsInOrder` keeps all prompts of a task apart, those that wait (`Waits`) and those
    that ran (`RanInOrder`), in either order (`Apart`), and all of them behind the slot the
    session's store goes on with (`Behind`); a copy keeps a task or forgets it (`Keeps`), so a
    history that is in order with the source is in order with the copy. That a rescheduled
    task moves on at all is the lemma `NextSlotLater`, by division with remainder.
  * peer messages: `PeerTyped`, with the bounds of the queues, and `HeldMessagesAreHeld`
    (`HeldBySettings`), because once a change is through, the message being classified has
    been read against the setting in force (`ReadsInForce`). Both rest on lemmas about
    `Put` and `Picked`.

### What is only model-checked

Liveness under fairness and ENABLED are out of the prover's reach: `MessageRuns`,
`AttachGetsSession`, `StopEnds`, `TeardownReleases`. Everything else the passing runs check is
the statement of a theorem. Two things the theorems leave to the runs: that the guard
`\E f \in InOrder(places)` of `PeerInbox` can always be met (some order-preserving choice of a finite
set of places exists, which needs induction), so that the filters of its queues never
stop it; and that the findings are violations.

## Not modelled

Of the modelled components: contents and size limits of logs, summaries, tasks and messages;
the legacy worker payload (`schemaVersion` 1); file permissions and symbolic-link checks;
corrupt files other than an oversized request (the code reports them as errors and
changes nothing); Windows locking; the cache of session-wide approvals (`session_approval.py`), which
only shortens the list of prompts; worktrees of subagents; cron expressions other than a
period; `inherit_task_store`; the team file and the lead's mailbox, each one locked
operation; registrations of peers and the socket protocol.

Whole components: the memory monitor (what it would write, it never writes), review and
integration (git's state), async hooks, monitors and background processes (one lock per
registry, and what they report is the output of programs), permissions, plugin store,
checkpoints and branching (sequential), the agent loop (a turn is one step of the supervisor's
worker and a few of a subagent; what the model answers decides the rest), tools, MCP, LSP, git,
editors and user interfaces (input and output, or protocols that other programs define).
