------------------------------ MODULE ScheduledTasks ------------------------------
(***************************************************************************)
(* The scheduled prompts of a terminal (scheduled_task_store.py,           *)
(* cron_expression.py): each session has a store of its own, a turn        *)
(* delivers from it between iterations (agent_scheduled_notifications.py), *)
(* the idle loop between turns (cli_interactive_idle.py), and a session    *)
(* that goes on from another one starts with a copy.                       *)
(*                                                                         *)
(* Time is discrete; a cron expression matches every Period-th instant.    *)
(***************************************************************************)
EXTENDS Integers, Sequences

CONSTANTS
    Sessions,  \* coding sessions of the project ever opened
    NoSession, \* the terminal goes on from none
    Tasks,     \* scheduled tasks ever created
    Period,    \* distance of two instants the expression matches
    MaxEarly,  \* how far jitter moves a one-shot forward
    Lifetime,  \* RECURRING_EXPIRY_SECONDS
    MaxTime    \* bound: end of time

\* Assumed wherever the module is instantiated.
ScheduleAssumption ==
    /\ NoSession \notin Sessions
    /\ Period \in Nat \ {0}
    /\ MaxEarly \in Nat
    /\ Lifetime \in Nat \ {0}
    /\ MaxTime \in Nat

VARIABLES
    now,     \* time.time()
    store,   \* per session, its scheduled_tasks.json
    opened,  \* sessions that exist
    current, \* resume_run_id, or during a turn the session it runs in
    back,    \* resume_run_id before the turn
    fresh,   \* no pending_workspace: the next turn opens a session
    place,   \* whether the terminal is in a turn
    due,     \* prompts the idle loop has collected and not yet run
    runs     \* per session and task, the prompts that were run in it and, before it
             \* was opened, in the session it goes on from

cronVars == <<now, store, opened, current, back, fresh, place, due, runs>>
terminal == <<opened, current, back, fresh, place>>

Times == 0 .. MaxTime

\* Jitter is drawn from the task's id: at most half the period for a recurring task.
Kinds == {"none", "recurring", "once", "gone"}
ScheduledTask == [kind : Kinds, slot : Nat, jitter : 0 .. Period \div 2, fire : Nat,
                  expires : 0 .. MaxTime + Lifetime]
NoTask == [kind |-> "none", slot |-> 0, jitter |-> 0, fire |-> 0, expires |-> 0]

\* A collected prompt: its slot, when it was collected, and whether its task then
\* left the store.
Prompt == [task : Tasks, slot : Nat, at : Times, final : BOOLEAN]

Stored(s, t) == store[s][t].kind \in {"recurring", "once"}

CronTypeOK ==
    /\ now \in Times
    /\ store \in [Sessions -> [Tasks -> ScheduledTask]]
    /\ opened \subseteq Sessions
    /\ current \in opened \cup {NoSession}
    /\ back \in opened \cup {NoSession}
    /\ fresh \in BOOLEAN
    /\ place \in {"idle", "turn"}
    /\ place = "turn" => current # NoSession
    /\ due \subseteq Prompt
    /\ runs \in [Sessions -> [Tasks -> Seq(Prompt)]]

CronInit ==
    /\ now = 0
    /\ store = [s \in Sessions |-> [t \in Tasks |-> NoTask]]
    /\ opened = {}
    /\ current = NoSession
    /\ back = NoSession
    /\ fresh = TRUE
    /\ place = "idle"
    /\ due = {}
    /\ runs = [s \in Sessions |-> [t \in Tasks |-> <<>>]]

Tick ==
    /\ now < MaxTime
    /\ now' = now + 1
    /\ UNCHANGED <<store, terminal, due, runs>>

\* next_scheduled_time
NextSlot(time) == (time \div Period + 1) * Period

\* CronCreate, by the model during a turn; the id is new.
New(t) == place = "turn" /\ \A s \in Sessions : store[s][t].kind = "none"

CreateRecurring(t, jitter) ==
    /\ New(t)
    /\ store' = [store EXCEPT ![current][t] =
         [kind |-> "recurring", slot |-> NextSlot(now), jitter |-> jitter,
          fire |-> NextSlot(now) + jitter, expires |-> now + Lifetime]]
    /\ UNCHANGED <<now, terminal, due, runs>>

CreateOnce(t, early) ==
    /\ New(t)
    /\ LET fire == NextSlot(now) - early
       IN  store' = [store EXCEPT ![current][t] =
             [NoTask EXCEPT !.kind = "once", !.slot = NextSlot(now),
                            !.fire = IF fire < now THEN now ELSE fire]]
    /\ UNCHANGED <<now, terminal, due, runs>>

Deletes(t) ==
    /\ place = "turn"
    /\ Stored(current, t)
    /\ store' = [store EXCEPT ![current][t].kind = "gone"]
    /\ UNCHANGED <<now, terminal, due, runs>>

-----------------------------------------------------------------------------
(* Delivery *)

Expired(s, t) == store[s][t].kind = "recurring" /\ store[s][t].expires <= now

\* What is due in the session the terminal is in.
Due == {t \in Tasks : Stored(current, t) /\ (store[current][t].fire <= now \/ Expired(current, t))}

\* A recurring task goes on with the first slot after now.
Rescheduled_EverySlot(t) ==
    LET slot == NextSlot(store[current][t].slot)
    IN  [store[current][t] EXCEPT !.slot = slot, !.fire = slot + store[current][t].jitter]
Rescheduled(t) ==
    LET task == store[current][t]
        slot == NextSlot(IF now < task.slot THEN task.slot ELSE now)
    IN  [task EXCEPT !.slot = slot, !.fire = slot + task.jitter]

\* collect_due_scheduled_tasks writes the store before anything is delivered.
Collected ==
    [t \in Tasks |->
        IF t \notin Due THEN store[current][t]
        ELSE IF store[current][t].kind = "once" \/ Expired(current, t)
             THEN [store[current][t] EXCEPT !.kind = "gone"]
        ELSE Rescheduled(t)]

PromptOf(t) ==
    [task |-> t, slot |-> store[current][t].slot, at |-> now,
     final |-> Collected[t].kind = "gone"]

\* Before an iteration of a turn: one message holds every due prompt.
TurnCollects ==
    /\ place = "turn"
    /\ Due # {}
    /\ store' = [store EXCEPT ![current] = Collected]
    /\ runs' = [runs EXCEPT ![current] =
         [t \in Tasks |-> IF t \in Due THEN Append(runs[current][t], PromptOf(t))
                          ELSE runs[current][t]]]
    /\ UNCHANGED <<now, terminal, due>>

\* The idle loop collects from the store of resume_run_id, also when the next turn
\* will open a session.
IdleCollects ==
    /\ place = "idle"
    /\ current # NoSession
    /\ due = {}
    /\ Due # {}
    /\ store' = [store EXCEPT ![current] = Collected]
    /\ due' = {PromptOf(t) : t \in Due}
    /\ UNCHANGED <<now, terminal, runs>>

-----------------------------------------------------------------------------
(* Sessions *)

\* inherit_schedule_store: the copy leaves out what has expired or is missed, and is
\* empty where nothing is restored (a debug or verbose view makes the session's
\* directory itself, /rewind restores none, or the source cannot be read).  The source
\* keeps its own.
Inherits(task) ==
    \/ task.kind = "recurring" /\ task.expires > now
    \/ task.kind = "once" /\ task.slot > now

Inherited(s, restores) ==
    [t \in Tasks |->
        IF store[s][t].kind = "none" \/ (restores /\ Inherits(store[s][t])) THEN store[s][t]
        ELSE [store[s][t] EXCEPT !.kind = "gone"]]

\* A session n that goes on from the current one, if there is one.
OpensSession(n) ==
    /\ n \in Sessions \ opened
    /\ opened' = opened \cup {n}
    /\ IF current = NoSession THEN UNCHANGED store
       ELSE \E restores \in BOOLEAN : store' = [store EXCEPT ![n] = Inherited(current, restores)]

Past == IF current = NoSession THEN [t \in Tasks |-> <<>>] ELSE runs[current]

\* A turn runs in session n: the current one, or the one it opens.
TurnIn(n) ==
    /\ place = "idle"
    /\ IF fresh THEN OpensSession(n) ELSE n = current /\ UNCHANGED <<opened, store>>
    /\ place' = "turn"
    /\ back' = current
    /\ current' = n
    /\ UNCHANGED <<now, fresh>>

\* A turn for what the user types, or of its own for each collected prompt.
UserTurn(n) ==
    /\ due = {}
    /\ TurnIn(n)
    /\ runs' = [runs EXCEPT ![n] = Past]
    /\ UNCHANGED due

PromptTurn(n, p) ==
    /\ p \in due
    /\ TurnIn(n)
    /\ due' = due \ {p}
    /\ runs' = [runs EXCEPT ![n] = [Past EXCEPT ![p.task] = Append(@, p)]]

\* The terminal goes on in the session of the turn.
TurnEnds ==
    /\ place = "turn"
    /\ place' = "idle"
    /\ fresh' = FALSE
    /\ back' = current
    /\ UNCHANGED <<now, store, opened, current, due, runs>>

\* An error or an interrupt leaves the terminal where it was, and the loop over the due
\* prompts.
TurnBreaks ==
    /\ place = "turn"
    /\ place' = "idle"
    /\ current' = back
    /\ due' = {}
    /\ UNCHANGED <<now, store, opened, back, fresh, runs>>

\* Commands are read between turns.
AtPrompt == place = "idle" /\ due = {}

\* /compact, and a one-shot run that resumes s: the next turn opens a session.
Compacts(s) ==
    /\ AtPrompt
    /\ s \in opened
    /\ current' = s
    /\ back' = s
    /\ fresh' = TRUE
    /\ UNCHANGED <<now, store, opened, place, due, runs>>

\* /resume, --resume and --continue: the next turn runs in s.
ResumesSession_Unchecked(s) ==
    /\ AtPrompt
    /\ current' = s
    /\ back' = s
    /\ fresh' = FALSE
    /\ UNCHANGED <<now, store, opened, place, due, runs>>
ResumesSession(s) ==
    /\ AtPrompt
    /\ s \in opened
    /\ current' = s
    /\ back' = s
    /\ fresh' = FALSE
    /\ UNCHANGED <<now, store, opened, place, due, runs>>

\* /branch, /rewind and --fork-session open a session at once.
Branches(n) ==
    /\ AtPrompt
    /\ current # NoSession
    /\ OpensSession(n)
    /\ current' = n
    /\ back' = n
    /\ fresh' = FALSE
    /\ runs' = [runs EXCEPT ![n] = Past]
    /\ UNCHANGED <<now, place, due>>

\* /clear; or the terminal exits or crashes, at any time, and is started again.
StartsOver ==
    /\ current' = NoSession
    /\ back' = NoSession
    /\ fresh' = TRUE
    /\ place' = "idle"
    /\ due' = {}
    /\ UNCHANGED <<now, store, opened, runs>>

CronNext ==
    \/ Tick
    \/ \E t \in Tasks :
         \/ \E jitter \in 0 .. Period \div 2 : CreateRecurring(t, jitter)
         \/ \E early \in 0 .. MaxEarly : CreateOnce(t, early)
         \/ Deletes(t)
    \/ TurnCollects \/ IdleCollects
    \/ \E n \in Sessions :
         \/ UserTurn(n) \/ Compacts(n) \/ ResumesSession(n) \/ Branches(n)
         \/ \E p \in due : PromptTurn(n, p)
    \/ TurnEnds \/ TurnBreaks \/ StartsOver

CronSpec == CronInit /\ [][CronNext]_cronVars

-----------------------------------------------------------------------------
(* Properties *)

\* In a session, and in the one it goes on from until it was opened, across turns, idle
\* time, breaks and restarts: no slot of a task is run twice, a missed recurring task
\* runs once and goes on with a slot after that, and an expired task runs one last time.
RunsOnce == \A s \in Sessions : \A t \in Tasks : \A i, j \in DOMAIN runs[s][t] :
    i # j => /\ runs[s][t][i].slot # runs[s][t][j].slot
             /\ runs[s][t][i].slot < runs[s][t][j].slot =>
                  ~runs[s][t][i].final /\ runs[s][t][i].at < runs[s][t][j].slot
=============================================================================
