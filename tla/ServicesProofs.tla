----------------------------- MODULE ServicesProofs -----------------------------
(***************************************************************************)
(* Proofs about the smaller services, for any numbers of threads, models,  *)
(* tasks, dashboards, sessions and messages: what a budget may lose, that  *)
(* the chain of fallbacks is walked one model at a time, that an answer    *)
(* releases only the question its user saw, that no slot of a scheduled    *)
(* task runs twice, and that a message is held only if the settings hold   *)
(* it.  Last, the run of MCServices has only behaviors of the services.    *)
(***************************************************************************)
EXTENDS MCServices, ScheduledTasks, SessionTasksProofs, DynamicWorkflowProofs, FiniteSetTheorems, TLAPS

-----------------------------------------------------------------------------
(* Model calls. *)

\* With a budget one thread at a time is in a call, and it entered while the
\* budget was not spent; nobody else can spend it meanwhile.
EnteredWithin ==
    /\ budgeted => /\ \A t, u \in Threads :
                        call[t].at # "idle" /\ call[u].at # "idle" => t = u
                   /\ (\E t \in Threads : call[t].at # "idle") => spent < Budget
    /\ ~budgeted => spent = 0

\* A thread never asks a model beyond the one in use.
AsksKnown == \A t \in Threads : call[t].at = "asking" => call[t].model <= active

\* The type invariant holds for any constants.
THEOREM CallsTyped ==
    ASSUME CallsAssumption
    PROVE  CallSpec => []CallTypeOK
<1>1. CallInit => CallTypeOK
  BY DEF CallsAssumption, CallInit, CallTypeOK, Idle, Models
<1>2. CallTypeOK /\ [CallNext]_callVars => CallTypeOK'
  <2> SUFFICES ASSUME CallTypeOK, [CallNext]_callVars PROVE CallTypeOK'
    OBVIOUS
  <2>1. ASSUME NEW t \in Threads, Enters(t) PROVE CallTypeOK'
    BY <2>1 DEF CallsAssumption, Enters, CallTypeOK, At, Models
  <2>2. ASSUME NEW t \in Threads, Chooses(t) PROVE CallTypeOK'
    BY <2>2 DEF Chooses, CallTypeOK, At
  <2>3. ASSUME NEW t \in Threads, Overloads(t) PROVE CallTypeOK'
    <3>1. call[t].model \in Models /\ NextModel(call[t].model) \in Models
      BY DEF CallsAssumption, CallTypeOK, NextModel, Models
    <3> QED
      BY <2>3, <3>1 DEF CallsAssumption, Overloads, CallTypeOK, At, Idle, Models
  <2>4. ASSUME NEW t \in Threads, Fails(t) PROVE CallTypeOK'
    BY <2>4 DEF CallsAssumption, Fails, CallTypeOK, Idle, Models
  <2>5. ASSUME NEW t \in Threads, Responds(t) PROVE CallTypeOK'
    <3>1. call' \in [Threads -> [at : {"idle", "entered", "asking"}, model : Models]]
      BY <2>5 DEF CallsAssumption, Responds, CallTypeOK, Idle, Models
    <3>2. spent' \in Nat /\ failure' \in {"none", "exceeded", "accounting"}
      BY <2>5 DEF CallsAssumption, Responds, Charged, Unpriced, CallTypeOK
    <3> QED
      BY <2>5, <3>1, <3>2 DEF Responds, CallTypeOK
  <2>6. CASE UNCHANGED callVars
    BY <2>6 DEF callVars, CallTypeOK
  <2> QED
    BY <2>1, <2>2, <2>3, <2>4, <2>5, <2>6 DEF CallNext
<1> QED
  BY <1>1, <1>2, PTL DEF CallSpec

\* The lock makes EnteredWithin inductive: a thread that pays was the only one
\* in a call, and leaves nobody in one.
THEOREM AtMostOneCallBeyond ==
    ASSUME CallsAssumption
    PROVE  CallSpec => []OneCallBeyond
<1> DEFINE Inv == EnteredWithin /\ OneCallBeyond
<1>1. CallInit => Inv
  BY DEF CallsAssumption, CallInit, EnteredWithin, OneCallBeyond, Idle
<1>2. CallTypeOK /\ Inv /\ [CallNext]_callVars => Inv'
  <2> SUFFICES ASSUME CallTypeOK, Inv, [CallNext]_callVars PROVE Inv'
    OBVIOUS
  <2>1. ASSUME NEW t \in Threads, Enters(t) PROVE Inv'
    <3>1. budgeted => spent < Budget /\ \A u \in Threads : call[u].at = "idle"
      BY <2>1 DEF Enters, LockFree
    <3>2. \A u \in Threads \ {t} : call'[u] = call[u]
      BY <2>1 DEF Enters, CallTypeOK
    <3> QED
      BY <2>1, <3>1, <3>2 DEF Enters, EnteredWithin, OneCallBeyond
  <2>2. ASSUME NEW t \in Threads, Chooses(t) \/ Overloads(t) \/ Fails(t) PROVE Inv'
    <3>1. call[t].at # "idle" /\ \A u \in Threads \ {t} : call'[u] = call[u]
      BY <2>2 DEF Chooses, Overloads, Fails, CallTypeOK
    <3>2. spent' = spent /\ budgeted' = budgeted
      BY <2>2 DEF Chooses, Overloads, Fails
    <3> QED
      BY <3>1, <3>2 DEF EnteredWithin, OneCallBeyond
  <2>3. ASSUME NEW t \in Threads, Responds(t) PROVE Inv'
    <3>1. call[t].at # "idle" /\ call'[t].at = "idle"
      BY <2>3 DEF Responds, CallTypeOK, Idle
    <3>2. \A u \in Threads \ {t} : call'[u] = call[u]
      BY <2>3 DEF Responds, CallTypeOK
    <3>3. CASE budgeted
      <4>1. \A u \in Threads : call'[u].at = "idle"
        BY <3>1, <3>2, <3>3 DEF EnteredWithin
      <4>2. PICK cost \in 0 .. MaxCost : spent' = spent + cost
        BY <2>3, <3>3 DEF Responds, Charged, Unpriced
      <4>3. spent < Budget
        BY <3>1, <3>3 DEF EnteredWithin
      <4>4. budgeted'
        BY <2>3, <3>3 DEF Responds
      <4> QED
        BY <4>1, <4>2, <4>3, <4>4 DEF CallsAssumption, CallTypeOK, EnteredWithin, OneCallBeyond
    <3>4. CASE ~budgeted
      BY <2>3, <3>4 DEF Responds, EnteredWithin, OneCallBeyond
    <3> QED
      BY <3>3, <3>4
  <2>4. CASE UNCHANGED callVars
    BY <2>4 DEF callVars, EnteredWithin, OneCallBeyond
  <2> QED
    BY <2>1, <2>2, <2>3, <2>4 DEF CallNext
<1> QED
  BY <1>1, <1>2, CallsTyped, PTL DEF CallSpec

\* Whatever the order in which concurrent requests report overloads, the chain
\* advances by one and past no model that has not reported one.
THEOREM ChainFollowsOverloads ==
    ASSUME CallsAssumption
    PROVE  CallSpec => []FollowsOverloads
<1> DEFINE Inv == AsksKnown /\ FollowsOverloads
<1>1. CallInit => Inv
  BY DEF CallInit, AsksKnown, FollowsOverloads, Idle
<1>2. CallTypeOK /\ Inv /\ [CallNext]_callVars => Inv'
  <2> SUFFICES ASSUME CallTypeOK, Inv, [CallNext]_callVars PROVE Inv'
    OBVIOUS
  <2>1. ASSUME NEW t \in Threads, Enters(t) \/ Chooses(t) \/ Fails(t) \/ Responds(t) PROVE Inv'
    <3>1. active' = active /\ overloaded' = overloaded
      BY <2>1 DEF Enters, Chooses, Fails, Responds
    <3>2. \A u \in Threads \ {t} : call'[u] = call[u]
      BY <2>1 DEF Enters, Chooses, Fails, Responds, CallTypeOK
    <3>3. call'[t].at = "asking" => call'[t].model = active
      BY <2>1 DEF Enters, Chooses, Fails, Responds, CallTypeOK, At, Idle
    <3>4. active <= active
      BY DEF CallTypeOK, Models
    <3> QED
      BY <3>1, <3>2, <3>3, <3>4 DEF AsksKnown, FollowsOverloads
  <2>2. ASSUME NEW t \in Threads, Overloads(t) PROVE Inv'
    <3> DEFINE m == call[t].model
               next == NextModel(m)
    <3>1. m \in Models /\ active \in Models /\ m <= active
      BY <2>2 DEF Overloads, AsksKnown, CallTypeOK
    <3>2. /\ next = 0 => m = active
          /\ next # 0 => next \in Models /\ active <= next /\ m <= next
                         /\ (next = active \/ (m = active /\ next = active + 1))
      BY <3>1 DEF CallsAssumption, NextModel, Models
    <3>3. /\ overloaded' = overloaded \cup {m}
          /\ active' = IF next = 0 THEN active ELSE next
          /\ call' = [call EXCEPT ![t] = IF next = 0 THEN Idle ELSE At("asking", next)]
      BY <2>2 DEF Overloads
    <3> HIDE DEF m, next
    <3>4. active \in Int /\ active' \in Int /\ active <= active' /\ m <= active'
      BY <3>1, <3>2, <3>3 DEF CallsAssumption, Models
    <3>5. AsksKnown'
      <4>1. \A u \in Threads \ {t} : call'[u] = call[u] /\ call[u].model \in Int
        BY <3>3 DEF CallTypeOK, Models
      <4>2. call'[t].at = "asking" => call'[t].model = active'
        BY <3>3 DEF CallTypeOK, At, Idle
      <4> QED
        BY <3>4, <4>1, <4>2 DEF AsksKnown
    <3>6. FollowsOverloads'
      <4>1. overloaded \subseteq Int
        BY DEF CallTypeOK, Models
      <4>2. \A k \in overloaded' : k <= active'
        BY <3>3, <3>4, <4>1 DEF FollowsOverloads
      <4>3. 0 .. active' - 1 \subseteq overloaded'
        BY <3>1, <3>2, <3>3 DEF FollowsOverloads, Models
      <4> QED
        BY <4>2, <4>3 DEF FollowsOverloads
    <3> QED
      BY <3>5, <3>6
  <2>3. CASE UNCHANGED callVars
    BY <2>3 DEF callVars, AsksKnown, FollowsOverloads
  <2> QED
    BY <2>1, <2>2, <2>3 DEF CallNext
<1> QED
  BY <1>1, <1>2, CallsTyped, PTL DEF CallSpec

-----------------------------------------------------------------------------
(* Prompts of a background worker. *)

\* A view that names a request has been seen with it, and what the user of such a
\* view answers is that request.
SeenIsShown ==
    /\ \A v \in Views : shown[v].id # 0 => shown[v].seen = shown[v].id
    /\ response # NoResponse => response.seen = response.id

\* The type invariant holds for any constants.
THEOREM AskTyped ==
    ASSUME PromptAssumption
    PROVE  AskSpec => []AskTypeOK
<1> USE DEF PromptAssumption
<1>1. AskInit => AskTypeOK
  BY DEF AskInit, AskTypeOK, Running, NoResponse, Responses
<1>2. AskTypeOK /\ [AskNext]_askVars => AskTypeOK'
  <2> SUFFICES ASSUME AskTypeOK, [AskNext]_askVars PROVE AskTypeOK'
    OBVIOUS
  <2>1. ASSUME NEW t \in Askers, Asks(t) PROVE AskTypeOK'
    <3>1. raised + 1 \in Requests /\ raised' \in 0 .. MaxRequests
      BY <2>1 DEF Asks, AskTypeOK, Requests
    <3>2. [Running EXCEPT !.at = "waiting", !.id = raised + 1]
            \in [at : {"running", "waiting", "leaving"}, id : Requests \cup {0}, got : Responses]
      BY <3>1 DEF Running, Responses
    <3> QED
      BY <2>1, <3>1, <3>2 DEF Asks, AskTypeOK, Responses
  <2>2. ASSUME NEW t \in Askers, Polls(t) PROVE AskTypeOK'
    <3>1. Accepted(t) \in Responses
      BY DEF AskTypeOK, Accepted, Responses
    <3>2. thread' = [thread EXCEPT ![t] = [thread[t] EXCEPT !.at = "leaving", !.got = Accepted(t)]]
      BY <2>2 DEF Polls, AskTypeOK
    <3>3. [thread[t] EXCEPT !.at = "leaving", !.got = Accepted(t)]
              \in [at : {"running", "waiting", "leaving"}, id : Requests \cup {0}, got : Responses]
      BY <3>1 DEF AskTypeOK
    <3> QED
      BY <2>2, <3>2, <3>3 DEF Polls, AskTypeOK
  <2>3. ASSUME NEW t \in Askers, Leaves(t) PROVE AskTypeOK'
    <3>1. thread[t].id \in Requests \cup {0} /\ request' \in Requests \cup {0}
      BY <2>3 DEF Leaves, AskTypeOK
    <3>2. Running \in [at : {"running", "waiting", "leaving"}, id : Requests \cup {0},
                       got : Responses]
      BY DEF Running, Responses
    <3> QED
      BY <2>3, <3>1, <3>2 DEF Leaves, AskTypeOK, Responses
  <2>4. ASSUME NEW v \in Views, Shows(v) PROVE AskTypeOK'
    BY <2>4 DEF Shows, AskTypeOK
  <2>5. ASSUME NEW v \in Views, Decides(v) PROVE AskTypeOK'
    BY <2>5 DEF Decides, AskTypeOK, Responses
  <2>6. CASE UNCHANGED askVars
    BY <2>6 DEF askVars, AskTypeOK
  <2> QED
    BY <2>1, <2>2, <2>3, <2>4, <2>5, <2>6 DEF AskNext
<1> QED
  BY <1>1, <1>2, PTL DEF AskSpec

\* Questions of several threads never get each other's answers.
THEOREM QuestionsAnswered ==
    ASSUME PromptAssumption, ~Approvals
    PROVE  AskSpec => []AnswerIsForRequest
<1> DEFINE Inv == SeenIsShown /\ AnswerIsForRequest
<1>1. AskInit => Inv
  BY DEF AskInit, SeenIsShown, AnswerIsForRequest, Running, NoResponse
<1>2. AskTypeOK /\ Inv /\ [AskNext]_askVars => Inv'
  <2> SUFFICES ASSUME AskTypeOK, Inv, [AskNext]_askVars PROVE Inv'
    OBVIOUS
  <2>1. ASSUME NEW t \in Askers, Asks(t) \/ Polls(t) \/ Leaves(t) PROVE Inv'
    <3>1. SeenIsShown'
      BY <2>1 DEF Asks, Polls, Leaves, SeenIsShown
    <3>2. \A u \in Askers \ {t} : thread'[u] = thread[u]
      BY <2>1 DEF Asks, Polls, Leaves, AskTypeOK
    <3>3. thread'[t].got # NoResponse => thread'[t].got.seen = thread'[t].id
      <4>1. CASE Asks(t) \/ Leaves(t)
        <5>1. Running.got = NoResponse /\ [Running EXCEPT !.at = "waiting", !.id = raised + 1].got = NoResponse
          BY DEF Running
        <5>2. thread'[t] \in {Running, [Running EXCEPT !.at = "waiting", !.id = raised + 1]}
          BY <4>1 DEF Asks, Leaves, AskTypeOK
        <5> QED
          BY <5>1, <5>2
      <4>2. CASE Polls(t)
        <5>1. thread'[t].got = Accepted(t) /\ thread'[t].id = thread[t].id /\ response # NoResponse
          BY <4>2 DEF Polls, AskTypeOK
        <5> QED
          BY <5>1 DEF Accepted, SeenIsShown
      <4> QED
        BY <2>1, <4>1, <4>2
    <3> QED
      BY <3>1, <3>2, <3>3 DEF AnswerIsForRequest
  <2>2. ASSUME NEW v \in Views, Shows(v) PROVE Inv'
    BY <2>2 DEF Shows, AskTypeOK, SeenIsShown, AnswerIsForRequest
  <2>3. ASSUME NEW v \in Views, Decides(v) PROVE Inv'
    BY <2>3 DEF Decides, Matches, AskTypeOK, SeenIsShown, AnswerIsForRequest
  <2>4. CASE UNCHANGED askVars
    BY <2>4 DEF askVars, SeenIsShown, AnswerIsForRequest
  <2> QED
    BY <2>1, <2>2, <2>3, <2>4 DEF AskNext
<1> QED
  BY <1>1, <1>2, AskTyped, PTL DEF AskSpec

-----------------------------------------------------------------------------
(* Scheduled tasks. *)

TaskTable == [Tasks -> ScheduledTask]
PromptTable == [Tasks -> Seq(Prompt)]

LEMMA NextSlotLater ==
    ASSUME ScheduleAssumption, NEW x \in Nat
    PROVE  NextSlot(x) \in Nat /\ NextSlot(x) > x
<1> DEFINE q == x \div Period
           r == x % Period
<1>1. q \in Nat /\ r \in 0 .. Period - 1 /\ x = Period * q + r
  BY DEF ScheduleAssumption
<1>2. (q + 1) * Period = Period * q + Period
  BY <1>1 DEF ScheduleAssumption
<1> QED
  BY <1>1, <1>2 DEF NextSlot, ScheduleAssumption

LEMMA Reslotted ==
    ASSUME NEW r \in ScheduledTask, NEW slot \in Nat, NEW fire \in Nat
    PROVE  [r EXCEPT !.slot = slot, !.fire = fire] \in ScheduledTask
<1> DEFINE J == 0 .. Period \div 2
           X == 0 .. MaxTime + Lifetime
<1>1. ScheduledTask = [kind : Kinds, slot : Nat, jitter : J, fire : Nat, expires : X]
  BY DEF ScheduledTask
<1> HIDE DEF J, X
<1> QED
  BY <1>1

LEMMA GoneTyped ==
    ASSUME NEW r \in ScheduledTask
    PROVE  [r EXCEPT !.kind = "gone"] \in ScheduledTask /\ [r EXCEPT !.kind = "gone"].kind = "gone"
BY DEF ScheduledTask, Kinds

LEMMA EmptyTyped ==
    ASSUME ScheduleAssumption
    PROVE  NoTask \in ScheduledTask
BY DEF ScheduleAssumption, NoTask, ScheduledTask, Kinds

\* A collected task leaves the store, or goes on with a slot after now and after the
\* one its prompt is for.
LEMMA CollectedGoesOn ==
    ASSUME ScheduleAssumption, CronTypeOK, current \in Sessions, NEW t \in Due
    PROVE  /\ t \in Tasks
           /\ store[current][t] \in ScheduledTask
           /\ store[current][t].kind \in {"recurring", "once"}
           /\ Collected[t] \in ScheduledTask
           /\ Collected[t].kind # "none"
           /\ Collected[t].kind # "gone" =>
                  /\ Collected[t].slot > now
                  /\ Collected[t].slot > store[current][t].slot
<1> DEFINE was == store[current][t]
<1>1. t \in Tasks /\ was \in ScheduledTask /\ now \in Nat /\ was.kind \in {"recurring", "once"}
  BY DEF Due, CronTypeOK, Times, Stored
<1>2. CASE was.kind = "once" \/ Expired(current, t)
  <2>1. Collected[t] = [was EXCEPT !.kind = "gone"]
    BY <1>1, <1>2 DEF Collected
  <2> QED
    BY <1>1, <2>1, GoneTyped
<1>3. CASE ~(was.kind = "once" \/ Expired(current, t))
  <2> DEFINE from == IF now < was.slot THEN was.slot ELSE now
             slot == NextSlot(from)
             fire == slot + was.jitter
  <2>1. from \in Nat /\ from >= now /\ from >= was.slot /\ was.slot \in Nat /\ was.jitter \in Nat
    BY <1>1 DEF ScheduledTask
  <2>2. slot \in Nat /\ slot > from
    BY <2>1, NextSlotLater
  <2>3. Collected[t] = [was EXCEPT !.slot = slot, !.fire = fire]
    BY <1>1, <1>3 DEF Collected, Rescheduled
  <2>4. fire \in Nat
    BY <2>1, <2>2
  <2>5. slot > now /\ slot > was.slot
    BY <1>1, <2>1, <2>2
  <2> HIDE DEF from, slot, fire, was
  <2>6. [was EXCEPT !.slot = slot, !.fire = fire] \in ScheduledTask
    BY <1>1, <2>2, <2>4, Reslotted
  <2>7. Collected[t].kind = was.kind /\ Collected[t].slot = slot
    BY <1>1, <2>3 DEF ScheduledTask
  <2>8. Collected[t] \in ScheduledTask
    BY <2>3, <2>6
  <2> QED
    BY <1>1, <2>5, <2>7, <2>8 DEF was
<1> QED
  BY <1>2, <1>3

LEMMA CollectedTyped ==
    ASSUME ScheduleAssumption, CronTypeOK, current \in Sessions
    PROVE  /\ Collected \in TaskTable
           /\ \A t \in Due : PromptOf(t) \in Prompt
<1>1. \A t \in Tasks : Collected[t] \in ScheduledTask
  <2> TAKE t \in Tasks
  <2>1. CASE t \in Due
    BY <2>1, CollectedGoesOn
  <2>2. CASE t \notin Due
    BY <2>2 DEF Collected, CronTypeOK
  <2> QED
    BY <2>1, <2>2
<1>2. Collected = [t \in Tasks |-> Collected[t]]
  BY DEF Collected
<1>3. \A t \in Due : t \in Tasks /\ store[current][t].slot \in Nat /\ now \in Times
  BY CollectedGoesOn DEF CronTypeOK, ScheduledTask
<1> QED
  BY <1>1, <1>2, <1>3 DEF PromptOf, Prompt, TaskTable

LEMMA InheritedTyped ==
    ASSUME CronTypeOK, NEW s \in Sessions, NEW restores
    PROVE  /\ Inherited(s, restores) \in TaskTable
           /\ \A t \in Tasks : \/ Inherited(s, restores)[t] = store[s][t]
                               \/ Inherited(s, restores)[t].kind = "gone" /\ store[s][t].kind # "none"
BY GoneTyped DEF Inherited, TaskTable, CronTypeOK

\* One session's store, or its history, changes.
LEMMA SessionTyped ==
    ASSUME NEW s \in Sessions, NEW table \in TaskTable, NEW past \in PromptTable
    PROVE  /\ CronTypeOK => [store EXCEPT ![s] = table] \in [Sessions -> TaskTable]
           /\ CronTypeOK => [runs EXCEPT ![s] = past] \in [Sessions -> PromptTable]
BY DEF CronTypeOK, TaskTable, PromptTable

LEMMA OpensTyped ==
    ASSUME ScheduleAssumption, CronTypeOK, NEW n \in Sessions, OpensSession(n)
    PROVE  /\ opened' \subseteq Sessions /\ opened \subseteq opened' /\ n \in opened'
           /\ store' \in [Sessions -> TaskTable]
<1>1. CASE current = NoSession
  BY <1>1 DEF OpensSession, CronTypeOK, TaskTable
<1>2. CASE current # NoSession
  <2>1. PICK restores \in BOOLEAN : store' = [store EXCEPT ![n] = Inherited(current, restores)]
    BY <1>2 DEF OpensSession
  <2>2. current \in Sessions
    BY <1>2 DEF CronTypeOK
  <2>3. Inherited(current, restores) \in TaskTable
    BY <2>2, InheritedTyped
  <2> QED
    BY <2>1, <2>3 DEF OpensSession, CronTypeOK, TaskTable
<1> QED
  BY <1>1, <1>2

LEMMA PastTyped ==
    ASSUME CronTypeOK
    PROVE  Past \in PromptTable
BY DEF Past, CronTypeOK, PromptTable

LEMMA TurnInTyped ==
    ASSUME ScheduleAssumption, CronTypeOK, NEW n \in Sessions, TurnIn(n)
    PROVE  /\ opened' \subseteq Sessions /\ store' \in [Sessions -> TaskTable]
           /\ current' \in opened' /\ current' # NoSession /\ back' \in opened' \cup {NoSession}
           /\ now' = now /\ fresh' = fresh /\ place' = "turn"
<1>1. CASE fresh
  <2>1. OpensSession(n)
    BY <1>1 DEF TurnIn
  <2> QED
    BY <2>1, OpensTyped DEF TurnIn, CronTypeOK, ScheduleAssumption
<1>2. CASE ~fresh
  BY <1>2 DEF TurnIn, CronTypeOK, ScheduleAssumption, TaskTable
<1> QED
  BY <1>1, <1>2

LEMMA CreatedTyped ==
    ASSUME CronTypeOK, NEW t \in Tasks, NEW new \in ScheduledTask,
           store' = [store EXCEPT ![current][t] = new], UNCHANGED <<now, terminal, due, runs>>
    PROVE  CronTypeOK'
BY DEF CronTypeOK, terminal

LEMMA RecurringTyped ==
    ASSUME ScheduleAssumption, CronTypeOK, NEW jitter \in 0 .. Period \div 2
    PROVE  [kind |-> "recurring", slot |-> NextSlot(now), jitter |-> jitter,
            fire |-> NextSlot(now) + jitter, expires |-> now + Lifetime] \in ScheduledTask
<1>1. now \in Nat /\ now <= MaxTime
  BY DEF CronTypeOK, Times, ScheduleAssumption
<1>2. NextSlot(now) \in Nat
  BY <1>1, NextSlotLater
<1>3. NextSlot(now) + jitter \in Nat /\ now + Lifetime \in 0 .. MaxTime + Lifetime
  BY <1>1, <1>2 DEF ScheduleAssumption
<1> QED
  BY <1>2, <1>3 DEF ScheduledTask, Kinds

LEMMA OnceTyped ==
    ASSUME ScheduleAssumption, CronTypeOK, NEW t \in Tasks, NEW early \in 0 .. MaxEarly,
           CreateOnce(t, early)
    PROVE  \E new \in ScheduledTask : store' = [store EXCEPT ![current][t] = new]
<1> DEFINE at == IF NextSlot(now) - early < now THEN now ELSE NextSlot(now) - early
           new == [NoTask EXCEPT !.kind = "once", !.slot = NextSlot(now), !.fire = at]
<1>1. now \in Nat /\ MaxTime + Lifetime \in Nat /\ Period \div 2 \in Nat
  BY DEF CronTypeOK, Times, ScheduleAssumption
<1>2. NextSlot(now) \in Nat
  BY <1>1, NextSlotLater
<1>3. at \in Nat
  BY <1>1, <1>2 DEF ScheduleAssumption
<1>4. store' = [store EXCEPT ![current][t] = new]
  BY DEF CreateOnce
<1> HIDE DEF at
<1>5. [NoTask EXCEPT !.kind = "once"] \in ScheduledTask
  BY <1>1 DEF ScheduledTask, Kinds, NoTask
<1>6. new = [[NoTask EXCEPT !.kind = "once"] EXCEPT !.slot = NextSlot(now), !.fire = at]
  BY DEF NoTask
<1>7. new \in ScheduledTask
  BY <1>2, <1>3, <1>5, <1>6, Reslotted
<1> QED
  BY <1>4, <1>7

LEMMA CronTypeNext ==
    ASSUME ScheduleAssumption, CronTypeOK, [CronNext]_cronVars
    PROVE  CronTypeOK'
<1>1. CASE Tick
  BY <1>1 DEF Tick, terminal, CronTypeOK, Times, ScheduleAssumption
<1>2. ASSUME NEW t \in Tasks, NEW jitter \in 0 .. Period \div 2, CreateRecurring(t, jitter)
      PROVE  CronTypeOK'
  BY <1>2, RecurringTyped, CreatedTyped DEF CreateRecurring
<1>3. ASSUME NEW t \in Tasks, NEW early \in 0 .. MaxEarly, CreateOnce(t, early)
      PROVE  CronTypeOK'
  <2>1. PICK new \in ScheduledTask : store' = [store EXCEPT ![current][t] = new]
    BY <1>3, OnceTyped
  <2> QED
    BY <1>3, <2>1, CreatedTyped DEF CreateOnce
<1>4. ASSUME NEW t \in Tasks, Deletes(t) PROVE CronTypeOK'
  <2>1. current \in Sessions
    BY <1>4 DEF Deletes, CronTypeOK
  <2>2. [store[current][t] EXCEPT !.kind = "gone"] \in ScheduledTask
    BY <2>1, GoneTyped DEF CronTypeOK
  <2>3. store' = [store EXCEPT ![current][t] = [store[current][t] EXCEPT !.kind = "gone"]]
    BY <1>4, <2>1 DEF Deletes, CronTypeOK
  <2> QED
    BY <1>4, <2>2, <2>3, CreatedTyped DEF Deletes
<1>5. CASE TurnCollects
  <2>1. current \in Sessions
    BY <1>5 DEF TurnCollects, CronTypeOK
  <2>2. [t \in Tasks |-> IF t \in Due THEN Append(runs[current][t], PromptOf(t))
                         ELSE runs[current][t]] \in PromptTable
    BY <2>1, CollectedTyped DEF PromptTable, CronTypeOK
  <2>3. runs' \in [Sessions -> PromptTable] /\ store' \in [Sessions -> TaskTable]
    BY <1>5, <2>1, <2>2, CollectedTyped, SessionTyped DEF TurnCollects
  <2> QED
    BY <1>5, <2>3 DEF TurnCollects, terminal, CronTypeOK, TaskTable, PromptTable
<1>6. CASE IdleCollects
  <2>1. current \in Sessions
    BY <1>6 DEF IdleCollects, CronTypeOK
  <2>2. store' \in [Sessions -> TaskTable] /\ due' \subseteq Prompt
    BY <1>6, <2>1, CollectedTyped DEF IdleCollects, CronTypeOK, TaskTable
  <2> QED
    BY <1>6, <2>2 DEF IdleCollects, terminal, CronTypeOK, TaskTable
<1>7. CASE TurnEnds \/ TurnBreaks \/ StartsOver
  BY <1>7 DEF TurnEnds, TurnBreaks, StartsOver, CronTypeOK
<1>8. ASSUME NEW n \in Sessions, UserTurn(n) PROVE CronTypeOK'
  <2>1. TurnIn(n) /\ runs' = [runs EXCEPT ![n] = Past] /\ due' = due
    BY <1>8 DEF UserTurn
  <2>2. runs' \in [Sessions -> PromptTable]
    BY <2>1, PastTyped DEF CronTypeOK, PromptTable
  <2> QED
    BY <2>1, <2>2, TurnInTyped DEF CronTypeOK, TaskTable, PromptTable
<1>9. ASSUME NEW n \in Sessions, NEW p \in due, PromptTurn(n, p) PROVE CronTypeOK'
  <2>1. p \in Prompt /\ p.task \in Tasks
    BY DEF CronTypeOK, Prompt
  <2>2. TurnIn(n) /\ due' \subseteq due
    BY <1>9 DEF PromptTurn
  <2>3. [Past EXCEPT ![p.task] = Append(@, p)] \in PromptTable
    BY <2>1, PastTyped DEF PromptTable
  <2>4. runs' \in [Sessions -> PromptTable]
    BY <1>9, <2>3 DEF PromptTurn, CronTypeOK, PromptTable
  <2> QED
    BY <2>2, <2>4, TurnInTyped DEF CronTypeOK, TaskTable, PromptTable
<1>10. ASSUME NEW n \in Sessions, Compacts(n) \/ ResumesSession(n) PROVE CronTypeOK'
  BY <1>10 DEF Compacts, ResumesSession, AtPrompt, CronTypeOK, ScheduleAssumption
<1>11. ASSUME NEW n \in Sessions, Branches(n) PROVE CronTypeOK'
  <2>1. runs' \in [Sessions -> PromptTable]
    BY <1>11, PastTyped DEF Branches, CronTypeOK, PromptTable
  <2>2. OpensSession(n)
    BY <1>11 DEF Branches
  <2> QED
    BY <1>11, <2>1, <2>2, OpensTyped DEF Branches, AtPrompt, CronTypeOK, TaskTable, PromptTable
<1>12. CASE UNCHANGED cronVars
  BY <1>12 DEF cronVars, CronTypeOK
<1> QED
  BY <1>1, <1>2, <1>3, <1>4, <1>5, <1>6, <1>7, <1>8, <1>9, <1>10, <1>11, <1>12 DEF CronNext

\* The type invariant holds for any sessions, tasks, period and any expiry.
THEOREM CronTyped ==
    ASSUME ScheduleAssumption
    PROVE  CronSpec => []CronTypeOK
<1>1. CronInit => CronTypeOK
  BY EmptyTyped DEF CronInit, CronTypeOK, ScheduleAssumption, Times
<1> QED
  BY <1>1, CronTypeNext, PTL DEF CronSpec

\* Prompt p leaves room for q: it has another slot, and if that is the earlier one, its
\* task went on, with a slot after the time p was collected.
Apart(p, q) == p.slot # q.slot /\ (p.slot < q.slot => ~p.final /\ p.at < q.slot)

Behind(p, entry) == ~p.final /\ p.slot < entry.slot /\ p.at < entry.slot

OnFile(entry) == entry.kind \in {"recurring", "once"}

\* The prompts h that were run of a task: apart, and behind the task as long as it is
\* stored.
RanInOrder(h, entry) ==
    /\ entry.kind = "none" => h = <<>>
    /\ OnFile(entry) => \A i \in DOMAIN h : Behind(h[i], entry)
    /\ \A i, j \in DOMAIN h : i # j => Apart(h[i], h[j])

\* A collected prompt that has not been run.
Waits(p, h, entry) ==
    /\ entry.kind # "none"
    /\ OnFile(entry) => Behind(p, entry)
    /\ \A i \in DOMAIN h : Apart(p, h[i]) /\ Apart(h[i], p)

\* A store forgets a task or keeps it.
Keeps(entry, copy) == copy = entry \/ (copy.kind = "gone" /\ entry.kind # "none")

\* The strengthening of RunsOnce.
PromptsInOrder ==
    /\ \A s \in Sessions, t \in Tasks : RanInOrder(runs[s][t], store[s][t])
    /\ \A p \in due : /\ current # NoSession
                      /\ Waits(p, runs[current][p.task], store[current][p.task])
    /\ \A p, q \in due : p.task = q.task => p = q

LEMMA KeptInOrder ==
    ASSUME NEW entry, NEW copy, NEW h, Keeps(entry, copy), RanInOrder(h, entry)
    PROVE  /\ RanInOrder(h, copy)
           /\ \A p : Waits(p, h, entry) => Waits(p, h, copy)
BY DEF Keeps, RanInOrder, Waits, OnFile

\* A prompt that waits can be run.
LEMMA RunInOrder ==
    ASSUME NEW entry, NEW h \in Seq(Prompt), NEW p \in Prompt, RanInOrder(h, entry), Waits(p, h, entry)
    PROVE  RanInOrder(Append(h, p), entry)
<1> DEFINE g == Append(h, p)
<1>1. DOMAIN g = DOMAIN h \cup {Len(h) + 1} /\ Len(h) + 1 \notin DOMAIN h
  OBVIOUS
<1>2. g[Len(h) + 1] = p /\ \A i \in DOMAIN h : g[i] = h[i]
  OBVIOUS
<1> HIDE DEF g
<1>3. \A i, j \in DOMAIN g : i # j => Apart(g[i], g[j])
  BY <1>1, <1>2 DEF RanInOrder, Waits
<1>4. OnFile(entry) => \A i \in DOMAIN g : Behind(g[i], entry)
  BY <1>1, <1>2 DEF RanInOrder, Waits
<1>5. entry.kind # "none"
  BY DEF Waits
<1>6. RanInOrder(g, entry)
  BY <1>3, <1>4, <1>5 DEF RanInOrder
<1> QED
  BY <1>6 DEF g

\* What is collected waits, and what waits leaves room for what is collected later.
LEMMA CollectInOrder ==
    ASSUME NEW entry \in ScheduledTask, NEW next \in ScheduledTask, NEW at \in Nat,
           NEW h \in Seq(Prompt), NEW p \in Prompt,
           OnFile(entry), next.kind # "none",
           next.kind # "gone" => next.slot > at /\ next.slot > entry.slot,
           p.slot = entry.slot, p.at = at, p.final = (next.kind = "gone"),
           ScheduleAssumption, RanInOrder(h, entry)
    PROVE  /\ RanInOrder(h, next)
           /\ Waits(p, h, next)
           /\ \A q \in Prompt : Waits(q, h, entry) => Waits(q, Append(h, p), next)
<1>1. entry.slot \in Nat /\ next.slot \in Nat
  BY DEF ScheduledTask
<1>2. \A q \in Prompt : q.slot \in Nat /\ q.at \in Nat
  BY DEF Prompt, Times, ScheduleAssumption
<1>3. \A i \in DOMAIN h : h[i] \in Prompt
  OBVIOUS
<1>4. \A q \in Prompt : Behind(q, entry) => /\ OnFile(next) => Behind(q, next)
                                            /\ Apart(q, p) /\ Apart(p, q)
  BY <1>1, <1>2 DEF Behind, OnFile, Apart
<1>5. OnFile(next) => Behind(p, next)
  BY <1>1, <1>2 DEF Behind, OnFile
<1>6. RanInOrder(h, next) /\ Waits(p, h, next)
  BY <1>3, <1>4, <1>5 DEF RanInOrder, Waits
<1>7. ASSUME NEW q \in Prompt, Waits(q, h, entry) PROVE Waits(q, Append(h, p), next)
  <2> DEFINE g == Append(h, p)
  <2>1. DOMAIN g = DOMAIN h \cup {Len(h) + 1}
    OBVIOUS
  <2>2. g[Len(h) + 1] = p /\ \A i \in DOMAIN h : g[i] = h[i]
    OBVIOUS
  <2> HIDE DEF g
  <2>3. Behind(q, entry)
    BY <1>7 DEF Waits
  <2>4. \A i \in DOMAIN g : Apart(q, g[i]) /\ Apart(g[i], q)
    BY <1>4, <1>7, <2>1, <2>2, <2>3 DEF Waits
  <2>5. Waits(q, g, next)
    BY <1>4, <2>3, <2>4 DEF Waits
  <2> QED
    BY <2>5 DEF g
<1> QED
  BY <1>6, <1>7

\* The prompts of what is due, in the session the terminal is in.
LEMMA DueInOrder ==
    ASSUME ScheduleAssumption, CronTypeOK, PromptsInOrder, current \in Sessions, NEW t \in Due
    PROVE  /\ t \in Tasks /\ PromptOf(t) \in Prompt
           /\ RanInOrder(runs[current][t], Collected[t])
           /\ Waits(PromptOf(t), runs[current][t], Collected[t])
           /\ RanInOrder(Append(runs[current][t], PromptOf(t)), Collected[t])
           /\ \A q \in Prompt : Waits(q, runs[current][t], store[current][t]) =>
                Waits(q, Append(runs[current][t], PromptOf(t)), Collected[t])
<1> DEFINE h == runs[current][t]
           entry == store[current][t]
           next == Collected[t]
           p == PromptOf(t)
<1>1. /\ t \in Tasks /\ entry \in ScheduledTask /\ next \in ScheduledTask /\ OnFile(entry)
      /\ next.kind # "none"
      /\ next.kind # "gone" => next.slot > now /\ next.slot > entry.slot
  BY CollectedGoesOn DEF OnFile
<1>2. p \in Prompt /\ p.slot = entry.slot /\ p.at = now /\ p.final = (next.kind = "gone")
  BY CollectedTyped DEF PromptOf
<1>3. h \in Seq(Prompt) /\ now \in Nat
  BY <1>1 DEF CronTypeOK, Times
<1>4. RanInOrder(h, entry)
  BY <1>1 DEF PromptsInOrder
<1> HIDE DEF h, entry, next, p
<1>5. /\ RanInOrder(h, next) /\ Waits(p, h, next)
      /\ \A q \in Prompt : Waits(q, h, entry) => Waits(q, Append(h, p), next)
  BY <1>1, <1>2, <1>3, <1>4, CollectInOrder
<1>6. RanInOrder(Append(h, p), next)
  BY <1>2, <1>3, <1>5, RunInOrder
<1> QED
  BY <1>1, <1>2, <1>5, <1>6 DEF h, entry, next, p

\* A session that goes on from the current one has its tasks, or has forgotten them.
LEMMA OpensKept ==
    ASSUME ScheduleAssumption, CronTypeOK, NEW n \in Sessions, OpensSession(n)
    PROVE  /\ \A s \in Sessions \ {n} : store'[s] = store[s]
           /\ current # NoSession => \A t \in Tasks : Keeps(store[current][t], store'[n][t])
<1>1. CASE current = NoSession
  BY <1>1 DEF OpensSession
<1>2. CASE current # NoSession
  <2>1. PICK restores \in BOOLEAN : store' = [store EXCEPT ![n] = Inherited(current, restores)]
    BY <1>2 DEF OpensSession
  <2>2. current \in Sessions
    BY <1>2 DEF CronTypeOK
  <2>3. store'[n] = Inherited(current, restores) /\ \A s \in Sessions \ {n} : store'[s] = store[s]
    BY <2>1 DEF CronTypeOK
  <2> QED
    BY <2>2, <2>3, InheritedTyped DEF Keeps
<1> QED
  BY <1>1, <1>2

LEMMA TurnKept ==
    ASSUME ScheduleAssumption, CronTypeOK, NEW n \in Sessions, TurnIn(n)
    PROVE  /\ current' = n
           /\ \A s \in Sessions \ {n} : store'[s] = store[s]
           /\ current # NoSession => \A t \in Tasks : Keeps(store[current][t], store'[n][t])
<1>1. CASE fresh
  BY <1>1, OpensKept DEF TurnIn
<1>2. CASE ~fresh
  BY <1>2 DEF TurnIn, Keeps
<1> QED
  BY <1>1, <1>2

\* So what was run before it was opened is in order in it too.
LEMMA PastInOrder ==
    ASSUME ScheduleAssumption, CronTypeOK, PromptsInOrder, NEW n \in Sessions,
           current # NoSession => \A t \in Tasks : Keeps(store[current][t], store'[n][t]),
           NEW t \in Tasks
    PROVE  RanInOrder(Past[t], store'[n][t])
<1>1. CASE current = NoSession
  BY <1>1 DEF Past, RanInOrder
<1>2. CASE current # NoSession
  <2>1. current \in Sessions /\ Past[t] = runs[current][t]
    BY <1>2 DEF CronTypeOK, Past
  <2> QED
    BY <1>2, <2>1, KeptInOrder DEF PromptsInOrder
<1> QED
  BY <1>1, <1>2

LEMMA OrderNext ==
    ASSUME ScheduleAssumption, CronTypeOK, PromptsInOrder, [CronNext]_cronVars
    PROVE  PromptsInOrder'
<1>1. CASE Tick \/ UNCHANGED cronVars
  BY <1>1 DEF Tick, terminal, cronVars, PromptsInOrder
<1>2. ASSUME NEW t \in Tasks, NEW new \in ScheduledTask, New(t),
             store' = [store EXCEPT ![current][t] = new],
             UNCHANGED <<now, terminal, due, runs>>
      PROVE  PromptsInOrder'
  <2>1. current \in Sessions /\ store[current][t].kind = "none"
    BY <1>2 DEF New, CronTypeOK
  <2>2. runs[current][t] = <<>>
    BY <2>1 DEF PromptsInOrder, RanInOrder
  <2>3. RanInOrder(runs[current][t], new)
    BY <2>2 DEF RanInOrder
  <2>4. \A p \in due : p.task # t /\ p.task \in Tasks
    BY <2>1 DEF PromptsInOrder, Waits, CronTypeOK, Prompt
  <2>5. store'[current][t] = new
    BY <1>2, <2>1 DEF CronTypeOK
  <2>6. \A s \in Sessions, u \in Tasks : s # current \/ u # t => store'[s][u] = store[s][u]
    BY <1>2, <2>1 DEF CronTypeOK
  <2>7. runs' = runs /\ due' = due /\ current' = current
    BY <1>2 DEF terminal
  <2>8. \A s \in Sessions, u \in Tasks : RanInOrder(runs'[s][u], store'[s][u])
    <3> TAKE s \in Sessions, u \in Tasks
    <3>1. CASE s = current /\ u = t
      BY <2>3, <2>5, <2>7, <3>1
    <3>2. CASE s # current \/ u # t
      BY <2>6, <2>7, <3>2 DEF PromptsInOrder
    <3> QED
      BY <3>1, <3>2
  <2>9. \A p \in due' : /\ current' # NoSession
                        /\ Waits(p, runs'[current'][p.task], store'[current'][p.task])
    BY <2>1, <2>4, <2>6, <2>7 DEF PromptsInOrder
  <2> QED
    BY <2>7, <2>8, <2>9 DEF PromptsInOrder
<1>3. ASSUME NEW t \in Tasks, NEW jitter \in 0 .. Period \div 2, CreateRecurring(t, jitter)
      PROVE  PromptsInOrder'
  <2> DEFINE new == [kind |-> "recurring", slot |-> NextSlot(now), jitter |-> jitter,
                     fire |-> NextSlot(now) + jitter, expires |-> now + Lifetime]
  <2>1. new \in ScheduledTask
    BY RecurringTyped
  <2>2. store' = [store EXCEPT ![current][t] = new]
    BY <1>3 DEF CreateRecurring
  <2> HIDE DEF new
  <2> QED
    BY <1>2, <1>3, <2>1, <2>2 DEF CreateRecurring
<1>4. ASSUME NEW t \in Tasks, NEW early \in 0 .. MaxEarly, CreateOnce(t, early)
      PROVE  PromptsInOrder'
  <2>1. PICK new \in ScheduledTask : store' = [store EXCEPT ![current][t] = new]
    BY <1>4, OnceTyped
  <2> QED
    BY <1>2, <1>4, <2>1 DEF CreateOnce
<1>5. ASSUME NEW t \in Tasks, Deletes(t) PROVE PromptsInOrder'
  <2>1. current \in Sessions /\ store[current][t] \in ScheduledTask /\ Stored(current, t)
    BY <1>5 DEF Deletes, CronTypeOK
  <2>2. store'[current][t] = [store[current][t] EXCEPT !.kind = "gone"]
    BY <1>5, <2>1 DEF Deletes, CronTypeOK
  <2>3. \A s \in Sessions, u \in Tasks : s # current \/ u # t => store'[s][u] = store[s][u]
    BY <1>5, <2>1 DEF Deletes, CronTypeOK
  <2>4. Keeps(store[current][t], store'[current][t])
    BY <2>1, <2>2, GoneTyped DEF Keeps, Stored
  <2>5. \A s \in Sessions, u \in Tasks : Keeps(store[s][u], store'[s][u])
    BY <2>3, <2>4 DEF Keeps
  <2>6. runs' = runs /\ due' = due /\ current' = current
    BY <1>5 DEF Deletes, terminal
  <2>7. \A p \in due : p.task \in Tasks
    BY DEF CronTypeOK, Prompt
  <2> QED
    BY <2>1, <2>5, <2>6, <2>7, KeptInOrder DEF PromptsInOrder
<1>6. CASE TurnCollects \/ IdleCollects
  <2>1. current \in Sessions
    BY <1>6 DEF TurnCollects, IdleCollects, CronTypeOK
  <2>2. current' = current /\ store'[current] = Collected /\ \A s \in Sessions \ {current} : store'[s] = store[s]
    BY <1>6, <2>1 DEF TurnCollects, IdleCollects, terminal, CronTypeOK
  <2>3. \A t \in Tasks \ Due : Collected[t] = store[current][t]
    BY DEF Collected
  <2>4. CASE TurnCollects
    <3>1. \A t \in Tasks : runs'[current][t] = IF t \in Due THEN Append(runs[current][t], PromptOf(t))
                                               ELSE runs[current][t]
      BY <2>1, <2>4 DEF TurnCollects, CronTypeOK
    <3>2. due' = due /\ \A s \in Sessions \ {current} : runs'[s] = runs[s]
      BY <2>1, <2>4 DEF TurnCollects, CronTypeOK
    <3>3. \A s \in Sessions, t \in Tasks : RanInOrder(runs'[s][t], store'[s][t])
      <4> TAKE s \in Sessions, t \in Tasks
      <4>1. CASE s # current
        BY <2>2, <3>2, <4>1 DEF PromptsInOrder
      <4>2. CASE s = current /\ t \in Due
        BY <2>1, <2>2, <3>1, <4>2, DueInOrder
      <4>3. CASE s = current /\ t \notin Due
        BY <2>1, <2>2, <2>3, <3>1, <4>3 DEF PromptsInOrder
      <4> QED
        BY <4>1, <4>2, <4>3
    <3>4. ASSUME NEW p \in due PROVE Waits(p, runs'[current][p.task], store'[current][p.task])
      <4>1. p \in Prompt /\ p.task \in Tasks /\ Waits(p, runs[current][p.task], store[current][p.task])
        BY DEF PromptsInOrder, CronTypeOK, Prompt
      <4>2. CASE p.task \in Due
        BY <2>1, <2>2, <3>1, <4>1, <4>2, DueInOrder
      <4>3. CASE p.task \notin Due
        BY <2>1, <2>2, <2>3, <3>1, <4>1, <4>3
      <4> QED
        BY <4>2, <4>3
    <3> QED
      BY <2>1, <2>2, <3>2, <3>3, <3>4 DEF PromptsInOrder
  <2>5. CASE IdleCollects
    <3>1. due' = {PromptOf(t) : t \in Due} /\ runs' = runs /\ current # NoSession
      BY <2>5 DEF IdleCollects
    <3>2. \A s \in Sessions, t \in Tasks : RanInOrder(runs'[s][t], store'[s][t])
      <4> TAKE s \in Sessions, t \in Tasks
      <4>1. CASE s = current /\ t \in Due
        BY <2>1, <2>2, <3>1, <4>1, DueInOrder
      <4>2. CASE s # current \/ t \notin Due
        BY <2>1, <2>2, <2>3, <3>1, <4>2 DEF PromptsInOrder
      <4> QED
        BY <4>1, <4>2
    <3>3. \A t \in Due : PromptOf(t).task = t
      BY DEF PromptOf
    <3>4. \A p \in due' : Waits(p, runs'[current][p.task], store'[current][p.task])
      BY <2>1, <2>2, <3>1, <3>3, DueInOrder
    <3>5. \A p, q \in due' : p.task = q.task => p = q
      BY <3>1, <3>3
    <3> QED
      BY <2>2, <3>1, <3>2, <3>4, <3>5 DEF PromptsInOrder
  <2> QED
    BY <1>6, <2>4, <2>5
<1>7. CASE TurnEnds
  BY <1>7 DEF TurnEnds, PromptsInOrder
<1>8. CASE TurnBreaks \/ StartsOver
  BY <1>8 DEF TurnBreaks, StartsOver, PromptsInOrder
<1>9. ASSUME NEW n \in Sessions, Compacts(n) \/ ResumesSession(n) PROVE PromptsInOrder'
  BY <1>9 DEF Compacts, ResumesSession, AtPrompt, PromptsInOrder
<1>10. ASSUME NEW n \in Sessions, UserTurn(n) \/ Branches(n) PROVE PromptsInOrder'
  <2>1. /\ due = {} /\ due' = {}
        /\ runs' = [runs EXCEPT ![n] = Past]
        /\ \A s \in Sessions \ {n} : store'[s] = store[s]
        /\ current # NoSession => \A t \in Tasks : Keeps(store[current][t], store'[n][t])
    BY <1>10, TurnKept, OpensKept DEF UserTurn, Branches, AtPrompt
  <2>2. runs'[n] = Past /\ \A s \in Sessions \ {n} : runs'[s] = runs[s]
    BY <2>1 DEF CronTypeOK
  <2>3. \A s \in Sessions, t \in Tasks : RanInOrder(runs'[s][t], store'[s][t])
    BY <2>1, <2>2, PastInOrder DEF PromptsInOrder
  <2> QED
    BY <2>1, <2>3 DEF PromptsInOrder
<1>11. ASSUME NEW n \in Sessions, NEW p \in due, PromptTurn(n, p) PROVE PromptsInOrder'
  <2>1. /\ current # NoSession /\ current \in Sessions /\ p \in Prompt /\ p.task \in Tasks
        /\ Past = runs[current]
    BY DEF PromptsInOrder, CronTypeOK, Prompt, Past
  <2>2. /\ current' = n /\ due' = due \ {p}
        /\ \A s \in Sessions \ {n} : store'[s] = store[s]
        /\ \A t \in Tasks : Keeps(store[current][t], store'[n][t])
    BY <1>11, <2>1, TurnKept DEF PromptTurn
  <2>3. /\ runs'[n] = [runs[current] EXCEPT ![p.task] = Append(@, p)]
        /\ \A s \in Sessions \ {n} : runs'[s] = runs[s]
    BY <1>11, <2>1 DEF PromptTurn, CronTypeOK
  <2>4. /\ runs'[n][p.task] = Append(runs[current][p.task], p)
        /\ \A t \in Tasks \ {p.task} : runs'[n][t] = runs[current][t]
    BY <2>1, <2>3 DEF CronTypeOK
  <2>5. \A t \in Tasks : RanInOrder(runs[current][t], store'[n][t])
    BY <2>1, <2>2, KeptInOrder DEF PromptsInOrder
  <2>6. \A q \in due : q.task \in Tasks /\ Waits(q, runs[current][q.task], store'[n][q.task])
    BY <2>1, <2>2, KeptInOrder DEF PromptsInOrder, CronTypeOK, Prompt
  <2>7. RanInOrder(runs'[n][p.task], store'[n][p.task])
    <3>1. runs[current][p.task] \in Seq(Prompt)
      BY <2>1 DEF CronTypeOK
    <3>2. RanInOrder(runs[current][p.task], store'[n][p.task])
      BY <2>1, <2>5
    <3>3. Waits(p, runs[current][p.task], store'[n][p.task])
      BY <2>6
    <3> QED
      BY <2>1, <2>4, <3>1, <3>2, <3>3, RunInOrder
  <2>8. \A s \in Sessions, t \in Tasks : RanInOrder(runs'[s][t], store'[s][t])
    BY <2>2, <2>3, <2>4, <2>5, <2>7 DEF PromptsInOrder
  <2>9. \A q \in due' : q.task # p.task
    BY <2>2 DEF PromptsInOrder
  <2>10. \A q \in due' : Waits(q, runs'[n][q.task], store'[n][q.task])
    BY <2>2, <2>4, <2>6, <2>9
  <2>11. n # NoSession
    BY DEF ScheduleAssumption
  <2> QED
    BY <2>2, <2>8, <2>10, <2>11 DEF PromptsInOrder
<1> QED
  BY <1>1, <1>3, <1>4, <1>5, <1>6, <1>7, <1>8, <1>9, <1>10, <1>11 DEF CronNext

\* The order of the prompts, in every session that was ever opened and whatever was
\* collected and not yet run: the inductive invariant behind RunsOnce.
THEOREM PromptOrder ==
    ASSUME ScheduleAssumption
    PROVE  CronSpec => []PromptsInOrder
<1>1. CronInit => PromptsInOrder
  BY DEF CronInit, PromptsInOrder, RanInOrder
<1> QED
  BY <1>1, OrderNext, CronTyped, PTL DEF CronSpec

\* No slot of a task is run twice in a session's history, whatever turns break and
\* whichever sessions are resumed, compacted or branched.
THEOREM SlotsRunOnce ==
    ASSUME ScheduleAssumption
    PROVE  CronSpec => []RunsOnce
<1>1. PromptsInOrder => RunsOnce
  BY DEF PromptsInOrder, RanInOrder, Apart, RunsOnce
<1> QED
  BY <1>1, PromptOrder, PTL

-----------------------------------------------------------------------------
(* Messages of other sessions. *)

\* deque(maxlen) keeps at most that many, all of them old or new.
LEMMA PutWithin ==
    ASSUME NEW S, NEW queue \in Seq(S), NEW new \in Seq(S), NEW max \in Nat \ {0}
    PROVE  /\ Put(queue, new, max) \in Seq(S)
           /\ Len(Put(queue, new, max)) <= max
           /\ \A i \in DOMAIN Put(queue, new, max) :
                  \/ \E j \in DOMAIN queue : Put(queue, new, max)[i] = queue[j]
                  \/ \E j \in DOMAIN new : Put(queue, new, max)[i] = new[j]
<1> DEFINE all == queue \o new
<1>1. /\ all \in Seq(S) /\ Len(all) = Len(queue) + Len(new)
      /\ Len(queue) \in Nat /\ Len(new) \in Nat /\ DOMAIN all = 1 .. Len(all)
      /\ DOMAIN queue = 1 .. Len(queue) /\ DOMAIN new = 1 .. Len(new)
  OBVIOUS
<1>2. \A i \in 1 .. Len(all) :
          all[i] = IF i <= Len(queue) THEN queue[i] ELSE new[i - Len(queue)]
  OBVIOUS
<1>3. ASSUME NEW i \in 1 .. Len(all)
      PROVE  (\E j \in DOMAIN queue : all[i] = queue[j]) \/ (\E j \in DOMAIN new : all[i] = new[j])
  <2>1. CASE i <= Len(queue)
    BY <1>1, <1>2, <2>1
  <2>2. CASE ~(i <= Len(queue))
    <3>1. i - Len(queue) \in 1 .. Len(new)
      BY <1>1, <2>2
    <3> QED
      BY <1>1, <1>2, <2>2, <3>1
  <2> QED
    BY <2>1, <2>2
<1> HIDE DEF all
<1>4. CASE Len(all) <= max
  <2>1. Put(queue, new, max) = all
    BY <1>4 DEF Put, all
  <2> QED
    BY <1>1, <1>3, <1>4, <2>1
<1>5. CASE ~(Len(all) <= max)
  <2> DEFINE from == Len(all) - max + 1
             last == SubSeq(all, from, Len(all))
  <2>1. Put(queue, new, max) = last
    BY <1>5 DEF Put, all
  <2>2. from \in Int /\ from >= 1 /\ from <= Len(all) /\ Len(all) \in Nat
    BY <1>1, <1>5
  <2>3. last \in Seq(S) /\ Len(last) = max /\ DOMAIN last = 1 .. max
    BY <1>1, <2>2
  <2>4. \A i \in 1 .. max : from + i - 1 \in 1 .. Len(all) /\ last[i] = all[from + i - 1]
    BY <1>1, <2>2
  <2> HIDE DEF last, from
  <2>5. \A i \in DOMAIN last : \E k \in 1 .. Len(all) : last[i] = all[k]
    BY <2>3, <2>4
  <2>6. Len(last) <= max
    BY <2>3
  <2> QED
    BY <1>3, <2>1, <2>3, <2>5, <2>6
<1> QED
  BY <1>4, <1>5

LEMMA PutOne ==
    ASSUME NEW S, NEW queue \in Seq(S), NEW s \in S, NEW max \in Nat \ {0},
           NEW i \in DOMAIN Put(queue, <<s>>, max)
    PROVE  Put(queue, <<s>>, max)[i] = s \/ \E j \in DOMAIN queue : Put(queue, <<s>>, max)[i] = queue[j]
<1> DEFINE one == <<s>>
<1>1. one \in Seq(S) /\ \A j \in DOMAIN one : one[j] = s
  OBVIOUS
<1>2. i \in DOMAIN Put(queue, one, max)
  OBVIOUS
<1> HIDE DEF one
<1>3. \/ \E j \in DOMAIN queue : Put(queue, one, max)[i] = queue[j]
      \/ \E j \in DOMAIN one : Put(queue, one, max)[i] = one[j]
  BY <1>1, <1>2, PutWithin
<1>4. Put(queue, one, max)[i] = s \/ \E j \in DOMAIN queue : Put(queue, one, max)[i] = queue[j]
  BY <1>1, <1>3
<1> QED
  BY <1>4 DEF one

\* What is picked from a queue are some of its members, and no more of them.
LEMMA PickedWithin ==
    ASSUME NEW S, NEW queue \in Seq(S), NEW places \in SUBSET DOMAIN queue, NEW f \in InOrder(places)
    PROVE  /\ Picked(queue, f) \in Seq(S)
           /\ Len(Picked(queue, f)) <= Len(queue)
           /\ \A i \in DOMAIN Picked(queue, f) : \E j \in places : Picked(queue, f)[i] = queue[j]
<1>1. Len(queue) \in Nat /\ DOMAIN queue = 1 .. Len(queue) /\ \A i \in DOMAIN queue : queue[i] \in S
  OBVIOUS
<1>2. IsFiniteSet(1 .. Len(queue)) /\ Cardinality(1 .. Len(queue)) = Len(queue)
  <2> DEFINE n == Len(queue)
  <2>1. n \in Int /\ 1 \in Int /\ n >= 0
    BY <1>1
  <2> HIDE DEF n
  <2>2. IsFiniteSet(1 .. n) /\ Cardinality(1 .. n) = IF 1 > n THEN 0 ELSE n - 1 + 1
    BY <2>1, FS_Interval
  <2> QED
    BY <2>1, <2>2 DEF n
<1>3. Cardinality(places) \in Nat /\ Cardinality(places) <= Len(queue)
  BY <1>1, <1>2, FS_Subset, FS_CardinalityType
<1>4. DOMAIN f = 1 .. Cardinality(places) /\ \A i \in DOMAIN f : f[i] \in places
  BY DEF InOrder
<1>5. Picked(queue, f) \in [1 .. Cardinality(places) -> S]
  BY <1>1, <1>4 DEF Picked
<1>6. Picked(queue, f) \in Seq(S) /\ Len(Picked(queue, f)) = Cardinality(places)
  BY <1>3, <1>5
<1>7. \A i \in DOMAIN f : Picked(queue, f)[i] = queue[f[i]]
  BY DEF Picked
<1> QED
  BY <1>3, <1>4, <1>5, <1>6, <1>7

LEMMA PeerTypeNext ==
    ASSUME PeerAssumption, PeerTypeOK, [PeerNext]_peerVars
    PROVE  PeerTypeOK'
<1> USE DEF PeerAssumption, PeerTypeOK
<1>1. ASSUME NEW s \in Senders, Arrives(s) PROVE PeerTypeOK'
  BY <1>1 DEF Arrives
<1>2. ASSUME NEW s \in Senders, Queues(s) PROVE PeerTypeOK'
  <2>1. <<s>> \in Seq(Senders)
    OBVIOUS
  <2>2. delivered' \in Seq(Senders) /\ Len(delivered') <= MaxDelivered
    BY <1>2, <2>1, PutWithin DEF Queues
  <2>3. held' \in Seq(Senders) /\ Len(held') <= MaxHeld
    BY <1>2, <2>1, PutWithin DEF Queues
  <2> QED
    BY <1>2, <2>2, <2>3 DEF Queues, Nothing
<1>3. ASSUME NEW s \in Senders, Expires(s) PROVE PeerTypeOK'
  BY <1>3 DEF Expires
<1>4. CASE Collects
  BY <1>4 DEF Collects
<1>5. ASSUME NEW accept, NEW who, DecidesHeld(accept, who) PROVE PeerTypeOK'
  <2> DEFINE decided == {i \in DOMAIN held : held[i] \in who}
  <2>1. PICK f \in InOrder(decided) :
            delivered' = IF accept THEN Put(delivered, Picked(held, f), MaxDelivered) ELSE delivered
    BY <1>5 DEF DecidesHeld
  <2>2. PICK g \in InOrder(DOMAIN held \ decided) : held' = Picked(held, g)
    BY <1>5 DEF DecidesHeld
  <2>3. decided \in SUBSET DOMAIN held /\ DOMAIN held \ decided \in SUBSET DOMAIN held
    OBVIOUS
  <2> HIDE DEF decided
  <2>4. Picked(held, f) \in Seq(Senders)
    BY <2>3, PickedWithin
  <2>5. delivered' \in Seq(Senders) /\ Len(delivered') <= MaxDelivered
    BY <2>1, <2>4, PutWithin
  <2>6. held' \in Seq(Senders) /\ Len(held') <= Len(held)
    BY <2>2, <2>3, PickedWithin
  <2>7. Len(held') \in Nat /\ Len(held) \in Nat
    BY <2>6
  <2>8. Len(held') <= MaxHeld
    BY <2>6, <2>7
  <2> QED
    BY <1>5, <2>5, <2>6, <2>8 DEF DecidesHeld
<1>6. ASSUME NEW new \in BOOLEAN, NEW next \in {"inbound", "release"}, ChangesPolicy(new, next)
      PROVE  PeerTypeOK'
  BY <1>6 DEF ChangesPolicy
<1>7. ASSUME NEW new \in Modes \cup {"none"}, ChangesInbound(new) PROVE PeerTypeOK'
  BY <1>7 DEF ChangesInbound
<1>8. CASE Releases
  <2> DEFINE places(mode) == {i \in DOMAIN held : Mode(explicit, bypasses, held[i]) = mode}
  <2>1. PICK f \in InOrder(places("accept")) :
            delivered' = Put(delivered, Picked(held, f), MaxDelivered)
    BY <1>8 DEF Releases
  <2>2. PICK g \in InOrder(places("hold")) : held' = Picked(held, g)
    BY <1>8 DEF Releases
  <2>3. places("accept") \in SUBSET DOMAIN held /\ places("hold") \in SUBSET DOMAIN held
    OBVIOUS
  <2> HIDE DEF places
  <2>4. Picked(held, f) \in Seq(Senders)
    BY <2>3, PickedWithin
  <2>5. delivered' \in Seq(Senders) /\ Len(delivered') <= MaxDelivered
    BY <2>1, <2>4, PutWithin
  <2>6. held' \in Seq(Senders) /\ Len(held') <= Len(held)
    BY <2>2, <2>3, PickedWithin
  <2>7. Len(held') \in Nat /\ Len(held) \in Nat
    BY <2>6
  <2>8. Len(held') <= MaxHeld
    BY <2>6, <2>7
  <2> QED
    BY <1>8, <2>5, <2>6, <2>8 DEF Releases
<1>9. CASE UNCHANGED peerVars
  BY <1>9 DEF peerVars
<1> QED
  BY <1>1, <1>2, <1>3, <1>4, <1>5, <1>6, <1>7, <1>8, <1>9 DEF PeerNext

\* Type correctness of the inbox: the queues stay within their bounds, for any number
\* of senders and any bounds.
THEOREM PeerTyped ==
    ASSUME PeerAssumption
    PROVE  PeerSpec => []PeerTypeOK
<1>1. PeerInit => PeerTypeOK
  BY DEF PeerInit, PeerTypeOK, PeerAssumption, Nothing
<1> QED
  BY <1>1, PeerTypeNext, PTL DEF PeerSpec

\* While no change is under way, the message the server classifies has been read
\* against the setting in force: the change that replaced it took the lock.
ReadsInForce == changing = "nothing" /\ serving.at = "mode" => serving.explicit = explicit

\* Whatever arrives while the settings change, a message is held only if they hold it.
THEOREM HeldMessagesAreHeld ==
    ASSUME PeerAssumption
    PROVE  PeerSpec => []HeldBySettings
<1> DEFINE Inv == ReadsInForce /\ HeldBySettings
<1>1. PeerInit => Inv
  BY DEF PeerInit, ReadsInForce, HeldBySettings, Nothing
<1>2. PeerTypeOK /\ Inv /\ [PeerNext]_peerVars => Inv'
  <2> SUFFICES ASSUME PeerTypeOK, Inv, [PeerNext]_peerVars PROVE Inv'
    OBVIOUS
  <2> USE DEF ReadsInForce, HeldBySettings
  <2>1. ASSUME NEW s \in Senders, Arrives(s) \/ Expires(s) PROVE Inv'
    BY <2>1 DEF Arrives, Expires, Mode
  <2>2. ASSUME NEW s \in Senders, Queues(s) PROVE Inv'
    <3>1. serving.at = "mode" /\ serving'.at = "idle"
      BY <2>2 DEF Queues, Nothing
    <3>2. explicit' = explicit /\ bypasses' = bypasses /\ changing' = changing
      BY <2>2 DEF Queues
    <3>3. ASSUME changing = "nothing", NEW i \in DOMAIN held'
          PROVE  Mode(explicit, bypasses, held'[i]) = "hold"
      <4>1. CASE held' = held
        BY <3>3, <4>1
      <4>2. CASE held' # held
        <5>1. held' = Put(held, <<s>>, MaxHeld) /\ Mode(serving.explicit, bypasses, s) = "hold"
          BY <2>2, <4>2 DEF Queues
        <5>2. (\E j \in DOMAIN held : held'[i] = held[j]) \/ held'[i] = s
          BY <5>1, PutOne DEF PeerTypeOK, PeerAssumption
        <5> QED
          BY <3>1, <3>3, <5>1, <5>2
      <4> QED
        BY <4>1, <4>2
    <3> QED
      BY <3>1, <3>2, <3>3 DEF Mode
  <2>3. CASE Collects
    BY <2>3 DEF Collects, Mode
  <2>4. ASSUME NEW accept, NEW who, DecidesHeld(accept, who) PROVE Inv'
    <3> DEFINE rest == DOMAIN held \ {i \in DOMAIN held : held[i] \in who}
    <3>1. PICK f \in InOrder(rest) : held' = Picked(held, f)
      BY <2>4 DEF DecidesHeld
    <3>2. rest \in SUBSET DOMAIN held
      OBVIOUS
    <3> HIDE DEF rest
    <3>3. \A i \in DOMAIN held' : \E j \in DOMAIN held : held'[i] = held[j]
      BY <3>1, <3>2, PickedWithin DEF PeerTypeOK
    <3> QED
      BY <2>4, <3>3 DEF DecidesHeld, Mode
  <2>5. ASSUME NEW new, NEW next \in {"inbound", "release"}, ChangesPolicy(new, next) PROVE Inv'
    BY <2>5 DEF ChangesPolicy
  <2>6. ASSUME NEW new, ChangesInbound(new) PROVE Inv'
    BY <2>6 DEF ChangesInbound
  <2>7. CASE Releases
    <3> DEFINE hold == {i \in DOMAIN held : Mode(explicit, bypasses, held[i]) = "hold"}
    <3>1. PICK f \in InOrder(hold) : held' = Picked(held, f)
      BY <2>7 DEF Releases
    <3>2. hold \in SUBSET DOMAIN held /\ \A j \in hold : Mode(explicit, bypasses, held[j]) = "hold"
      OBVIOUS
    <3> HIDE DEF hold
    <3>3. \A i \in DOMAIN held' : \E j \in hold : held'[i] = held[j]
      BY <3>1, <3>2, PickedWithin DEF PeerTypeOK
    <3>4. serving'.at = "idle" /\ explicit' = explicit /\ bypasses' = bypasses
      BY <2>7 DEF Releases, AcceptLockFree
    <3> QED
      BY <3>2, <3>3, <3>4 DEF Mode
  <2>8. CASE UNCHANGED peerVars
    BY <2>8 DEF peerVars, Mode
  <2> QED
    BY <2>1, <2>2, <2>3, <2>4, <2>5, <2>6, <2>7, <2>8 DEF PeerNext
<1> QED
  BY <1>1, <1>2, PeerTyped, PTL DEF PeerSpec

-----------------------------------------------------------------------------
(* The run of MCServices. *)

\* A step of the run is a step of the service it is about, and none of the others.
LEMMA ServiceStep ==
    ASSUME [MCNext]_allVars
    PROVE  /\ [Next]_vars /\ [CallNext]_callVars /\ [FlowNext]_flowVars
           /\ [AskNext]_askVars /\ [PeerNext]_peerVars
<1>1. CASE MCNext
  BY <1>1 DEF MCNext
<1>2. CASE UNCHANGED allVars
  BY <1>2 DEF allVars
<1> QED
  BY <1>1, <1>2

\* Type correctness of the run, whatever values its cfg gives the constants.
THEOREM RunTyped ==
    ASSUME CallsAssumption, WorkflowAssumption, PromptAssumption, PeerAssumption
    PROVE  MCSpec => []TypesOK
<1>1. MCInit => Init /\ CallInit /\ FlowInit /\ AskInit /\ PeerInit
  BY DEF MCInit
<1>2. [MCNext]_allVars => /\ [Next]_vars /\ [CallNext]_callVars /\ [FlowNext]_flowVars
                          /\ [AskNext]_askVars /\ [PeerNext]_peerVars
  BY ServiceStep
<1>3. MCSpec => Spec /\ CallSpec /\ FlowSpec /\ AskSpec /\ PeerSpec
  BY <1>1, <1>2, PTL DEF MCSpec, Spec, CallSpec, FlowSpec, AskSpec, PeerSpec
<1> QED
  BY <1>3, TasksTyped, CallsTyped, FlowTyped, AskTyped, PeerTyped, PTL DEF TypesOK
=============================================================================
