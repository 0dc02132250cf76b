-------------------------- MODULE DynamicWorkflowProofs --------------------------
(***************************************************************************)
(* Proofs about DynamicWorkflow, for any numbers of sessions and calls:    *)
(* until two threads are at work at once, a running record is never        *)
(* orphaned by a live session; and with one session of the project open    *)
(* at a time, a result and the recorded calls are final.                   *)
(***************************************************************************)
EXTENDS DynamicWorkflow, TLAPS

\* Threads, commands and the owners of the record and of the copies a thread writes
\* belong to processes that exist.
Attributed ==
    /\ record.owner \in born \cup {Nobody}
    /\ \A p \in Processes :
           /\ runner[p].at # "none" \/ ui[p].op # "none" => p \in up
           /\ runner[p].copy.owner \in born \cup {Nobody}

Runners == [at : Places, cancel : BOOLEAN, cached : SUBSET Calls, made : SUBSET Calls,
            copy : Records]

\* One field of a runner changes, and it stays one.
LEMMA RunnersTyped ==
    ASSUME NEW p \in Processes, NEW r \in Runners,
           runner \in [Processes -> Runners], runner' = [runner EXCEPT ![p] = r]
    PROVE  runner' \in [Processes -> Runners]
OBVIOUS

LEMMA RunnerOf ==
    ASSUME NEW p \in Processes, FlowTypeOK
    PROVE  runner[p] \in Runners /\ runner \in [Processes -> Runners]
BY DEF FlowTypeOK, Runners

LEMMA Constants ==
    ASSUME TRUE
    PROVE  NoRecord \in Records /\ NoRunner \in Runners
BY DEF NoRecord, NoRunner, Records, WorkflowStatuses, Runners, Places, Working

LEMMA ThreadTyped ==
    ASSUME WorkflowAssumption, FlowTypeOK, NEW p \in Processes, Thread(p)
    PROVE  FlowTypeOK'
<1>0. runner[p] \in Runners /\ runner \in [Processes -> Runners] /\ record \in Records
  BY RunnerOf DEF FlowTypeOK
<1> SUFFICES record' \in Records /\ runner' \in [Processes -> Runners]
             /\ UNCHANGED <<overlap, doubled, up, born, ui>>
  BY DEF FlowTypeOK, Runners
<1>1. CASE Begins(p)
  <2>1. record.calls \in SUBSET Calls
    BY <1>0 DEF Records
  <2>2. [runner[p] EXCEPT !.at = "working", !.cached = record.calls] \in Runners
    BY <1>0, <2>1 DEF Runners, Places, Working
  <2> QED
    BY <1>0, <1>1, <2>2, RunnersTyped DEF Begins
<1>2. ASSUME NEW k \in Calls, CallReads(p, k) PROVE record' \in Records /\ runner' \in [Processes -> Runners]
             /\ UNCHANGED <<overlap, doubled, up, born, ui>>
  <2>1. WithCall(p, k) \in Records
    BY <1>0 DEF Records, WithCall
  <2>2. [runner[p] EXCEPT !.at = "adding", !.made = runner[p].made \cup {k},
                         !.copy = WithCall(p, k)] \in Runners
    <3>1. runner[p].made \cup {k} \in SUBSET Calls
      BY <1>0 DEF Runners
    <3> QED
      BY <1>0, <2>1, <3>1 DEF Runners, Places, Working
  <2>3. runner' = [runner EXCEPT ![p] = [runner[p] EXCEPT !.at = "adding",
                       !.made = runner[p].made \cup {k}, !.copy = WithCall(p, k)]]
    BY <1>2 DEF CallReads
  <2> QED
    BY <1>0, <1>2, <2>2, <2>3, RunnersTyped DEF CallReads
<1>3. CASE FinishReads(p)
  <2>1. PICK status \in Outcome(p) : runner' = [runner EXCEPT ![p] =
                       [runner[p] EXCEPT !.at = "ending", !.copy = Final(status)]]
    BY <1>3 DEF FinishReads
  <2>2. Final(status) \in Records
    BY <1>0 DEF Final, Outcome, Records, WorkflowStatuses
  <2>3. [runner[p] EXCEPT !.at = "ending", !.copy = Final(status)] \in Runners
    BY <1>0, <2>2 DEF Runners, Places, Working
  <2> QED
    BY <1>0, <1>3, <2>1, <2>3, RunnersTyped DEF FinishReads
<1>4. CASE Writes(p)
  <2>1. runner[p].copy \in Records
    BY <1>0 DEF Runners
  <2>2. [runner[p] EXCEPT !.at = IF runner[p].at = "adding" THEN "working" ELSE "finished",
                          !.copy = NoRecord] \in Runners
    BY <1>0, Constants DEF Runners, Places, Working
  <2> QED
    BY <1>0, <1>4, <2>1, <2>2, RunnersTyped DEF Writes
<1>5. CASE SetsDone(p)
  BY <1>0, <1>5, RunnersTyped, Constants DEF SetsDone
<1> QED
  BY <1>1, <1>2, <1>3, <1>4, <1>5 DEF Thread

LEMMA LaunchTyped ==
    ASSUME FlowTypeOK, NEW p \in Processes, Launches(p)
    PROVE  runner' \in [Processes -> Runners] /\ doubled' \in BOOLEAN
<1>1. [NoRunner EXCEPT !.at = "begun"] \in Runners
  BY Constants DEF Runners, Places, Working
<1> QED
  BY <1>1, RunnerOf, RunnersTyped DEF Launches, FlowTypeOK

\* The type invariant holds for any constants.
THEOREM FlowTyped ==
    ASSUME WorkflowAssumption
    PROVE  FlowSpec => []FlowTypeOK
<1>1. FlowInit => FlowTypeOK
  <2> SUFFICES ASSUME FlowInit PROVE FlowTypeOK
    OBVIOUS
  <2>1. runner \in [Processes -> Runners]
    BY Constants DEF FlowInit
  <2>2. ui \in [Processes -> [op : {"none", "stop", "show", "resume"}, copy : Records]]
    BY Constants DEF FlowInit, NoCommand
  <2> QED
    BY <2>1, <2>2, Constants DEF FlowInit, FlowTypeOK, Runners
<1>2. FlowTypeOK /\ [FlowNext]_flowVars => FlowTypeOK'
  <2> SUFFICES ASSUME FlowTypeOK, [FlowNext]_flowVars PROVE FlowTypeOK'
    OBVIOUS
  <2>1. ASSUME NEW p \in Processes, Opens(p) \/ Closes(p) \/ Exits(p) PROVE FlowTypeOK'
    <3>1. CASE Opens(p)
      BY <3>1 DEF Opens, FlowTypeOK
    <3>2. CASE Closes(p)
      <4>1. runner' \in [Processes -> Runners]
        <5>1. [runner[p] EXCEPT !.cancel = TRUE] \in Runners
          BY RunnerOf DEF Runners
        <5> QED
          BY <3>2, <5>1, RunnerOf, RunnersTyped DEF Closes
      <4> QED
        BY <3>2, <4>1 DEF Closes, FlowTypeOK, Runners
    <3>3. CASE Exits(p)
      <4>1. runner' \in [Processes -> Runners]
        BY <3>3, RunnerOf, RunnersTyped, Constants DEF Exits
      <4> QED
        BY <3>3, <4>1, Constants DEF Exits, FlowTypeOK, NoCommand, Runners
    <3> QED
      BY <2>1, <3>1, <3>2, <3>3
  <2>2. ASSUME NEW p \in Processes, Thread(p) PROVE FlowTypeOK'
    BY <2>2, ThreadTyped
  <2>3. ASSUME NEW p \in Processes, Command(p) PROVE FlowTypeOK'
    <3>1. CASE Starts(p)
      BY <3>1, LaunchTyped DEF Starts, FlowTypeOK, Records, WorkflowStatuses, Runners
    <3>2. CASE Stops(p)
      <4>1. runner' \in [Processes -> Runners]
        <5>1. [runner[p] EXCEPT !.cancel = TRUE] \in Runners
          BY RunnerOf DEF Runners
        <5> QED
          BY <3>2, <5>1, RunnerOf, RunnersTyped DEF Stops
      <4>2. ui' \in [Processes -> [op : {"none", "stop", "show", "resume"}, copy : Records]]
        BY <3>2 DEF Stops, FlowTypeOK
      <4> QED
        BY <3>2, <4>1, <4>2 DEF Stops, FlowTypeOK, Runners
    <3>3. CASE Reads(p) \/ ReadsToResume(p) \/ ShowsRunning(p)
      <4>1. ui' \in [Processes -> [op : {"none", "stop", "show", "resume"}, copy : Records]]
        BY <3>3 DEF Reads, ReadsToResume, ShowsRunning, FlowTypeOK, NoCommand, NoRecord, Records,
           WorkflowStatuses
      <4> QED
        BY <3>3, <4>1 DEF Reads, ReadsToResume, ShowsRunning, FlowTypeOK
    <3>4. CASE ShowsInterrupted(p)
      BY <3>4 DEF ShowsInterrupted, FlowTypeOK, NoCommand, NoRecord, Records, WorkflowStatuses
    <3>5. CASE Resumes(p)
      <4>1. record' \in Records /\ NoCommand \in [op : {"none", "stop", "show", "resume"}, copy : Records]
        BY <3>5, Constants DEF Resumes, Reopened, FlowTypeOK, NoCommand, Records, WorkflowStatuses
      <4>2. runner' \in [Processes -> Runners] /\ doubled' \in BOOLEAN
        BY <3>5, LaunchTyped DEF Resumes
      <4> QED
        BY <3>5, <4>1, <4>2 DEF Resumes, FlowTypeOK, Runners
    <3> QED
      BY <2>3, <3>1, <3>2, <3>3, <3>4, <3>5 DEF Command
  <2>4. CASE UNCHANGED flowVars
    BY <2>4 DEF flowVars, FlowTypeOK
  <2> QED
    BY <2>1, <2>2, <2>3, <2>4 DEF FlowNext
<1> QED
  BY <1>1, <1>2, PTL DEF FlowSpec

LEMMA AttributedNext ==
    ASSUME WorkflowAssumption, FlowTypeOK, Attributed, [FlowNext]_flowVars
    PROVE  Attributed'
<1> USE DEF FlowTypeOK, Attributed, NoRunner, NoCommand, NoRecord
<1>1. ASSUME NEW p \in Processes, Opens(p) \/ Closes(p) \/ Exits(p) PROVE Attributed'
  BY <1>1 DEF Opens, Closes, Exits, Working
<1>2. ASSUME NEW p \in Processes, Thread(p) PROVE Attributed'
  <2>1. CASE Begins(p) \/ SetsDone(p)
    <3>1. CASE Begins(p)
      BY <3>1 DEF Begins
    <3>2. CASE SetsDone(p)
      BY <3>2 DEF SetsDone
    <3> QED
      BY <2>1, <3>1, <3>2
  <2>2. ASSUME NEW k \in Calls, CallReads(p, k) PROVE Attributed'
    BY <2>2 DEF CallReads, WithCall, Records
  <2>3. CASE FinishReads(p)
    BY <2>3 DEF FinishReads, Final, Records
  <2>4. CASE Writes(p)
    BY <2>4 DEF Writes, Records
  <2> QED
    BY <1>2, <2>1, <2>2, <2>3, <2>4 DEF Thread
<1>3. ASSUME NEW p \in Processes, Command(p) PROVE Attributed'
  <2>1. CASE Starts(p)
    BY <2>1 DEF Starts, Launches
  <2>2. CASE Stops(p) \/ Reads(p) \/ ShowsRunning(p) \/ ReadsToResume(p)
    BY <2>2 DEF Stops, Reads, ShowsRunning, ReadsToResume
  <2>3. CASE ShowsInterrupted(p)
    BY <2>3 DEF ShowsInterrupted, Records
  <2>4. CASE Resumes(p)
    BY <2>4 DEF Resumes, Reopened, Launches, Records
  <2> QED
    BY <1>3, <2>1, <2>2, <2>3, <2>4 DEF Command
<1>4. CASE UNCHANGED flowVars
  BY <1>4 DEF flowVars
<1> QED
  BY <1>1, <1>2, <1>3, <1>4 DEF FlowNext

-----------------------------------------------------------------------------
(* Until two threads are at work at once *)

\* At most one thread is at work, and what it is about to write as running is its own
\* or of a session that has died.
SingleThread ==
    /\ OneSessionRuns
    /\ \A p \in Processes : runner[p].copy.status = "running" =>
           runner[p].at = "adding" /\ runner[p].copy.owner \notin up \ {p}
UntilDoubled == ~doubled => SingleThread /\ RunningIsWorked

LEMMA LaunchStep ==
    ASSUME WorkflowAssumption, FlowTypeOK, Attributed, UntilDoubled, ~doubled', up' = up,
           NEW p \in Processes, Launches(p), record'.owner = p
    PROVE  SingleThread' /\ RunningIsWorked'
<1>1. ~doubled /\ (\A q \in Processes \ {p} : runner[q].at \notin Working)
  BY DEF Launches, FlowTypeOK
<1>2. /\ runner'[p].at = "begun" /\ runner'[p].copy = NoRecord
      /\ \A q \in Processes \ {p} : runner'[q] = runner[q]
  BY DEF Launches, FlowTypeOK, NoRunner
<1>3. SingleThread'
  BY <1>1, <1>2 DEF UntilDoubled, SingleThread, OneSessionRuns, NoRecord
<1>4. RunningIsWorked'
  BY <1>2 DEF RunningIsWorked, Working
<1> QED
  BY <1>3, <1>4

\* A stale write of that thread can restore no owner but itself or a dead one.
LEMMA UntilDoubledNext ==
    ASSUME WorkflowAssumption, FlowTypeOK, Attributed, UntilDoubled, [FlowNext]_flowVars
    PROVE  UntilDoubled'
<1> SUFFICES ASSUME ~doubled' PROVE SingleThread' /\ RunningIsWorked'
  BY DEF UntilDoubled
<1> USE DEF FlowTypeOK
<1>1. ASSUME NEW p \in Processes, Opens(p) \/ Closes(p) \/ Exits(p) PROVE SingleThread' /\ RunningIsWorked'
  <2> USE DEF UntilDoubled, SingleThread, OneSessionRuns, RunningIsWorked
  <2>1. CASE Opens(p)
    BY <1>1, <2>1 DEF Opens, WorkflowAssumption, Attributed
  <2>2. CASE Closes(p)
    BY <1>1, <2>2 DEF Closes
  <2>3. CASE Exits(p)
    BY <1>1, <2>3 DEF Exits, NoRunner, NoRecord, Working
  <2> QED
    BY <1>1, <2>1, <2>2, <2>3
<1>2. ASSUME NEW p \in Processes, Thread(p) PROVE SingleThread' /\ RunningIsWorked'
  <2>0. ~doubled /\ SingleThread /\ RunningIsWorked /\ UNCHANGED <<up, doubled>>
    BY <1>2 DEF Thread, Begins, CallReads, FinishReads, Writes, SetsDone, UntilDoubled
  <2> USE DEF SingleThread, OneSessionRuns, RunningIsWorked, Working
  <2>1. CASE Begins(p)
    BY <2>0, <2>1 DEF Begins
  <2>2. ASSUME NEW k \in Calls, CallReads(p, k) PROVE SingleThread' /\ RunningIsWorked'
    <3>1. WithCall(p, k).status = record.status /\ WithCall(p, k).owner = record.owner
      BY DEF WithCall, Records
    <3>2. /\ runner'[p].at = "adding" /\ runner'[p].copy = WithCall(p, k)
          /\ \A q \in Processes \ {p} : runner'[q] = runner[q]
          /\ record' = record /\ runner[p].at = "working"
      BY <2>2 DEF CallReads
    <3>3. record.status = "running" => record.owner \notin up \ {p}
      BY <2>0, <3>2, WorkflowAssumption DEF Attributed, WorkflowAssumption
    <3> QED
      BY <2>0, <3>1, <3>2, <3>3
  <2>3. CASE FinishReads(p)
    <3>1. PICK status \in Outcome(p) : runner' = [runner EXCEPT ![p] =
                         [runner[p] EXCEPT !.at = "ending", !.copy = Final(status)]]
      BY <2>3 DEF FinishReads
    <3>2. Final(status).status # "running"
      BY DEF Outcome, Final, Records
    <3>3. /\ runner'[p].at = "ending" /\ runner'[p].copy = Final(status)
          /\ \A q \in Processes \ {p} : runner'[q] = runner[q]
          /\ record' = record /\ runner[p].at = "working"
      <4>1. runner[p].at = "working" /\ record' = record
        BY <2>3 DEF FinishReads
      <4> QED
        BY <3>1, <4>1
    <3> QED
      BY <2>0, <3>2, <3>3
  <2>4. CASE Writes(p)
    <3>1. /\ runner'[p].at \in {"working", "finished"} /\ runner'[p].copy = NoRecord
          /\ \A q \in Processes \ {p} : runner'[q] = runner[q]
          /\ record' = runner[p].copy /\ runner[p].at \in {"adding", "ending"}
          /\ runner[p].at = "adding" => runner'[p].at = "working"
      BY <2>4 DEF Writes
    <3>2. record'.status = "running" => runner[p].at = "adding"
      BY <2>0, <3>1
    <3>3. OneSessionRuns'
      BY <2>0, <3>1
    <3>4. \A q \in Processes : runner'[q].copy.status = "running" =>
              runner'[q].at = "adding" /\ runner'[q].copy.owner \notin up' \ {q}
      BY <2>0, <3>1 DEF NoRecord
    <3>5. RunningIsWorked'
      <4>1. SUFFICES ASSUME record'.status = "running", record'.owner \in up'
                     PROVE  runner'[record'.owner].at \in Working
        OBVIOUS
      <4>2. record'.owner = p /\ runner'[p].at = "working"
        BY <2>0, <3>1, <3>2, <4>1
      <4> QED
        BY <4>2
    <3> QED
      BY <3>3, <3>4, <3>5
  <2>5. CASE SetsDone(p)
    BY <2>0, <2>5 DEF SetsDone, NoRunner, NoRecord
  <2> QED
    BY <1>2, <2>1, <2>2, <2>3, <2>4, <2>5 DEF Thread
<1>3. ASSUME NEW p \in Processes, Command(p) PROVE SingleThread' /\ RunningIsWorked'
  <2>1. CASE Starts(p) \/ Resumes(p)
    <3>1. record'.owner = p /\ Launches(p) /\ up' = up
      BY <2>1 DEF Starts, Resumes, Reopened, Records
    <3> QED
      BY <3>1, LaunchStep
  <2>2. CASE ShowsInterrupted(p)
    <3>1. record'.status = "interrupted" /\ UNCHANGED <<doubled, up, runner>>
      BY <2>2 DEF ShowsInterrupted, Records
    <3> QED
      BY <3>1 DEF UntilDoubled, SingleThread, OneSessionRuns, RunningIsWorked
  <2>3. CASE Stops(p)
    BY <2>3 DEF Stops, UntilDoubled, SingleThread, OneSessionRuns, RunningIsWorked
  <2>4. CASE Reads(p) \/ ReadsToResume(p) \/ ShowsRunning(p)
    BY <2>4 DEF Reads, ReadsToResume, ShowsRunning, UntilDoubled, SingleThread, OneSessionRuns,
       RunningIsWorked
  <2> QED
    BY <1>3, <2>1, <2>2, <2>3, <2>4 DEF Command
<1>4. CASE UNCHANGED flowVars
  BY <1>4 DEF flowVars, UntilDoubled, SingleThread, OneSessionRuns, RunningIsWorked
<1> QED
  BY <1>1, <1>2, <1>3, <1>4 DEF FlowNext

THEOREM UntilDoubledInvariant ==
    ASSUME WorkflowAssumption
    PROVE  FlowSpec => [](Attributed /\ UntilDoubled)
<1>1. FlowInit => Attributed /\ UntilDoubled
  BY DEF FlowInit, Attributed, UntilDoubled, SingleThread, OneSessionRuns, RunningIsWorked,
     NoRecord, NoRunner, NoCommand, Working
<1>2. FlowTypeOK /\ (Attributed /\ UntilDoubled) /\ [FlowNext]_flowVars => (Attributed /\ UntilDoubled)'
  BY AttributedNext, UntilDoubledNext
<1> QED
  BY <1>1, <1>2, FlowTyped, PTL DEF FlowSpec

\* Whatever sessions start, stop, show and resume the workflow, and however old the record
\* they write back: until two threads have been at work at once, a record that says
\* it runs under a live session is being worked on there.
THEOREM RunningStaysWorked ==
    ASSUME WorkflowAssumption
    PROVE  FlowSpec => []RunningIsWorked
<1>1. UntilDoubled => RunningIsWorked
  BY DEF UntilDoubled, RunningIsWorked
<1> QED
  BY <1>1, UntilDoubledInvariant, PTL

-----------------------------------------------------------------------------
(* One session at a time. *)

\* What a thread is about to write differs from the record by what it adds.
Pending(p) ==
    runner[p].at \in {"adding", "ending"} => record.calls \subseteq runner[p].copy.calls

\* At most one session lives; a run under way is the one the record tells of, and
\* a command or a thread that will write the record has read it as it still is.
OneSession ==
    /\ \A p, q \in up : p = q
    /\ ~doubled
    /\ \A p \in Processes :
           /\ Pending(p)
           /\ runner[p].at \in Working => record.status = "running" /\ record.owner = p
           /\ runner[p].at = "adding" =>
                  runner[p].copy.status = "running" /\ runner[p].copy.owner = p
    /\ \A p \in Processes :
           /\ ui[p].op = "show" /\ ui[p].copy.owner \notin up =>
                  ui[p].copy = record /\ record.status = "running"
           /\ ui[p].op = "show" => ui[p].copy.owner \in born \cup {Nobody}
           /\ ui[p].op = "resume" =>
                  /\ ui[p].copy = record
                  /\ record.status # "completed"
                  /\ runner[p].at = "none"
Alone == ~overlap => OneSession

AloneInv == FlowTypeOK /\ Attributed /\ UntilDoubled /\ Alone

LEMMA AloneThread ==
    ASSUME WorkflowAssumption, ~overlap, AloneInv, NEW p \in Processes, Thread(p)
    PROVE  OneSession'
<1> USE DEF AloneInv, FlowTypeOK, Alone, OneSession, Pending, Attributed, Working
<1>1. CASE Begins(p)
  BY <1>1 DEF Begins
<1>2. ASSUME NEW k \in Calls, CallReads(p, k) PROVE OneSession'
  <2>1. /\ runner'[p].at = "adding" /\ runner'[p].copy = WithCall(p, k)
        /\ \A q \in Processes \ {p} : runner'[q] = runner[q]
        /\ UNCHANGED <<record, up, doubled, born, ui>> /\ runner[p].at = "working"
    BY <1>2 DEF CallReads
  <2>2. /\ WithCall(p, k).status = record.status /\ WithCall(p, k).owner = record.owner
        /\ record.calls \subseteq WithCall(p, k).calls
    BY DEF WithCall, Records
  <2> QED
    BY <2>1, <2>2
<1>3. CASE FinishReads(p)
  <2>1. PICK status \in Outcome(p) : runner' = [runner EXCEPT ![p] =
                       [runner[p] EXCEPT !.at = "ending", !.copy = Final(status)]]
    BY <1>3 DEF FinishReads
  <2>2. /\ runner'[p].at = "ending" /\ runner'[p].copy = Final(status)
        /\ \A q \in Processes \ {p} : runner'[q] = runner[q]
    BY <2>1
  <2>3. UNCHANGED <<record, up, doubled, born, ui>> /\ runner[p].at = "working"
    BY <1>3 DEF FinishReads
  <2>4. record.calls \subseteq Final(status).calls
    BY DEF Final, Records
  <2> QED
    BY <2>2, <2>3, <2>4
<1>4. CASE Writes(p)
  <2>1. /\ record' = runner[p].copy /\ UNCHANGED <<up, doubled, born, ui>>
        /\ runner[p].at \in {"adding", "ending"}
        /\ runner'[p].at = IF runner[p].at = "adding" THEN "working" ELSE "finished"
        /\ \A q \in Processes \ {p} : runner'[q] = runner[q]
    BY <1>4 DEF Writes
  <2>2. \A q \in Processes \ {p} : runner[q].at = "none" /\ ui[q].op = "none"
    BY <2>1
  <2>3. p \in up /\ record.owner = p /\ ui[p].op # "resume"
    BY <2>1
  <2>4. ui[p].op = "show" => ui[p].copy.owner \in up
    <3>1. ui[p].op = "show" /\ ui[p].copy.owner \notin up => ui[p].copy = record
      OBVIOUS
    <3> QED
      BY <2>3, <3>1
  <2> QED
    BY <2>1, <2>2, <2>3, <2>4
<1>5. CASE SetsDone(p)
  BY <1>5 DEF SetsDone, NoRunner
<1> QED
  BY <1>1, <1>2, <1>3, <1>4, <1>5 DEF Thread

LEMMA AloneNext ==
    ASSUME WorkflowAssumption, ~overlap, AloneInv, [FlowNext]_flowVars
    PROVE  OneSession'
<1> USE DEF AloneInv, FlowTypeOK, Alone, OneSession, Pending, Attributed, UntilDoubled,
            RunningIsWorked, Working, NoRunner
<1>1. ASSUME NEW p \in Processes, Opens(p) PROVE OneSession'
  BY <1>1 DEF Opens, WorkflowAssumption
<1>2. ASSUME NEW p \in Processes, Closes(p) PROVE OneSession'
  BY <1>2 DEF Closes
<1>3. ASSUME NEW p \in Processes, Exits(p) PROVE OneSession'
  BY <1>3 DEF Exits, NoCommand
<1>4. ASSUME NEW p \in Processes, Thread(p) PROVE OneSession'
  BY <1>4, AloneThread
<1>5. ASSUME NEW p \in Processes, Command(p) PROVE OneSession'
  <2>1. CASE Starts(p)
    BY <2>1 DEF Starts, Launches, Records
  <2>2. CASE Stops(p)
    BY <2>2 DEF Stops
  <2>3. CASE ShowsRunning(p)
    BY <2>3 DEF ShowsRunning, NoCommand
  <2>4. CASE Reads(p)
    BY <2>4 DEF Reads, NoCommand
  <2>5. CASE ShowsInterrupted(p)
    BY <2>5 DEF ShowsInterrupted, Owned, NoCommand, Records
  <2>6. CASE ReadsToResume(p)
    BY <2>6 DEF ReadsToResume, Resumable
  <2>7. CASE Resumes(p)
    BY <2>7 DEF Resumes, Reopened, Launches, NoCommand, Records
  <2> QED
    BY <1>5, <2>1, <2>2, <2>3, <2>4, <2>5, <2>6, <2>7 DEF Command
<1>6. CASE UNCHANGED flowVars
  BY <1>6 DEF flowVars
<1> QED
  BY <1>1, <1>2, <1>3, <1>4, <1>5, <1>6 DEF FlowNext

\* The number of sessions that may be open is settled once.
LEMMA OverlapStays ==
    ASSUME [FlowNext]_flowVars
    PROVE  overlap' = overlap
BY DEF FlowNext, Opens, Closes, Exits, Thread, Begins, CallReads, FinishReads, Writes, SetsDone,
   Command, Starts, Stops, Reads, ShowsRunning, ShowsInterrupted, ReadsToResume, Resumes, flowVars

THEOREM AloneInvariant ==
    ASSUME WorkflowAssumption
    PROVE  FlowSpec => []AloneInv
<1>1. FlowInit => Alone
  BY DEF FlowInit, Alone, OneSession, Pending, NoRecord, NoRunner, NoCommand, Working
<1>2. AloneInv /\ [FlowNext]_flowVars => Alone'
  BY AloneNext, OverlapStays DEF AloneInv, Alone
<1> QED
  BY <1>1, <1>2, FlowTyped, UntilDoubledInvariant, PTL DEF FlowSpec, AloneInv

\* A step other than a resume adds to the calls at most, and only a record that says it
\* runs is written.
LEMMA WriteStep ==
    ASSUME ~overlap, AloneInv, [FlowNext]_flowVars
    PROVE  ResultKept /\ CallsGrow
<1> USE DEF Alone, ResultKept, CallsGrow, AloneInv, FlowTypeOK, Records
<1>1. ASSUME NEW p \in Processes, Opens(p) \/ Closes(p) \/ Exits(p) PROVE ResultKept /\ CallsGrow
  BY <1>1 DEF Opens, Closes, Exits
<1>2. ASSUME NEW p \in Processes, Thread(p) PROVE ResultKept /\ CallsGrow
  <2>1. CASE Begins(p) \/ FinishReads(p) \/ SetsDone(p) \/ \E k \in Calls : CallReads(p, k)
    BY <2>1 DEF Begins, CallReads, FinishReads, SetsDone
  <2>2. CASE Writes(p)
    <3>1. record.status = "running"
      BY <2>2 DEF Writes, OneSession, Working
    <3>2. record.calls \subseteq record'.calls
      BY <2>2 DEF Writes, OneSession, Pending
    <3> QED
      BY <3>1, <3>2
  <2> QED
    BY <1>2, <2>1, <2>2 DEF Thread
<1>3. ASSUME NEW p \in Processes, Command(p) PROVE ResultKept /\ CallsGrow
  <2>1. CASE Starts(p)
    BY <2>1 DEF Starts
  <2>2. CASE ShowsInterrupted(p)
    BY <2>2 DEF ShowsInterrupted, Owned, OneSession
  <2>3. CASE Resumes(p)
    BY <2>3 DEF Resumes, Reopened, OneSession
  <2>4. CASE Stops(p) \/ Reads(p) \/ ReadsToResume(p) \/ ShowsRunning(p)
    BY <2>4 DEF Stops, Reads, ReadsToResume, ShowsRunning
  <2> QED
    BY <1>3, <2>1, <2>2, <2>3, <2>4 DEF Command
<1>4. CASE UNCHANGED flowVars
  BY <1>4 DEF flowVars
<1> QED
  BY <1>1, <1>2, <1>3, <1>4 DEF FlowNext

\* A completed workflow stays completed, however often it is shown, resumed or its
\* session killed, while no second session of the project is open.
THEOREM ResultsStay ==
    ASSUME WorkflowAssumption
    PROVE  FlowSpec => CompletedStays
<1>1. AloneInv /\ [FlowNext]_flowVars => [ResultKept]_flowVars
  BY WriteStep DEF ResultKept
<1> QED
  BY <1>1, AloneInvariant, PTL DEF FlowSpec, CompletedStays

\* Under the same condition no recorded call is lost.
THEOREM RecordedCallsStay ==
    ASSUME WorkflowAssumption
    PROVE  FlowSpec => CallsKept
<1>1. AloneInv /\ [FlowNext]_flowVars => [CallsGrow]_flowVars
  BY WriteStep DEF CallsGrow
<1> QED
  BY <1>1, AloneInvariant, PTL DEF FlowSpec, CallsKept
=============================================================================
