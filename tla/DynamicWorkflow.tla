----------------------------- MODULE DynamicWorkflow -----------------------------
(***************************************************************************)
(* One dynamic workflow of a project: its record on disk                   *)
(* (dynamic_workflow_store.py) and the processes that start, run, show,    *)
(* stop and resume it (dynamic_workflow_runtime.py,                        *)
(* dynamic_workflow_node.py).                                              *)
(*                                                                         *)
(* A process has a user interface, which runs one command at a time, and   *)
(* a thread that runs the workflow.  Every one of them reads the record    *)
(* and writes it back in two steps: the manager's lock is local to its     *)
(* process, and resume, get and list do not even take that one.            *)
(***************************************************************************)
EXTENDS Integers, FiniteSets

CONSTANTS
    Processes,  \* interactive sessions of the project
    Nobody,     \* the owner_pid of a record nobody runs
    Calls       \* agent calls of the script

\* Assumed wherever the module is instantiated.
WorkflowAssumption == Nobody \notin Processes

VARIABLES
    overlap, \* two sessions of the project may be open at once
    doubled, \* a thread was started while another session's was at work
    record,  \* state.json
    up,      \* processes that live
    born,    \* processes that were ever started
    runner,  \* per process, its _ActiveWorkflow and the place of its thread
    ui       \* per process, the command it is in and the record it has read

flowVars == <<overlap, doubled, record, up, born, runner, ui>>

WorkflowStatuses == {"absent", "running", "completed", "failed", "stopped", "interrupted"}
Records == [status : WorkflowStatuses, owner : Processes \cup {Nobody}, calls : SUBSET Calls]

\* The places of a thread at work; at the last two it is about to write `copy`.
\* done_event is set when it is at "none".
Working == {"begun", "working", "adding", "ending"}
Places == Working \cup {"none", "finished"}

NoRecord == [status |-> "absent", owner |-> Nobody, calls |-> {}]
NoRunner == [at |-> "none", cancel |-> FALSE, cached |-> {}, made |-> {}, copy |-> NoRecord]
NoCommand == [op |-> "none", copy |-> NoRecord]

FlowTypeOK ==
    /\ overlap \in BOOLEAN
    /\ doubled \in BOOLEAN
    /\ record \in Records
    /\ up \subseteq born
    /\ born \subseteq Processes
    /\ runner \in [Processes -> [at : Places, cancel : BOOLEAN, cached : SUBSET Calls,
                                 made : SUBSET Calls, copy : Records]]
    /\ ui \in [Processes -> [op : {"none", "stop", "show", "resume"}, copy : Records]]

FlowInit ==
    /\ overlap \in BOOLEAN
    /\ doubled = FALSE
    /\ record = NoRecord
    /\ up = {}
    /\ born = {}
    /\ runner = [p \in Processes |-> NoRunner]
    /\ ui = [p \in Processes |-> NoCommand]

-----------------------------------------------------------------------------
(* Processes *)

Opens(p) ==
    /\ p \notin born
    /\ overlap \/ up = {}
    /\ up' = up \cup {p}
    /\ born' = born \cup {p}
    /\ UNCHANGED <<overlap, doubled, record, runner, ui>>

\* close: the cancellation, and the wait for the thread that the exit may cut short.
Closes(p) ==
    /\ ui[p].op = "none"
    /\ runner[p].at \in Working
    /\ runner' = [runner EXCEPT ![p].cancel = TRUE]
    /\ UNCHANGED <<overlap, doubled, record, up, born, ui>>

\* The process exits or crashes; its thread ends with it.
Exits(p) ==
    /\ p \in up
    /\ up' = up \ {p}
    /\ runner' = [runner EXCEPT ![p] = NoRunner]
    /\ ui' = [ui EXCEPT ![p] = NoCommand]
    /\ UNCHANGED <<overlap, doubled, record, born>>

-----------------------------------------------------------------------------
(* The thread *)

\* _launch
Launches(p) ==
    /\ runner' = [runner EXCEPT ![p] = [NoRunner EXCEPT !.at = "begun"]]
    /\ doubled' = (doubled \/ \E q \in Processes \ {p} : runner[q].at \in Working)

\* _run_record reads the calls it will replay.
Begins(p) ==
    /\ runner[p].at = "begun"
    /\ runner' = [runner EXCEPT ![p] = [@ EXCEPT !.at = "working", !.cached = record.calls]]
    /\ UNCHANGED <<overlap, doubled, record, up, born, ui>>

\* The record with a call added, unless the call was replayed from it.
WithCall(p, k) ==
    IF k \in runner[p].cached THEN record ELSE [record EXCEPT !.calls = @ \cup {k}]

\* on_call_completed reads the record.
CallReads(p, k) ==
    /\ runner[p].at = "working"
    /\ k \notin runner[p].made
    /\ runner' = [runner EXCEPT ![p] =
           [@ EXCEPT !.at = "adding", !.made = runner[p].made \cup {k},
                     !.copy = WithCall(p, k)]]
    /\ UNCHANGED <<overlap, doubled, record, up, born, ui>>

\* What _finish may write: a cancelled run can still complete.
Outcome(p) == {"completed", IF runner[p].cancel THEN "stopped" ELSE "failed"}

\* The record a run leaves; an error that escaped _run_record would leave it as it was.
Final_ErrorsEscape(status) ==
    IF status = "failed" THEN record ELSE [record EXCEPT !.status = status, !.owner = Nobody]
Final(status) == [record EXCEPT !.status = status, !.owner = Nobody]

\* _finish reads the record.
FinishReads(p) ==
    /\ runner[p].at = "working"
    /\ \E status \in Outcome(p) :
           runner' = [runner EXCEPT ![p] = [@ EXCEPT !.at = "ending", !.copy = Final(status)]]
    /\ UNCHANGED <<overlap, doubled, record, up, born, ui>>

\* Both write back what they have made of it.
Writes(p) ==
    /\ runner[p].at \in {"adding", "ending"}
    /\ record' = runner[p].copy
    /\ runner' = [runner EXCEPT ![p] =
           [@ EXCEPT !.at = IF runner[p].at = "adding" THEN "working" ELSE "finished",
                     !.copy = NoRecord]]
    /\ UNCHANGED <<overlap, doubled, up, born, ui>>

\* done_event, whatever the outcome.
SetsDone_OnSuccess(p) ==
    /\ runner[p].at = "finished"
    /\ record.status = "completed"
    /\ runner' = [runner EXCEPT ![p] = NoRunner]
    /\ UNCHANGED <<overlap, doubled, record, up, born, ui>>

SetsDone(p) ==
    /\ runner[p].at = "finished"
    /\ runner' = [runner EXCEPT ![p] = NoRunner]
    /\ UNCHANGED <<overlap, doubled, record, up, born, ui>>

-----------------------------------------------------------------------------
(* Commands *)

Starts(p) ==
    /\ p \in up
    /\ ui[p].op = "none"
    /\ record.status = "absent"
    /\ record' = [record EXCEPT !.status = "running", !.owner = p]
    /\ Launches(p)
    /\ UNCHANGED <<overlap, up, born, ui>>

\* stop sets the event and waits two seconds before it shows the record.
Stops(p) ==
    /\ ui[p].op = "none"
    /\ runner[p].at # "none"
    /\ runner' = [runner EXCEPT ![p].cancel = TRUE]
    /\ ui' = [ui EXCEPT ![p].op = "stop"]
    /\ UNCHANGED <<overlap, doubled, record, up, born>>

\* get and list read the record; _refresh_stale_record goes on with a running one.
Reads(p) ==
    /\ p \in up
    /\ ui[p].op \in {"none", "stop"}
    /\ record.status # "absent"
    /\ ui' = [ui EXCEPT ![p] = IF record.status = "running"
                               THEN [op |-> "show", copy |-> record] ELSE NoCommand]
    /\ UNCHANGED <<overlap, doubled, record, up, born, runner>>

\* Whether the run of a record read as running still goes on.
Owned_LocallyOnly(p) == runner[p].at # "none"
Owned(p) == runner[p].at # "none" \/ ui[p].copy.owner \in up

ShowsRunning(p) ==
    /\ ui[p].op = "show"
    /\ Owned(p)
    /\ ui' = [ui EXCEPT ![p] = NoCommand]
    /\ UNCHANGED <<overlap, doubled, record, up, born, runner>>

\* The copy goes back to the disk as interrupted.
ShowsInterrupted(p) ==
    /\ ui[p].op = "show"
    /\ ~Owned(p)
    /\ record' = [ui[p].copy EXCEPT !.status = "interrupted", !.owner = Nobody]
    /\ ui' = [ui EXCEPT ![p] = NoCommand]
    /\ UNCHANGED <<overlap, doubled, up, born, runner>>

\* resume: no run of this process is under way (a finished one is waited for), and
\* the record read is not completed and not another live process's.
Resumable(p) ==
    /\ runner[p].at = "none"
    /\ \/ record.status \in {"failed", "stopped", "interrupted"}
       \/ record.status = "running" /\ record.owner \notin up

ReadsToResume(p) ==
    /\ p \in up
    /\ ui[p].op = "none"
    /\ Resumable(p)
    /\ ui' = [ui EXCEPT ![p] = [op |-> "resume", copy |-> record]]
    /\ UNCHANGED <<overlap, doubled, record, up, born, runner>>

\* The record a resumed run goes on from: what was read, with its calls.
Reopened_Afresh(p) == [status |-> "running", owner |-> p, calls |-> {}]
Reopened(p) == [ui[p].copy EXCEPT !.status = "running", !.owner = p]

Resumes(p) ==
    /\ ui[p].op = "resume"
    /\ record' = Reopened(p)
    /\ Launches(p)
    /\ ui' = [ui EXCEPT ![p] = NoCommand]
    /\ UNCHANGED <<overlap, up, born>>

Thread(p) ==
    \/ Begins(p) \/ FinishReads(p) \/ Writes(p) \/ SetsDone(p)
    \/ \E k \in Calls : CallReads(p, k)

Command(p) ==
    \/ Starts(p) \/ Stops(p) \/ Reads(p) \/ ShowsRunning(p) \/ ShowsInterrupted(p)
    \/ ReadsToResume(p) \/ Resumes(p)

FlowNext == \E p \in Processes :
    Opens(p) \/ Closes(p) \/ Exits(p) \/ Thread(p) \/ Command(p)

\* A thread that lives goes on: the script has at most 1000 calls, and a
\* cancellation ends its interpreter.
FlowSpec == FlowInit /\ [][FlowNext]_flowVars /\ \A p \in Processes : WF_flowVars(Thread(p))

-----------------------------------------------------------------------------
(* Properties *)

\* While no two threads have been at work at once, a running record belongs to a
\* process that has died or whose thread works on it, whatever views and commands of
\* other sessions write over it: nothing else could ever resume or stop it.
RunningIsWorked ==
    ~doubled /\ record.status = "running" /\ record.owner \in up =>
        runner[record.owner].at \in Working

\* What the refusals of resume are for: no two sessions run the workflow at once.  The
\* code does not keep it, for a resume reads the record before it writes it.
OneSessionRuns ==
    \A p, q \in Processes : runner[p].at \in Working /\ runner[q].at \in Working => p = q

\* With one session open at a time, a view of the record made before a run completed
\* never takes the result back.
ResultKept == ~overlap /\ record.status = "completed" => record' = record
CompletedStays == [][ResultKept]_flowVars

\* With one session open at a time, no view, resume or crash loses a call that was
\* paid for and recorded.
CallsGrow == ~overlap => record.calls \subseteq record'.calls
CallsKept == [][CallsGrow]_flowVars

\* Stop and close end the run, or the process ends.
StopEnds == \A p \in Processes : runner[p].cancel ~> ~runner[p].cancel
=============================================================================
