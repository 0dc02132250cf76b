------------------------- MODULE MCBackgroundDelegate -------------------------
(* Four scenarios of BackgroundDelegate in one run of TLC.  The initial state   *)
(* picks one, and its bound keeps the steps to what it is about: every behavior *)
(* of the run is one of BackgroundDelegate!Spec.                                *)
EXTENDS BackgroundDelegate

VARIABLE scenario

ASSUME DelegateAssumption

\* What a scenario has: ids of subagents, tasks, messages.
Within(ids, tasks, messages) ==
    /\ \A t \in Tasks : /\ task'[t].id \in ids \cup {NoTask}
                        /\ task'[t].pc # "unused" => t <= tasks
    /\ sent' <= messages

OneTurn == \A t \in Tasks : task'[t].turns <= 1
NoTeardown == lead'.op # "cancel"
Avoids(places) == \A t \in Tasks : task'[t].pc \notin places
NoTaskStop == \A t \in Tasks : task'[t].cancel => task'[t].discard
NoCompaction == \A t \in Tasks : task'[t].forgotten = {}

\* Nested subagents: the limit and pruning.
Core ==
    /\ Within(1 .. 3, 3, 0) /\ OneTurn /\ NoTeardown
    /\ Avoids({"retry", "finish", "final", "batch", "close"})

\* Two teammates and the lead exchange messages.
Mail == Within(Teammates, 2, 1) /\ NoTeardown /\ NoTaskStop /\ NoCompaction

\* One subagent, steered, compacted and resumed.
Resume == Within({1}, 2, 2) /\ NoTeardown

\* One subagent, resumed again and again across a teardown.
Claim == Within({1}, 3, 2) /\ OneTurn /\ NoTaskStop /\ Avoids({"retry", "tool"})

MCInit == Init /\ scenario \in {"core", "mail", "resume", "claim"}

MCNext ==
    /\ Next
    /\ UNCHANGED scenario
    /\ \/ scenario = "core" /\ Core
       \/ scenario = "mail" /\ Mail
       \/ scenario = "resume" /\ Resume
       \/ scenario = "claim" /\ Claim

MCSpec == MCInit /\ [][MCNext]_<<vars, scenario>>
=============================================================================
