------------------------------ MODULE MCSchedules ------------------------------
(* Bounds of ScheduledTasks for TLC: three sessions with one task, or one with    *)
(* two.  Sessions open and tasks are created in the order of their numbers.       *)
EXTENDS ScheduledTasks, FiniteSets

ASSUME ScheduleAssumption

Created == {t \in Tasks : \E s \in Sessions : store[s][t].kind # "none"}

CronBound ==
    /\ \A s \in opened' : s = 1 \/ s - 1 \in opened'
    /\ \A t \in Created' : t = 1 \/ t - 1 \in Created'
    /\ Cardinality(opened') > 1 => Cardinality(Created') <= 1

MCSpec == CronInit /\ [][CronNext /\ CronBound]_cronVars
=============================================================================
