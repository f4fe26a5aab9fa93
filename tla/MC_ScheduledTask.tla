-------------------------- MODULE MC_ScheduledTask --------------------------
(***************************************************************************)
(* Small instances of ScheduledTask.                                       *)
(***************************************************************************)
EXTENDS ScheduledTask

CONSTANTS t1, t2, t3

TwoTasks == {t1, t2}
ThreeTasks == {t1, t2, t3}
=============================================================================
