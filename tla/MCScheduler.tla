---------------------------- MODULE MCScheduler -----------------------------
(***************************************************************************)
(* Properties of Scheduler and the constants of its model-checking runs.   *)
(***************************************************************************)
EXTENDS SchedulerProperties

CONSTANTS idle, d1, d2, u    \* model values: the tasks

\* Three drivers, one of them spawned after boot.  A driver may do all that a
\* program does.
SmallTasks == {idle, d1, d2, u}
SmallDrivers == {d1, d2, u}
SmallBootList == <<idle, d1, d2>>
=============================================================================
