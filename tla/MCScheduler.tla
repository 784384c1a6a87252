----------------------------- MODULE MCScheduler -----------------------------
(* Finite instances of Scheduler for TLC. *)
EXTENDS SchedulerProperties

CONSTANTS t1, t2, t3, w1, w2, h1

TwoTasks == {t1, t2}
ThreeTasks == {t1, t2, t3}
OneWorker == {w1}
TwoWorkers == {w1, w2}
OneHost == {h1}

AllPolicies == PolicyNames
CancelScopeOnly == {"CancelScope"}
Never == {FALSE}
Always == {TRUE}
Both == BOOLEAN

Structured == {"cancel", "fail"}
Parking == {"park", "targeted", "sleep", "cancel", "join", "timed_join"}
Joins == {"join", "cancel", "fail", "idle", "shutdown"}
Progress == {"park", "sleep"}
ParkAndIdle == {"park", "idle"}

TaskSymmetry == Permutations(Tasks) \cup Permutations(Workers)
=============================================================================
