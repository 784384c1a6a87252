---------------------------- MODULE TaskLifecycle ----------------------------
(***************************************************************************)
(* What structured concurrency promises of tasks, without workers, queues, *)
(* parking or joins (RuntimeScheduler, src/runtime/concurrency.h): a task  *)
(* is created under an active parent or under none, and ends once, after   *)
(* its children; if one of them failed, it fails.                          *)
(***************************************************************************)
CONSTANTS Tasks, None

VARIABLES
  status,  \* absent, active, or how the task ended
  parent   \* the parent of each task, None for a root

vars == <<status, parent>>

Outcomes == {"Done", "Failed", "Cancelled"}

TypeOK ==
  /\ status \in [Tasks -> {"absent", "active"} \cup Outcomes]
  /\ parent \in [Tasks -> Tasks \cup {None}]

Init ==
  /\ status = [t \in Tasks |-> "absent"]
  /\ parent = [t \in Tasks |-> None]

Create(t, p) ==
  /\ status[t] = "absent"
  /\ p # None => status[p] = "active"
  /\ status' = [status EXCEPT ![t] = "active"]
  /\ parent' = [parent EXCEPT ![t] = p]

End(t, outcome) ==
  /\ status[t] = "active"
  /\ \A c \in Tasks :
       parent[c] = t => /\ status[c] # "active"
                        /\ status[c] = "Failed" => outcome = "Failed"
  /\ status' = [status EXCEPT ![t] = outcome]
  /\ UNCHANGED parent

Next ==
  \E t \in Tasks : \/ \E p \in Tasks \cup {None} : Create(t, p)
                   \/ \E outcome \in Outcomes : End(t, outcome)

Spec == Init /\ [][Next]_vars
=============================================================================
