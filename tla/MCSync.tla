-------------------------------- MODULE MCSync --------------------------------
(* A finite instance of Sync for TLC. *)
EXTENDS SyncProperties

CONSTANTS p1, p2, p3

ThreeProcs == {p1, p2, p3}
OnlyP1 == {p1}

TwoOrThree == {2, 3}

\* Objects that a caller may hold or wait for while others wait for them.
Shared == {{"mutex", "barrier"}, {"awaitable"}, {"mutex", "atomic"}, {"flow"}}

OnlyFlow == {{"flow"}}

\* Three items for two parts, or two for a task each.
Plans ==
  {pl \in [policy : Policies, first : BOOLEAN, probes : {FALSE}, items : {2, 3},
           workers : {2}] : pl.items = 2 <=> pl.policy = "items"}

\* Two tasks, whose function may fail with TaskNotDoneError.
ProbingPlan ==
  {[policy |-> "items", first |-> TRUE, probes |-> TRUE, items |-> 2, workers |-> 2]}
=============================================================================
