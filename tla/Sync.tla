--------------------------------- MODULE Sync ---------------------------------
(***************************************************************************)
(* Callers that share a Mutex, a Barrier, an Awaitable and an Atomic, or   *)
(* gather the parts of a Flow: each of them is in one call at a time, and  *)
(* may be inside a function of synchronize meanwhile.                      *)
(***************************************************************************)
EXTENDS Mutex, Barrier, Awaitable, Atomic, Flow

CONSTANT ObjectSets  \* the sets of objects that the callers may share

ObjectNames == {"mutex", "barrier", "awaitable", "atomic", "flow"}

ASSUME ObjectsKnown == ObjectSets \subseteq SUBSET ObjectNames

VARIABLE objects   \* the objects they share

vars ==
  <<callVars, mutexVars, barrierVars, awaitVars, atomicVars, flowVars, objects>>

TypeOK ==
  /\ CallTypeOK /\ MutexTypeOK /\ BarrierTypeOK /\ AwaitTypeOK /\ AtomicTypeOK
  /\ FlowTypeOK
  /\ objects \in ObjectSets

Init ==
  /\ CallInit /\ MutexInit /\ BarrierInit /\ AwaitInit /\ AtomicInit
  /\ FlowInit
  /\ objects \in ObjectSets
  \* One initial state is enough for an object that nobody uses.
  /\ "awaitable" \notin objects => result = "Pending" /\ wait = "none"
  /\ "barrier" \notin objects => parties = Min(PartiesChoices)
  /\ "flow" \notin objects => plan = CHOOSE pl \in FlowPlans : TRUE
-----------------------------------------------------------------------------
\* A step of one object leaves the others alone.
OfMutex(step) ==
  /\ "mutex" \in objects /\ step
  /\ UNCHANGED <<barrierVars, awaitVars, atomicVars, flowVars, objects>>

OfBarrier(step) ==
  /\ "barrier" \in objects /\ step
  /\ UNCHANGED <<mutexVars, awaitVars, atomicVars, flowVars, objects>>

OfAwaitable(step) ==
  /\ "awaitable" \in objects /\ step
  /\ UNCHANGED <<mutexVars, barrierVars, atomicVars, flowVars, objects>>

OfAtomic(step) ==
  /\ "atomic" \in objects /\ step
  /\ UNCHANGED <<mutexVars, barrierVars, awaitVars, flowVars, objects>>

OfFlow(step) ==
  /\ "flow" \in objects /\ step
  /\ UNCHANGED <<mutexVars, barrierVars, awaitVars, atomicVars, objects>>

\* The scheduler cancels the task of a caller.
Cancelled(p) ==
  /\ Cancel(p)
  /\ UNCHANGED <<mutexVars, barrierVars, awaitVars, atomicVars, flowVars, objects>>

\* What a caller does by itself once it waits.
SyncPoll(p) ==
  OfMutex(MutexPoll(p)) \/ OfBarrier(BarrierPoll(p)) \/ OfAwaitable(AwaitEnds(p))
  \/ OfFlow(GatherPoll(p))

Step(p) ==
  \/ OfMutex(MutexStep(p)) \/ OfBarrier(BarrierStep(p))
  \/ OfAwaitable(AwaitStep(p)) \/ OfAtomic(AtomicStep(p))
  \/ OfFlow(FlowStep(p))
  \/ Cancelled(p)

Next ==
  \/ \E p \in Procs : Step(p)
  \/ OfAwaitable(AwaitEnvironment)
  \/ OfFlow(FlowEnvironment)

Spec == Init /\ [][Next]_vars

\* Waiting callers look again and deadlines pass, and the pool of a flow runs its
\* parts, whose functions end.  Nobody needs to call, unlock, complete or cancel.
Fairness ==
  /\ \A p \in Procs : WF_vars(SyncPoll(p))
  /\ WF_vars(OfFlow(FlowEnvironment))

FairSpec == Spec /\ Fairness
=============================================================================
