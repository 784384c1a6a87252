------------------------------ MODULE SyncProofs ------------------------------
(***************************************************************************)
(* Theorems about the objects of Sync, for any number of callers, any      *)
(* bounds and any sets of objects that they share.                         *)
(*                                                                         *)
(* Each object has an inductive invariant of its own.  What the steps of   *)
(* the other objects may do to it is only to change the call of a caller   *)
(* who neither was in a call of this object nor is after the step          *)
(* (LeavesCalls), and that is shown once for each object.                  *)
(***************************************************************************)
EXTENDS SyncProperties, FiniteSetTheorems, SequenceTheorems, TLAPS

BarrierInv ==
  /\ BarrierTypeOK
  /\ ArrivalsCounted
  /\ \A p \in Procs : In(p, "barrier") => call[p].number <= generation

AwaitInv == AwaitTypeOK /\ OneResult

AtomicInv == AtomicTypeOK /\ NoUpdateLost

Queued(p) == \E i \in DOMAIN waiters : waiters[i] = p

MutexInv ==
  /\ MutexTypeOK
  /\ \A i, j \in DOMAIN waiters : waiters[i] = waiters[j] => i = j
  /\ \A p \in Procs : In(p, "lock") <=> Queued(p)
  /\ \A p \in Procs :
       In(p, "lock") /\ call[p].scoped => sections[p] < MaxSections

\* The calls of name stay as they are, and no new one begins.
LeavesCalls(name) ==
  \A q \in Procs : In(q, name) \/ In(q, name)' => call'[q] = call[q]
-----------------------------------------------------------------------------
(* What the steps do to the calls. *)

LEMMA IdleType == Idle \in CallRecord
BY DEF Idle, CallRecord, CallNames

LEMMA ReturnsTyped ==
  ASSUME CallTypeOK, NEW p \in Procs, Returns(p), UNCHANGED cancelled
  PROVE  CallTypeOK'
BY IdleType DEF CallTypeOK, Returns

LEMMA ReturnsLeaves ==
  ASSUME CallTypeOK, NEW p \in Procs, Returns(p),
         NEW name \in CallNames \ {"idle"}, ~In(p, name)
  PROVE  LeavesCalls(name)
BY DEF CallTypeOK, Returns, LeavesCalls, In, Idle, CallNames

\* A caller goes into a call r.
LEMMA EntersTyped ==
  ASSUME CallTypeOK, NEW p \in Procs, NEW r \in CallRecord,
         call' = [call EXCEPT ![p] = r], UNCHANGED cancelled
  PROVE  CallTypeOK'
BY DEF CallTypeOK

LEMMA EntersLeaves ==
  ASSUME CallTypeOK, NEW p \in Procs, NEW r \in CallRecord,
         call' = [call EXCEPT ![p] = r],
         NEW name \in CallNames, ~In(p, name), r.pc # name
  PROVE  LeavesCalls(name)
BY DEF CallTypeOK, LeavesCalls, In

LEMMA SameLeaves ==
  ASSUME UNCHANGED call, NEW name
  PROVE  LeavesCalls(name)
BY DEF LeavesCalls, In

LEMMA LockRecord ==
  ASSUME NEW scoped \in BOOLEAN, NEW timeout
  PROVE  LET r == [Idle EXCEPT !.pc = "lock", !.scoped = scoped,
                               !.timed = timeout = "later"]
         IN  r \in CallRecord /\ r.pc = "lock" /\ r.scoped = scoped
BY DEF Idle, CallRecord, CallNames

LEMMA BarrierRecord ==
  ASSUME NEW g \in Nat, NEW timeout
  PROVE  LET r == [Idle EXCEPT !.pc = "barrier", !.timed = timeout = "later",
                               !.number = g]
         IN  r \in CallRecord /\ r.pc = "barrier" /\ r.number = g
BY DEF Idle, CallRecord, CallNames

LEMMA UpdateRecord ==
  ASSUME NEW v \in Nat
  PROVE  LET r == [Idle EXCEPT !.pc = "update", !.number = v]
         IN  r \in CallRecord /\ r.pc = "update"
BY DEF Idle, CallRecord, CallNames

LEMMA AwaitRecord ==
  ASSUME NEW timeout
  PROVE  LET r == [Idle EXCEPT !.pc = "await", !.timed = timeout = "later"]
         IN  r \in CallRecord /\ r.pc = "await"
BY DEF Idle, CallRecord, CallNames

LEMMA GatherRecord ==
  ASSUME NEW timeout
  PROVE  LET r == [Idle EXCEPT !.pc = "gather", !.timed = timeout # "never"]
         IN  r \in CallRecord /\ r.pc = "gather"
BY DEF Idle, CallRecord, CallNames

\* A step of the mutex is the only one that begins or ends a call of lock, and so
\* for the others.
LEMMA MutexCalls ==
  ASSUME CallTypeOK, NEW p \in Procs, MutexStep(p),
         NEW name \in CallNames \ {"idle", "lock"}
  PROVE  CallTypeOK' /\ LeavesCalls(name)
<1>1. CASE Lock(p) \/ LockGivesUp(p)
  BY <1>1, ReturnsTyped, ReturnsLeaves DEF Lock, LockGivesUp, In
<1>2. CASE UNCHANGED callVars
  BY <1>2, SameLeaves DEF callVars, CallTypeOK
<1>3. ASSUME NEW scoped \in BOOLEAN, NEW timeout \in Timeouts,
             LockWait(p, scoped, timeout)
      PROVE  CallTypeOK' /\ LeavesCalls(name)
  <2> DEFINE r == [Idle EXCEPT !.pc = "lock", !.scoped = scoped,
                               !.timed = timeout = "later"]
  <2>1. r \in CallRecord /\ r.pc = "lock"
    BY LockRecord
  <2>2. call' = [call EXCEPT ![p] = r] /\ UNCHANGED cancelled /\ In(p, "idle")
    BY <1>3 DEF LockWait
  <2> HIDE DEF r
  <2> QED
    BY <2>1, <2>2, EntersTyped, EntersLeaves DEF In
<1> QED
  BY <1>1, <1>2, <1>3 DEF MutexStep, MutexPoll, Unlock, EndSection, LockNow

LEMMA BarrierCalls ==
  ASSUME CallTypeOK, BarrierTypeOK, NEW p \in Procs, BarrierStep(p),
         NEW name \in CallNames \ {"idle", "barrier"}
  PROVE  CallTypeOK' /\ LeavesCalls(name)
<1>1. CASE Pass(p) \/ Withdraw(p)
  BY <1>1, ReturnsTyped, ReturnsLeaves DEF Pass, Withdraw, In
<1>2. CASE ArriveLast(p)
  BY <1>2, SameLeaves DEF ArriveLast, callVars, CallTypeOK
<1>3. ASSUME NEW timeout \in Timeouts, Arrive(p, timeout)
      PROVE  CallTypeOK' /\ LeavesCalls(name)
  <2> DEFINE r == [Idle EXCEPT !.pc = "barrier", !.timed = timeout = "later",
                               !.number = generation]
  <2>. generation \in Nat
    BY MaxGenerationsNat DEF BarrierTypeOK
  <2>1. r \in CallRecord /\ r.pc = "barrier"
    BY BarrierRecord
  <2>2. call' = [call EXCEPT ![p] = r] /\ UNCHANGED cancelled /\ In(p, "idle")
    BY <1>3 DEF Arrive
  <2> HIDE DEF r
  <2> QED
    BY <2>1, <2>2, EntersTyped, EntersLeaves DEF In
<1> QED
  BY <1>1, <1>2, <1>3 DEF BarrierStep, BarrierPoll

LEMMA AwaitCalls ==
  ASSUME CallTypeOK, NEW p \in Procs, AwaitStep(p),
         NEW name \in CallNames \ {"idle", "await"}
  PROVE  CallTypeOK' /\ LeavesCalls(name)
<1>1. ASSUME NEW timeout \in Timeouts, AwaitWait(p, timeout)
      PROVE  CallTypeOK' /\ LeavesCalls(name)
  <2> DEFINE r == [Idle EXCEPT !.pc = "await", !.timed = timeout = "later"]
  <2>1. r \in CallRecord /\ r.pc = "await"
    BY AwaitRecord
  <2>2. call' = [call EXCEPT ![p] = r] /\ UNCHANGED cancelled /\ In(p, "idle")
    BY <1>1 DEF AwaitWait, Waits
  <2> HIDE DEF r
  <2> QED
    BY <2>1, <2>2, EntersTyped, EntersLeaves DEF In
<1>2. CASE ~ \E timeout \in Timeouts : AwaitWait(p, timeout)
  <2>1. Returns(p) /\ UNCHANGED cancelled /\ ~In(p, name)
    BY <1>2 DEF AwaitStep, AwaitEnds, AwaitNow, Poll, AwaitReturns, Observed,
         CancelledBy, LostBy, TimedOut, Answers, In
  <2> QED
    BY <2>1, ReturnsTyped, ReturnsLeaves
<1> QED
  BY <1>1, <1>2

LEMMA AtomicCalls ==
  ASSUME CallTypeOK, value \in Nat, NEW p \in Procs, AtomicStep(p),
         NEW name \in CallNames \ {"idle", "update"}
  PROVE  CallTypeOK' /\ LeavesCalls(name)
<1>1. CASE UpdateReads(p)
  <2> DEFINE r == [Idle EXCEPT !.pc = "update", !.number = value]
  <2>1. r \in CallRecord /\ r.pc = "update"
    BY UpdateRecord
  <2>2. call' = [call EXCEPT ![p] = r] /\ UNCHANGED cancelled /\ ~In(p, name)
    BY <1>1 DEF UpdateReads, In
  <2> HIDE DEF r
  <2> QED
    BY <2>1, <2>2, EntersTyped, EntersLeaves
<1>2. CASE UpdateStores(p) \/ UpdateAbandoned(p)
  BY <1>2, ReturnsTyped, ReturnsLeaves DEF UpdateStores, UpdateAbandoned, In
<1>3. CASE UNCHANGED callVars
  BY <1>3, SameLeaves DEF callVars, CallTypeOK
<1> QED
  BY <1>1, <1>2, <1>3 DEF AtomicStep, Set, CompareAndSet

LEMMA FlowCalls ==
  ASSUME CallTypeOK, NEW p \in Procs, FlowStep(p),
         NEW name \in CallNames \ {"idle", "gather"}
  PROVE  CallTypeOK' /\ LeavesCalls(name)
<1>1. ASSUME NEW timeout \in Timeouts, Scatter(p, timeout)
      PROVE  CallTypeOK' /\ LeavesCalls(name)
  <2> DEFINE r == [Idle EXCEPT !.pc = "gather", !.timed = timeout # "never"]
  <2>1. r \in CallRecord /\ r.pc = "gather"
    BY GatherRecord
  <2>2. call' = [call EXCEPT ![p] = r] /\ UNCHANGED cancelled /\ In(p, "idle")
    BY <1>1 DEF Scatter
  <2> HIDE DEF r
  <2> QED
    BY <2>1, <2>2, EntersTyped, EntersLeaves DEF In
<1>2. CASE GatherPoll(p)
  <2>1. In(p, "gather") /\ UNCHANGED cancelled
    BY <1>2 DEF GatherPoll, Gathered, Abandons, LooksAgain, Passes, Accepts, AtHead,
         callVars
  <2>2. Returns(p) \/ UNCHANGED call
    BY <1>2 DEF GatherPoll, Gathered, Abandons, LooksAgain, Passes, Accepts, callVars
  <2>3. CASE Returns(p)
    BY <2>1, <2>3, ReturnsTyped, ReturnsLeaves DEF In
  <2>4. CASE UNCHANGED call
    BY <2>1, <2>4, SameLeaves DEF CallTypeOK
  <2> QED
    BY <2>2, <2>3, <2>4
<1> QED
  BY <1>1, <1>2 DEF FlowStep

\* What a step of the whole is for each object: a step of its own, or one that leaves
\* the object and its calls alone.
LEMMA StepCases ==
  ASSUME CallTypeOK, BarrierTypeOK, value \in Nat, [Next]_vars
  PROVE  /\ CallTypeOK'
         /\ \/ \E p \in Procs : MutexStep(p)
            \/ UNCHANGED mutexVars /\ LeavesCalls("lock")
         /\ \/ \E p \in Procs : BarrierStep(p)
            \/ UNCHANGED barrierVars /\ LeavesCalls("barrier")
         /\ \/ \E p \in Procs : AwaitStep(p)
            \/ AwaitEnvironment
            \/ UNCHANGED awaitVars
         /\ (\E p \in Procs : AtomicStep(p)) \/ UNCHANGED atomicVars
         /\ \/ \E p \in Procs : FlowStep(p)
            \/ FlowEnvironment
            \/ UNCHANGED flowVars /\ LeavesCalls("gather")
         /\ UNCHANGED objects
<1>1. ASSUME NEW p \in Procs, OfMutex(MutexStep(p))
      PROVE  /\ CallTypeOK' /\ LeavesCalls("barrier") /\ LeavesCalls("gather")
             /\ UNCHANGED <<barrierVars, awaitVars, atomicVars, flowVars, objects>>
  BY <1>1, MutexCalls DEF OfMutex, CallNames
<1>2. ASSUME NEW p \in Procs, OfBarrier(BarrierStep(p))
      PROVE  /\ CallTypeOK' /\ LeavesCalls("lock") /\ LeavesCalls("gather")
             /\ UNCHANGED <<mutexVars, awaitVars, atomicVars, flowVars, objects>>
  BY <1>2, BarrierCalls DEF OfBarrier, CallNames
<1>3. ASSUME NEW p \in Procs, OfAwaitable(AwaitStep(p))
      PROVE  /\ CallTypeOK' /\ LeavesCalls("lock") /\ LeavesCalls("barrier")
             /\ LeavesCalls("gather")
             /\ UNCHANGED <<mutexVars, barrierVars, atomicVars, flowVars, objects>>
  BY <1>3, AwaitCalls DEF OfAwaitable, CallNames
<1>4. ASSUME NEW p \in Procs, OfAtomic(AtomicStep(p))
      PROVE  /\ CallTypeOK' /\ LeavesCalls("lock") /\ LeavesCalls("barrier")
             /\ LeavesCalls("gather")
             /\ UNCHANGED <<mutexVars, barrierVars, awaitVars, flowVars, objects>>
  BY <1>4, AtomicCalls DEF OfAtomic, CallNames
<1>5. ASSUME NEW p \in Procs, OfFlow(FlowStep(p))
      PROVE  /\ CallTypeOK' /\ LeavesCalls("lock") /\ LeavesCalls("barrier")
             /\ UNCHANGED <<mutexVars, barrierVars, awaitVars, atomicVars, objects>>
  BY <1>5, FlowCalls DEF OfFlow, CallNames
<1>6. ASSUME NEW p \in Procs, Cancelled(p)
      PROVE  /\ CallTypeOK' /\ LeavesCalls("lock") /\ LeavesCalls("barrier")
             /\ LeavesCalls("gather")
             /\ UNCHANGED <<mutexVars, barrierVars, awaitVars, atomicVars, flowVars,
                            objects>>
  BY <1>6, SameLeaves DEF Cancelled, Cancel, CallTypeOK
<1>7. CASE OfAwaitable(AwaitEnvironment)
  <2>1. UNCHANGED callVars
    BY <1>7 DEF OfAwaitable, AwaitEnvironment, Complete, Fail, CancelAwaitable, Unpin
  <2> QED
    BY <1>7, <2>1, SameLeaves DEF OfAwaitable, callVars, CallTypeOK
<1>8. CASE OfFlow(FlowEnvironment)
  <2>1. UNCHANGED callVars
    BY <1>8 DEF OfFlow, FlowEnvironment, PartStep, Begin, Quit, Notice, TakeItem,
         ItemEnds, Succeeds, Fails, Recorded, Unwinds, gatherVars, callVars
  <2> QED
    BY <1>8, <2>1, SameLeaves DEF OfFlow, callVars, CallTypeOK
<1>9. CASE UNCHANGED vars
  BY <1>9, SameLeaves DEF vars, callVars, CallTypeOK
<1> QED
  BY <1>1, <1>2, <1>3, <1>4, <1>5, <1>6, <1>7, <1>8, <1>9
  DEF Next, Step, OfMutex, OfBarrier, OfAwaitable, OfAtomic, OfFlow
-----------------------------------------------------------------------------
(* Awaitable and Atomic *)

LEMMA BecomesOne ==
  ASSUME AwaitInv, result = "Pending", NEW outcome \in Terminal, Becomes(outcome),
         told' \in {told, told \cup {outcome}}, UNCHANGED pinned
  PROVE  AwaitInv'
BY DEF AwaitInv, AwaitTypeOK, OneResult, Becomes, Finished, Terminal

LEMMA AwaitKeeps ==
  ASSUME AwaitInv, \/ \E p \in Procs : AwaitStep(p)
                   \/ AwaitEnvironment
                   \/ UNCHANGED awaitVars
  PROVE  AwaitInv'
<1>1. ASSUME NEW p \in Procs, Observed(p), UNCHANGED pinned
      PROVE  AwaitInv'
  BY <1>1 DEF Observed, Answers, Told, AwaitInv, AwaitTypeOK, OneResult, Terminal
<1>2. ASSUME NEW p \in Procs, CancelledBy(p) \/ LostBy(p), UNCHANGED pinned
      PROVE  AwaitInv'
  BY <1>2, BecomesOne DEF CancelledBy, LostBy, Answers, Told, Terminal
<1>3. ASSUME UNCHANGED <<result, wait, told>>, pinned' \in BOOLEAN
      PROVE  AwaitInv'
  BY <1>3 DEF AwaitInv, AwaitTypeOK, OneResult
<1>4. ASSUME NEW p \in Procs, AwaitStep(p)
      PROVE  AwaitInv'
  <2>1. pinned \in BOOLEAN /\ UNCHANGED pinned
    BY <1>4 DEF AwaitInv, AwaitTypeOK, AwaitStep, AwaitEnds, AwaitNow, AwaitWait,
         Poll, AwaitReturns, awaitVars
  <2>2. \/ Observed(p) \/ CancelledBy(p) \/ LostBy(p)
        \/ UNCHANGED <<result, wait, told>>
    BY <1>4 DEF AwaitStep, AwaitEnds, AwaitNow, AwaitWait, Poll, AwaitReturns,
         TimedOut, awaitVars
  <2> QED
    BY <2>1, <2>2, <1>1, <1>2, <1>3
<1>5. CASE Complete \/ Fail \/ CancelAwaitable
  BY <1>5, BecomesOne DEF Complete, Fail, CancelAwaitable, Unclaimed, Told, Terminal
<1>6. CASE Unpin \/ UNCHANGED awaitVars
  BY <1>6, <1>3 DEF Unpin, awaitVars, AwaitInv, AwaitTypeOK
<1> QED
  BY <1>4, <1>5, <1>6 DEF AwaitEnvironment

LEMMA AtomicKeeps ==
  ASSUME AtomicInv, CallTypeOK,
         (\E p \in Procs : AtomicStep(p)) \/ UNCHANGED atomicVars
  PROVE  AtomicInv'
<1> USE MaxValueNat DEF AtomicInv, AtomicTypeOK, NoUpdateLost
<1>1. ASSUME NEW v \in 0..MaxValue, Stores(v)
      PROVE  AtomicInv'
  BY <1>1 DEF Stores
<1>2. ASSUME NEW p \in Procs, UpdateStores(p)
      PROVE  AtomicInv'
  BY <1>2 DEF UpdateStores, Matches
<1>3. CASE UNCHANGED atomicVars
  BY <1>3 DEF atomicVars
<1> QED
  BY <1>1, <1>2, <1>3
  DEF AtomicStep, UpdateReads, UpdateAbandoned, Set, CompareAndSet
-----------------------------------------------------------------------------
(* Barrier *)

\* The callers that wait for generation g.
Held(g) == {p \in Procs : In(p, "barrier") /\ call[p].number = g}

LEMMA HeldFinite ==
  ASSUME NEW g
  PROVE  IsFiniteSet(Held(g)) /\ Cardinality(Held(g)) \in Nat
BY FiniteProcs, FS_Subset, FS_CardinalityType DEF Held

LEMMA BarrierLeft ==
  ASSUME BarrierInv, UNCHANGED barrierVars, LeavesCalls("barrier")
  PROVE  BarrierInv'
<1>1. \A p \in Procs : /\ In(p, "barrier")' <=> In(p, "barrier")
                       /\ In(p, "barrier") => call'[p] = call[p]
  BY DEF LeavesCalls, In
<1>2. {p \in Procs : In(p, "barrier") /\ call[p].number = generation}'
        = {p \in Procs : In(p, "barrier") /\ call[p].number = generation}
  BY <1>1 DEF barrierVars
<1> QED
  BY <1>1, <1>2 DEF BarrierInv, BarrierTypeOK, ArrivalsCounted, barrierVars

LEMMA ArriveLastKeeps ==
  ASSUME CallTypeOK, BarrierInv, NEW p \in Procs, ArriveLast(p)
  PROVE  BarrierInv'
<1>1. generation \in Nat /\ generation' = generation + 1 /\ UNCHANGED call
      /\ generation < MaxGenerations
  BY MaxGenerationsNat DEF ArriveLast, callVars, BarrierInv, BarrierTypeOK
<1>2. BarrierTypeOK'
  BY MaxGenerationsNat, PartiesPositive DEF ArriveLast, BarrierInv, BarrierTypeOK
<1>3. \A q \in Procs : In(q, "barrier") =>
        call[q].number \in Nat /\ call[q].number <= generation
  BY DEF BarrierInv, CallTypeOK, CallRecord
<1>4. \A q \in Procs : In(q, "barrier")' =>
        call'[q].number # generation' /\ call'[q].number <= generation'
  BY <1>1, <1>3 DEF In
<1>5. {q \in Procs : In(q, "barrier") /\ call[q].number = generation}' = {}
  BY <1>4
<1>6. waiting' = 0
  BY DEF ArriveLast
<1> QED
  BY <1>2, <1>4, <1>5, <1>6, FS_EmptySet DEF BarrierInv, ArrivalsCounted

LEMMA ArriveKeeps ==
  ASSUME CallTypeOK, BarrierInv, NEW p \in Procs, NEW timeout, Arrive(p, timeout)
  PROVE  BarrierInv'
<1> DEFINE r == [Idle EXCEPT !.pc = "barrier", !.timed = timeout = "later",
                             !.number = generation]
<1>1. generation \in Nat
  BY MaxGenerationsNat DEF BarrierInv, BarrierTypeOK
<1>2. r \in CallRecord /\ r.pc = "barrier" /\ r.number = generation
  BY <1>1, BarrierRecord
<1>3. call' = [call EXCEPT ![p] = r] /\ In(p, "idle")
      /\ UNCHANGED <<parties, generation>> /\ waiting' = waiting + 1
  BY DEF Arrive
<1> HIDE DEF r
<1>4. \A q \in Procs : call'[q] = IF q = p THEN r ELSE call[q]
  BY <1>3 DEF CallTypeOK
<1>5. Held(generation)' = Held(generation) \cup {p} /\ p \notin Held(generation)
  BY <1>2, <1>3, <1>4 DEF Held, In
<1>6. waiting = Cardinality(Held(generation))
  BY DEF BarrierInv, ArrivalsCounted, Held
<1>7. Cardinality(Held(generation) \cup {p}) = waiting + 1
  BY <1>5, <1>6, HeldFinite, FS_AddElement
<1>8. ArrivalsCounted'
  BY <1>3, <1>5, <1>7 DEF ArrivalsCounted, Held
<1>9. BarrierTypeOK'
  BY <1>3, PartiesPositive DEF BarrierInv, BarrierTypeOK, Arrive, IsLast
<1>10. \A q \in Procs : In(q, "barrier")' => call'[q].number <= generation'
  BY <1>1, <1>2, <1>3, <1>4 DEF BarrierInv, In
<1> QED
  BY <1>8, <1>9, <1>10 DEF BarrierInv

\* A caller leaves whose generation has passed, or one is taken off the count.
LEMMA LeaveKeeps ==
  ASSUME CallTypeOK, BarrierInv, NEW p \in Procs, Pass(p) \/ Withdraw(p)
  PROVE  BarrierInv'
<1>1. In(p, "barrier") /\ Returns(p) /\ UNCHANGED <<parties, generation>>
  BY DEF Pass, Withdraw, barrierVars
<1>2. \A q \in Procs : call'[q] = IF q = p THEN Idle ELSE call[q]
  BY <1>1 DEF CallTypeOK, Returns
<1>3. Held(generation)' = Held(generation) \ {p}
  BY <1>1, <1>2 DEF Held, In, Idle
<1>4. waiting = Cardinality(Held(generation)) /\ waiting \in Nat
  BY PartiesPositive DEF BarrierInv, BarrierTypeOK, ArrivalsCounted, Held
<1>5. \A q \in Procs : In(q, "barrier")' => call'[q].number <= generation'
  BY <1>1, <1>2 DEF BarrierInv, In, Idle
<1>6. CASE Pass(p)
  <2>1. p \notin Held(generation) /\ UNCHANGED waiting
    BY <1>6 DEF Pass, Held, barrierVars
  <2>2. Held(generation)' = Held(generation)
    BY <1>3, <2>1
  <2>3. ArrivalsCounted'
    BY <1>1, <1>4, <2>1, <2>2 DEF ArrivalsCounted, Held
  <2> QED
    BY <1>1, <1>5, <2>1, <2>3 DEF BarrierInv, BarrierTypeOK
<1>7. CASE Withdraw(p)
  <2>1. p \in Held(generation)
    BY <1>1, <1>7 DEF Withdraw, StillHeld, Held
  <2>2. Cardinality(Held(generation) \ {p}) = waiting - 1
    BY <1>4, <2>1, HeldFinite, FS_RemoveElement
  <2>3. waiting' = waiting - 1 /\ waiting > 0
    <3>1. Cardinality(Held(generation) \ {p}) \in Nat
      BY HeldFinite, FS_Subset, FS_CardinalityType
    <3> QED
      BY <1>4, <1>7, <2>2, <3>1 DEF Withdraw
  <2>4. ArrivalsCounted'
    BY <1>1, <1>3, <2>2, <2>3 DEF ArrivalsCounted, Held
  <2>5. BarrierTypeOK'
    BY <1>1, <2>3, PartiesPositive DEF BarrierInv, BarrierTypeOK
  <2> QED
    BY <1>5, <2>4, <2>5 DEF BarrierInv
<1> QED
  BY <1>6, <1>7

LEMMA BarrierKeeps ==
  ASSUME CallTypeOK, BarrierInv,
         \/ \E p \in Procs : BarrierStep(p)
         \/ UNCHANGED barrierVars /\ LeavesCalls("barrier")
  PROVE  BarrierInv'
BY BarrierLeft, ArriveLastKeeps, ArriveKeeps, LeaveKeeps DEF BarrierStep, BarrierPoll
-----------------------------------------------------------------------------
(* Mutex *)

LEMMA MutexLeft ==
  ASSUME MutexInv, UNCHANGED mutexVars, LeavesCalls("lock")
  PROVE  MutexInv'
<1>1. \A p \in Procs : /\ In(p, "lock")' <=> In(p, "lock")
                       /\ In(p, "lock") => call'[p] = call[p]
  BY DEF LeavesCalls, In
<1> QED
  BY <1>1 DEF MutexInv, MutexTypeOK, mutexVars, Queued

\* A sequence without its element i.
LEMMA RemovedElement ==
  ASSUME NEW S, NEW s \in Seq(S), NEW i \in DOMAIN s
  PROVE  /\ RemoveAt(s, i) \in Seq(S)
         /\ Len(RemoveAt(s, i)) = Len(s) - 1
         /\ \A k \in 1..(Len(s) - 1) :
              RemoveAt(s, i)[k] = IF k < i THEN s[k] ELSE s[k + 1]
<1> DEFINE l == SubSeq(s, 1, i - 1)
           r == SubSeq(s, i + 1, Len(s))
<1>1. i \in 1..Len(s) /\ Len(s) \in Nat /\ \A k \in 1..Len(s) : s[k] \in S
  OBVIOUS
<1>2. l \in Seq(S) /\ Len(l) = i - 1 /\ \A k \in 1..(i - 1) : l[k] = s[k]
  <2>1. \A k \in 1..(i - 1) : s[k] \in S
    BY <1>1
  <2> QED
    BY <1>1, <2>1, SubSeqProperties
<1>3. r \in Seq(S) /\ Len(r) = Len(s) - i /\ \A k \in 1..(Len(s) - i) : r[k] = s[k + i]
  <2>1. \A k \in (i + 1)..Len(s) : s[k] \in S
    BY <1>1
  <2> QED
    BY <1>1, <2>1, SubSeqProperties
<1>4. RemoveAt(s, i) = l \o r
  BY DEF RemoveAt
<1> HIDE DEF l, r
<1>5. /\ l \o r \in Seq(S) /\ Len(l \o r) = Len(l) + Len(r)
      /\ \A k \in 1..(Len(l) + Len(r)) :
           (l \o r)[k] = IF k <= Len(l) THEN l[k] ELSE r[k - Len(l)]
  BY <1>2, <1>3, ConcatProperties
<1>6. Len(l) + Len(r) = Len(s) - 1
  BY <1>1, <1>2, <1>3
<1> SUFFICES ASSUME NEW k \in 1..(Len(s) - 1)
             PROVE  RemoveAt(s, i)[k] = IF k < i THEN s[k] ELSE s[k + 1]
  BY <1>4, <1>5, <1>6
<1>7. PICK n \in Nat : n = Len(s) /\ i \in 1..n /\ k \in 1..(n - 1)
  BY <1>1
<1>8. CASE k < i
  <2>1. k \in 1..(i - 1) /\ k <= Len(l)
    BY <1>2, <1>7, <1>8
  <2> QED
    BY <1>2, <1>4, <1>5, <1>6, <1>8, <2>1
<1>9. CASE k >= i
  <2>1. k - (i - 1) \in 1..(n - i) /\ (k - (i - 1)) + i = k + 1 /\ ~(k <= i - 1)
    BY <1>7, <1>9
  <2>2. (l \o r)[k] = r[k - (i - 1)]
    BY <1>2, <1>5, <1>6, <2>1
  <2>3. r[k - (i - 1)] = s[k + 1]
    BY <1>3, <1>7, <2>1
  <2> QED
    BY <1>4, <1>7, <1>9, <2>2, <2>3
<1> QED
  BY <1>7, <1>8, <1>9

LEMMA LockWaitKeeps ==
  ASSUME CallTypeOK, MutexInv, NEW p \in Procs, NEW scoped \in BOOLEAN, NEW timeout,
         LockWait(p, scoped, timeout)
  PROVE  MutexInv'
<1> DEFINE r == [Idle EXCEPT !.pc = "lock", !.scoped = scoped,
                             !.timed = timeout = "later"]
<1>1. r \in CallRecord /\ r.pc = "lock" /\ r.scoped = scoped
  BY LockRecord
<1>2. /\ call' = [call EXCEPT ![p] = r] /\ In(p, "idle") /\ MayEnter(p, scoped)
      /\ waiters' = Append(waiters, p) /\ UNCHANGED <<owner, sections>>
  BY DEF LockWait
<1> HIDE DEF r
<1>3. \A q \in Procs : call'[q] = IF q = p THEN r ELSE call[q]
  BY <1>2 DEF CallTypeOK
<1>4. /\ waiters \in Seq(Procs) /\ waiters' \in Seq(Procs)
      /\ Len(waiters') = Len(waiters) + 1 /\ waiters'[Len(waiters) + 1] = p
      /\ \A i \in DOMAIN waiters : waiters'[i] = waiters[i] /\ i \in DOMAIN waiters'
      /\ \A i \in DOMAIN waiters' : (i \in DOMAIN waiters \/ i = Len(waiters) + 1)
      /\ Len(waiters) + 1 \in DOMAIN waiters'
  BY <1>2 DEF MutexInv, MutexTypeOK
<1>5. ~Queued(p)
  BY <1>2 DEF MutexInv, In
<1>6. \A i, j \in DOMAIN waiters' : waiters'[i] = waiters'[j] => i = j
  BY <1>4, <1>5 DEF MutexInv, Queued
<1>7. \A q \in Procs : In(q, "lock")' <=> Queued(q)'
  BY <1>1, <1>3, <1>4 DEF MutexInv, Queued, In
<1>8. \A q \in Procs :
        In(q, "lock")' /\ call'[q].scoped => sections'[q] < MaxSections
  BY <1>1, <1>2, <1>3 DEF MutexInv, In, MayEnter
<1> QED
  BY <1>2, <1>4, <1>6, <1>7, <1>8 DEF MutexInv, MutexTypeOK

Distinct(n, s) == \A k, l \in 1..n : s[k] = s[l] => k = l

Among(n, s, q) == \E k \in 1..n : s[k] = q

\* t is s, of length n, without its element i.
Skips(n, s, i, t) == \A k \in 1..(n - 1) : t[k] = IF k < i THEN s[k] ELSE s[k + 1]

LEMMA OthersStay ==
  ASSUME NEW n \in Nat, NEW i \in 1..n, NEW s, NEW t, Distinct(n, s), Skips(n, s, i, t)
  PROVE  /\ Distinct(n - 1, t)
         /\ \A q : Among(n - 1, t, q) <=> Among(n, s, q) /\ q # s[i]
<1> USE DEF Distinct, Among, Skips
<1>1. \A k \in 1..(n - 1) : \E j \in 1..n :
        j # i /\ t[k] = s[j] /\ j = (IF k < i THEN k ELSE k + 1)
  <2> SUFFICES ASSUME NEW k \in 1..(n - 1)
               PROVE  \E j \in 1..n :
                        j # i /\ t[k] = s[j] /\ j = (IF k < i THEN k ELSE k + 1)
    OBVIOUS
  <2>1. CASE k < i
    <3>1. k \in 1..n /\ k # i /\ t[k] = s[k]
      BY <2>1
    <3> QED
      BY <2>1, <3>1
  <2>2. CASE ~(k < i)
    <3>1. k + 1 \in 1..n /\ k + 1 # i /\ t[k] = s[k + 1]
      BY <2>2
    <3> QED
      BY <2>2, <3>1
  <2> QED
    BY <2>1, <2>2
<1>2. \A k, l \in 1..(n - 1) : t[k] = t[l] => k = l
  BY <1>1
<1>3. ASSUME NEW q, NEW k \in 1..(n - 1), t[k] = q
      PROVE  (\E j \in 1..n : s[j] = q) /\ q # s[i]
  BY <1>1, <1>3
<1>4. ASSUME NEW q, NEW j \in 1..n, s[j] = q, q # s[i]
      PROVE  \E k \in 1..(n - 1) : t[k] = q
  <2>1. CASE j < i
    <3>1. j \in 1..(n - 1) /\ t[j] = s[j]
      BY <2>1
    <3> QED
      BY <1>4, <3>1
  <2>2. CASE j > i
    <3>1. j - 1 \in 1..(n - 1) /\ ~(j - 1 < i) /\ (j - 1) + 1 = j
      BY <2>2
    <3>2. t[j - 1] = s[j]
      BY <3>1
    <3> QED
      BY <1>4, <3>1, <3>2
  <2> QED
    BY <1>4, <2>1, <2>2
<1> QED
  BY <1>2, <1>3, <1>4

\* A caller at place i of the queue leaves it.
LEMMA UnqueuedKeeps ==
  ASSUME CallTypeOK, MutexInv, NEW p \in Procs, In(p, "lock"), Returns(p),
         NEW i \in DOMAIN waiters, waiters[i] = p,
         waiters' \in Seq(Procs), Len(waiters') = Len(waiters) - 1,
         \A k \in 1..(Len(waiters) - 1) :
           waiters'[k] = IF k < i THEN waiters[k] ELSE waiters[k + 1],
         sections' \in [Procs -> 0..MaxSections], owner' \in Procs \cup {None},
         \A q \in Procs \ {p} : sections'[q] = sections[q]
  PROVE  MutexInv'
<1>1. \A q \in Procs : call'[q] = IF q = p THEN Idle ELSE call[q]
  BY DEF CallTypeOK, Returns
<1>2. waiters \in Seq(Procs) /\ Len(waiters) \in Nat
      /\ DOMAIN waiters = 1..Len(waiters) /\ DOMAIN waiters' = 1..(Len(waiters) - 1)
  BY DEF MutexInv, MutexTypeOK
<1>3. i \in 1..Len(waiters)
      /\ \A k, l \in 1..Len(waiters) : waiters[k] = waiters[l] => k = l
  BY <1>2 DEF MutexInv
<1>4. /\ \A k, l \in DOMAIN waiters' : waiters'[k] = waiters'[l] => k = l
      /\ \A q \in Procs : Queued(q)' <=> Queued(q) /\ q # p
  <2> DEFINE n == Len(waiters)
             t == waiters'
  <2>1. n \in Nat /\ i \in 1..n /\ Distinct(n, waiters) /\ Skips(n, waiters, i, t)
    BY <1>2, <1>3 DEF Distinct, Skips
  <2>2. DOMAIN waiters = 1..n /\ DOMAIN t = 1..(n - 1)
    BY <1>2
  <2> HIDE DEF n, t
  <2>3. /\ Distinct(n - 1, t)
        /\ \A q : Among(n - 1, t, q) <=> Among(n, waiters, q) /\ q # waiters[i]
    BY <2>1, OthersStay
  <2>4. \A k, l \in DOMAIN t : t[k] = t[l] => k = l
    BY <2>2, <2>3 DEF Distinct
  <2>5. \A q \in Procs : (\E k \in DOMAIN t : t[k] = q) <=> Queued(q) /\ q # p
    BY <2>2, <2>3 DEF Queued, Among
  <2> QED
    BY <2>4, <2>5 DEF Queued, t
<1>5. \A q \in Procs : In(q, "lock")' <=> Queued(q)'
  BY <1>1, <1>4 DEF MutexInv, In, Idle
<1>6. \A q \in Procs :
        In(q, "lock")' /\ call'[q].scoped => sections'[q] < MaxSections
  BY <1>1 DEF MutexInv, In, Idle
<1> QED
  BY <1>4, <1>5, <1>6 DEF MutexInv, MutexTypeOK

LEMMA OwnsTyped ==
  ASSUME MutexTypeOK, NEW p \in Procs, NEW scoped \in BOOLEAN,
         scoped => sections[p] < MaxSections, Owns(p, scoped)
  PROVE  /\ owner' = p
         /\ sections' \in [Procs -> 0..MaxSections]
         /\ \A q \in Procs \ {p} : sections'[q] = sections[q]
BY MaxSectionsNat DEF MutexTypeOK, Owns

LEMMA LockKeeps ==
  ASSUME CallTypeOK, MutexInv, NEW p \in Procs, Lock(p)
  PROVE  MutexInv'
<1>1. In(p, "lock") /\ Returns(p) /\ waiters' = Tail(waiters)
      /\ Owns(p, call[p].scoped) /\ Head(waiters) = p
  BY DEF Lock, Granted
<1>2. waiters \in Seq(Procs) /\ waiters # <<>>
  <2>1. Queued(p)
    BY <1>1 DEF MutexInv
  <2> QED
    BY <2>1 DEF MutexInv, MutexTypeOK, Queued
<1>3. /\ 1 \in DOMAIN waiters /\ waiters[1] = p
      /\ waiters' \in Seq(Procs) /\ Len(waiters') = Len(waiters) - 1
      /\ \A k \in 1..(Len(waiters) - 1) : waiters'[k] = waiters[k + 1]
  BY <1>1, <1>2
<1>4. call[p].scoped \in BOOLEAN
  BY DEF CallTypeOK, CallRecord
<1>5. /\ owner' = p
      /\ sections' \in [Procs -> 0..MaxSections]
      /\ \A q \in Procs \ {p} : sections'[q] = sections[q]
  BY <1>1, <1>4, OwnsTyped DEF MutexInv
<1>6. \A k \in 1..(Len(waiters) - 1) :
        waiters'[k] = IF k < 1 THEN waiters[k] ELSE waiters[k + 1]
  BY <1>3
<1> QED
  BY <1>1, <1>3, <1>5, <1>6, UnqueuedKeeps

LEMMA LockGivesUpKeeps ==
  ASSUME CallTypeOK, MutexInv, NEW p \in Procs, LockGivesUp(p)
  PROVE  MutexInv'
<1> DEFINE i == CHOOSE k \in DOMAIN waiters : waiters[k] = p
<1>1. In(p, "lock") /\ Returns(p) /\ UNCHANGED <<owner, sections>>
      /\ waiters' = RemoveAt(waiters, i)
  BY DEF LockGivesUp, Without
<1>2. i \in DOMAIN waiters /\ waiters[i] = p
  BY <1>1 DEF MutexInv, Queued
<1> HIDE DEF i
<1>3. waiters \in Seq(Procs)
  BY DEF MutexInv, MutexTypeOK
<1>4. /\ waiters' \in Seq(Procs)
      /\ Len(waiters') = Len(waiters) - 1
      /\ \A k \in 1..(Len(waiters) - 1) :
           waiters'[k] = IF k < i THEN waiters[k] ELSE waiters[k + 1]
  BY <1>1, <1>2, <1>3, RemovedElement
<1> QED
  BY <1>1, <1>2, <1>4, UnqueuedKeeps DEF MutexInv, MutexTypeOK

LEMMA MutexKeeps ==
  ASSUME CallTypeOK, MutexInv,
         \/ \E p \in Procs : MutexStep(p)
         \/ UNCHANGED mutexVars /\ LeavesCalls("lock")
  PROVE  MutexInv'
<1>1. ASSUME NEW p \in Procs, NEW scoped \in BOOLEAN, LockNow(p, scoped)
      PROVE  MutexInv'
  <2>1. In(p, "idle") /\ UNCHANGED <<waiters, call>>
    BY <1>1 DEF LockNow, callVars
  <2>2. /\ owner' = p
        /\ sections' \in [Procs -> 0..MaxSections]
        /\ \A q \in Procs \ {p} : sections'[q] = sections[q]
    BY <1>1, OwnsTyped DEF LockNow, MayEnter, MutexInv
  <2> QED
    BY <2>1, <2>2 DEF MutexInv, MutexTypeOK, In, Queued
<1>2. ASSUME NEW p \in Procs, Unlock(p)
      PROVE  MutexInv'
  BY <1>2 DEF Unlock, MutexInv, MutexTypeOK, In, Queued, callVars
<1>3. ASSUME NEW p \in Procs, EndSection(p)
      PROVE  MutexInv'
  <2>1. In(p, "idle") /\ UNCHANGED <<waiters, call>> /\ owner' \in Procs \cup {None}
    BY <1>3 DEF EndSection, Unlocked, callVars, MutexInv, MutexTypeOK
  <2>2. /\ sections' \in [Procs -> 0..MaxSections]
        /\ \A q \in Procs \ {p} : sections'[q] = sections[q]
    BY <1>3, MaxSectionsNat DEF EndSection, MutexInv, MutexTypeOK
  <2> QED
    BY <2>1, <2>2 DEF MutexInv, MutexTypeOK, In, Queued
<1> QED
  BY <1>1, <1>2, <1>3, MutexLeft, LockKeeps, LockGivesUpKeeps, LockWaitKeeps
  DEF MutexStep, MutexPoll
-----------------------------------------------------------------------------
(* Flow: how the items are shared out *)

Sharing == plan.policy \in {"chunks", "stride"}

\* The items of part w under the policies that share them out beforehand.
Mine(w) ==
  IF plan.policy = "chunks"
    THEN {i \in Items : w * ChunkSize <= i /\ i < (w + 1) * ChunkSize}
    ELSE {i \in Items : \E k \in Nat : i = w + k * plan.workers}

LEMMA PlanFacts ==
  ASSUME plan \in FlowPlans
  PROVE  /\ plan.policy \in Policies /\ plan.first \in BOOLEAN
         /\ plan.items \in Nat \ {0} /\ plan.workers \in Nat \ {0}
         /\ plan.workers <= plan.items
         /\ Items = 0..(plan.items - 1)
         /\ Parts = IF PerItem THEN Items ELSE 0..(plan.workers - 1)
BY PlansKnown DEF PlanRecord, Parts, PartsOf, PerItem, Items

LEMMA PartsCounted ==
  ASSUME plan \in FlowPlans
  PROVE  /\ IsFiniteSet(Parts) /\ Cardinality(Parts) \in Nat /\ 0 \in Parts
         /\ Parts = 0..(Cardinality(Parts) - 1)
         /\ ~PerItem => Cardinality(Parts) = plan.workers
<1>1. PICK n \in Nat \ {0} : Parts = 0..(n - 1) /\ (~PerItem => n = plan.workers)
  BY PlanFacts
<1>2. IsFiniteSet(Parts) /\ Cardinality(Parts) = n
  BY <1>1, FS_Interval
<1> QED
  BY <1>1, <1>2

LEMMA TimesGrows ==
  ASSUME NEW a \in Nat, NEW b \in Nat, a <= b, NEW c \in Nat
  PROVE  a * c <= b * c /\ a * c \in Nat /\ b * c \in Nat /\ (a + 1) * c = a * c + c
OBVIOUS

LEMMA Quotient ==
  ASSUME NEW a \in Nat, NEW b \in Nat \ {0}
  PROVE  /\ a \div b \in Nat /\ (a \div b) * b \in Nat
         /\ (a \div b) * b <= a /\ a < (a \div b) * b + b
OBVIOUS

\* The chunks cover the items, and not many more.
LEMMA ChunkFacts ==
  ASSUME plan \in FlowPlans
  PROVE  /\ ChunkSize \in Nat \ {0}
         /\ plan.workers * ChunkSize \in plan.items..(plan.items + plan.workers - 1)
<1> DEFINE n == plan.items
           m == plan.workers
           a == n + m - 1
           c == a \div m
<1>1. n \in Nat \ {0} /\ m \in Nat \ {0} /\ a \in Nat
  BY PlanFacts
<1>2. c \in Nat /\ c * m \in Nat /\ c * m <= a /\ a < c * m + m
  BY <1>1, Quotient
<1>3. ChunkSize = c
  BY DEF ChunkSize
<1> HIDE DEF c
<1>4. c * m >= n /\ c * m = m * c
  BY <1>1, <1>2
<1>5. c # 0
  BY <1>1, <1>4
<1> QED
  BY <1>1, <1>2, <1>3, <1>4, <1>5

LEMMA LesserOfTwo ==
  ASSUME NEW a \in Int, NEW b \in Int
  PROVE  /\ Min({a, b}) \in {a, b} /\ Min({a, b}) <= a /\ Min({a, b}) <= b
         /\ \A i \in Int : i < Min({a, b}) <=> i < a /\ i < b
<1>1. \E x \in {a, b} : \A y \in {a, b} : x <= y
  OBVIOUS
<1>2. Min({a, b}) \in {a, b} /\ \A y \in {a, b} : Min({a, b}) <= y
  BY <1>1 DEF Min
<1> QED
  BY <1>2

\* A part begins with its first item, and goes from each to the next, until it
\* has come to the end of its share.
LEMMA ShareFacts ==
  ASSUME plan \in FlowPlans, Sharing, NEW w \in Parts
  PROVE  /\ Share(w).from \in 0..(plan.items + plan.workers)
         /\ Share(w).from < Share(w).upto => Share(w).from \in Mine(w)
         /\ \A i \in Mine(w) : Share(w).from <= i /\ i < Share(w).upto
         /\ Share(w).by \in Nat \ {0} /\ Share(w).by <= plan.workers
         /\ Share(w).upto \in Int
         /\ \A j \in Mine(w) :
              /\ j + Share(w).by < Share(w).upto => j + Share(w).by \in Mine(w)
              /\ \A i \in Mine(w) : i > j => i >= j + Share(w).by
<1> DEFINE n == plan.items
           m == plan.workers
<1>1. n \in Nat \ {0} /\ m \in Nat \ {0} /\ Items = 0..(n - 1) /\ w \in 0..(m - 1)
  BY PlanFacts DEF PerItem, Sharing
<1>2. CASE plan.policy = "chunks"
  <2> DEFINE c == ChunkSize
  <2>1. c \in Nat \ {0} /\ m * c <= n + m - 1 /\ m * c \in Nat
    BY <1>1, ChunkFacts
  <2>2. /\ Share(w).from = w * c /\ Share(w).by = 1
        /\ Share(w).upto = Min({(w + 1) * c, n})
    BY <1>2 DEF Share
  <2>3. Mine(w) = {i \in 0..(n - 1) : w * c <= i /\ i < (w + 1) * c}
    BY <1>1, <1>2 DEF Mine
  <2> HIDE DEF c, n, m
  <2>4. w * c \in Nat /\ (w + 1) * c = w * c + c /\ w * c <= m * c
    BY <1>1, <2>1, TimesGrows
  <2>7. Share(w).from \in 0..(n + m)
    BY <1>1, <2>1, <2>2, <2>4
  <2>5. \A i \in Int : i < Share(w).upto <=> i < w * c + c /\ i < n
    <3>1. (w + 1) * c \in Int /\ n \in Int
      BY <1>1, <2>1, <2>4
    <3> DEFINE x == (w + 1) * c
    <3> HIDE DEF x
    <3>2. \A i \in Int : i < Min({x, n}) <=> i < x /\ i < n
      BY <3>1, LesserOfTwo DEF x
    <3> QED
      BY <2>2, <2>4, <3>2 DEF x
  <2>6. \A i \in Int : i \in Mine(w) <=> w * c <= i /\ i < Share(w).upto
    BY <1>1, <2>1, <2>3, <2>4, <2>5
  <2>8. Mine(w) \subseteq Int
    BY <2>3
  <2>9. Share(w).from \in Int /\ Share(w).by = 1 /\ Share(w).upto \in Int
    <3> DEFINE x == (w + 1) * c
    <3>1. x \in Int /\ n \in Int
      BY <1>1, <2>1, <2>4
    <3> HIDE DEF x
    <3>2. Min({x, n}) \in {x, n}
      BY <3>1, LesserOfTwo
    <3> QED
      BY <2>2, <2>4, <3>1, <3>2 DEF x
  <2>10. \A i \in Mine(w) : Share(w).from <= i /\ i < Share(w).upto
    BY <2>2, <2>6, <2>8
  <2>11. Share(w).from < Share(w).upto => Share(w).from \in Mine(w)
    <3>1. w * c <= Share(w).from
      BY <2>2, <2>4
    <3>2. Share(w).from \in Mine(w) <=>
            w * c <= Share(w).from /\ Share(w).from < Share(w).upto
      BY <2>6, <2>9
    <3> QED
      BY <3>1, <3>2
  <2>12. ASSUME NEW j \in Mine(w)
         PROVE  /\ j + 1 < Share(w).upto => j + 1 \in Mine(w)
                /\ \A i \in Mine(w) : i > j => i >= j + 1
    BY <2>2, <2>6, <2>8, <2>10, <2>4
  <2> QED
    BY <1>1, <2>7, <2>9, <2>10, <2>11, <2>12 DEF n, m
<1>3. CASE plan.policy = "stride"
  <2>1. Share(w).from = w /\ Share(w).by = m /\ Share(w).upto = n
    BY <1>3 DEF Share
  <2>2. Mine(w) = {i \in 0..(n - 1) : \E k \in Nat : i = w + k * m}
    BY <1>1, <1>3 DEF Mine
  <2> HIDE DEF n, m
  <2>3. w < n => w \in Mine(w)
    <3>1. w = w + 0 * m
      BY <1>1
    <3> QED
      BY <1>1, <2>2, <3>1
  <2>4. \A i \in Mine(w) : w <= i /\ i < n
    BY <1>1, <2>2, TimesGrows
  <2>5. ASSUME NEW j \in Mine(w)
        PROVE  /\ j + m < n => j + m \in Mine(w)
               /\ \A i \in Mine(w) : i > j => i >= j + m
    <3>1. PICK k \in Nat : j = w + k * m
      BY <2>2
    <3>2. k * m \in Nat /\ (k + 1) * m = k * m + m
      BY <1>1, TimesGrows
    <3>3. j + m = w + (k + 1) * m
      BY <1>1, <3>1, <3>2
    <3>4. ASSUME NEW i \in Mine(w), i > j
          PROVE  i >= j + m
      <4>1. PICK l \in Nat : i = w + l * m
        BY <2>2
      <4>2. l > k
        <5>1. l <= k => l * m <= k * m
          BY <1>1, TimesGrows
        <5> QED
          BY <1>1, <3>1, <3>2, <3>4, <4>1, <5>1
      <4>3. (k + 1) * m <= l * m /\ l * m \in Nat
        BY <1>1, <4>2, TimesGrows
      <4> QED
        BY <1>1, <3>3, <4>1, <4>3
    <3> QED
      BY <1>1, <2>2, <3>1, <3>2, <3>3, <3>4
  <2>6. Share(w).from \in 0..(n + m) /\ Share(w).upto \in Int
    BY <1>1, <2>1
  <2>8. Share(w).by \in Nat \ {0} /\ Share(w).by <= m
    BY <1>1, <2>1
  <2>9. /\ Share(w).from < Share(w).upto => Share(w).from \in Mine(w)
        /\ \A i \in Mine(w) : Share(w).from <= i /\ i < Share(w).upto
    BY <2>1, <2>3, <2>4
  <2>7. \A j \in Mine(w) :
          /\ j + Share(w).by < Share(w).upto => j + Share(w).by \in Mine(w)
          /\ \A i \in Mine(w) : i > j => i >= j + Share(w).by
    BY <2>1, <2>5
  <2> QED
    BY <2>6, <2>7, <2>8, <2>9 DEF n, m
<1> QED
  BY <1>2, <1>3 DEF Sharing

\* Every item is in one share.
LEMMA MineDisjoint ==
  ASSUME plan \in FlowPlans, Sharing, NEW v \in Parts, NEW w \in Parts,
         NEW i \in Mine(v), i \in Mine(w)
  PROVE  v = w
<1> DEFINE m == plan.workers
<1>1. m \in Nat \ {0} /\ v \in 0..(m - 1) /\ w \in 0..(m - 1) /\ i \in Nat
  <2>1. m \in Nat \ {0} /\ Parts = 0..(m - 1)
    BY PlanFacts DEF PerItem, Sharing
  <2>2. i \in Items /\ Items \subseteq Nat
    BY PlanFacts DEF Mine
  <2> QED
    BY <2>1, <2>2
<1>2. CASE plan.policy = "chunks"
  <2> DEFINE c == ChunkSize
  <2>1. /\ c \in Nat \ {0} /\ v * c <= i /\ i < (v + 1) * c
        /\ w * c <= i /\ i < (w + 1) * c
    BY <1>2, ChunkFacts DEF Mine
  <2> HIDE DEF c, m
  <2>2. ASSUME NEW a \in Nat, NEW b \in Nat, a < b, i < (a + 1) * c, b * c <= i
        PROVE  FALSE
    <3>1. (a + 1) * c <= b * c /\ b * c \in Nat /\ (a + 1) * c \in Nat
      BY <2>1, <2>2, TimesGrows
    <3> QED
      BY <1>1, <2>2, <3>1
  <2> QED
    BY <1>1, <2>1, <2>2
<1>3. CASE plan.policy = "stride"
  <2>1. PICK k \in Nat : i = v + k * m
    BY <1>3 DEF Mine
  <2>2. PICK l \in Nat : i = w + l * m
    BY <1>3 DEF Mine
  <2> HIDE DEF m
  <2>3. ASSUME NEW a \in Nat, NEW b \in Nat, a < b, NEW x \in 0..(m - 1),
               NEW y \in Nat, x + a * m = y + b * m
        PROVE  FALSE
    <3>1. (a + 1) * m <= b * m /\ (a + 1) * m = a * m + m /\ a * m \in Nat /\ b * m \in Nat
      BY <1>1, <2>3, TimesGrows
    <3> QED
      BY <1>1, <2>3, <3>1
  <2>4. k = l
    BY <1>1, <2>1, <2>2, <2>3
  <2>5. k * m \in Nat
    BY <1>1
  <2> QED
    BY <1>1, <2>1, <2>2, <2>4, <2>5
<1> QED
  BY <1>2, <1>3 DEF Sharing

LEMMA MineCovers ==
  ASSUME plan \in FlowPlans, Sharing, NEW i \in Items
  PROVE  \E w \in Parts : i \in Mine(w)
<1> DEFINE n == plan.items
           m == plan.workers
<1>1. n \in Nat \ {0} /\ m \in Nat \ {0} /\ i \in 0..(n - 1) /\ Parts = 0..(m - 1)
  BY PlanFacts DEF PerItem, Sharing
<1>2. CASE plan.policy = "chunks"
  <2> DEFINE c == ChunkSize
             w == i \div c
  <2>1. c \in Nat \ {0} /\ n <= m * c /\ m * c \in Nat
    BY <1>1, ChunkFacts
  <2>2. w \in Nat /\ w * c <= i /\ i < w * c + c
    <3> HIDE DEF c
    <3> QED
      BY <1>1, <2>1, Quotient
  <2> HIDE DEF c, w
  <2>3. w * c \in Nat /\ (w + 1) * c = w * c + c
    BY <2>1, <2>2, TimesGrows
  <2>4. w < m
    <3>1. m <= w => m * c <= w * c
      BY <1>1, <2>1, <2>2, TimesGrows
    <3> QED
      BY <1>1, <2>1, <2>2, <2>3, <3>1
  <2> QED
    BY <1>1, <1>2, <2>2, <2>3, <2>4 DEF Mine, c
<1>3. CASE plan.policy = "stride"
  <2> DEFINE k == i \div m
             w == i - k * m
  <2>1. k \in Nat /\ k * m \in Nat /\ k * m <= i /\ i < k * m + m
    <3> HIDE DEF m
    <3> QED
      BY <1>1, Quotient
  <2> HIDE DEF k, m
  <2>2. w \in Parts /\ i = w + k * m
    BY <1>1, <2>1
  <2> QED
    BY <1>3, <2>1, <2>2 DEF Mine, m
<1> QED
  BY <1>2, <1>3 DEF Sharing
-----------------------------------------------------------------------------
(* Flow: the inductive invariant *)

Pc(w) == part[w].pc

Place(w) == part[w].index

\* The function was called with the item of part w, whose outcome is not recorded.
InFlight(w) == Pc(w) \in {"runs", "fails"}

Gathering == \E p \in Procs : In(p, "gather")

\* One call gathers, once, and only when it leaves does it cancel parts.
FlowPhases ==
  /\ \A p, q \in Procs : In(p, "gather") /\ In(q, "gather") => p = q
  /\ Gathering => answer = "none"
  /\ Gathering \/ answer # "none" => \A w \in Parts : Pc(w) # "new"
  /\ answer = "none" => asked = {}
  /\ \A w \in Parts : Pc(w) = "cancelled" => w \in asked
  /\ \A w \in seen : Ended(w)

\* Tasks of one item do not look for another, parts of several do not fail.
PartKinds ==
  \A w \in Parts :
    Pc(w) \notin (IF PerItem THEN {"looks", "fails"} ELSE {"failed", "probed"})

\* The results of tasks of one item are those that were accepted.
TasksRun ==
  PerItem =>
    /\ \A w \in Parts :
         /\ Pc(w) \in {"new", "queued"} => runs[w] = 0
         /\ Pc(w) \in {"runs", "done", "failed", "probed"} => runs[w] = 1
    /\ completed = {w \in seen : Pc(w) = "done"}
    /\ failures = seen \ completed
    /\ plan.first /\ answer = "none" => failures = {}

\* Which items of its share a part has run is said by its place.
ShareRuns(w) ==
  /\ Pc(w) = "looks" => Place(w) \in Mine(w) \/ Place(w) >= Share(w).upto
  /\ InFlight(w) => Place(w) \in Mine(w)
  /\ \A i \in Mine(w) :
       /\ Pc(w) \in {"new", "queued"} => runs[i] = 0
       /\ Pc(w) = "looks" => (runs[i] = 1 <=> i < Place(w))
       /\ InFlight(w) => (runs[i] = 1 <=> i <= Place(w))
       /\ Pc(w) = "done" /\ ~halted => runs[i] = 1

SharesRun == Sharing => \A w \in Parts : ShareRuns(w)

\* The items that were drawn are those below next_index, which every part passes
\* once at most.
DrawsRun ==
  Draws =>
    /\ \A i \in Items : runs[i] = 1 <=> i < nextItem
    /\ \A w \in Parts : InFlight(w) => Place(w) \in Items /\ Place(w) < nextItem
    /\ \A v, w \in Parts :
         InFlight(v) /\ InFlight(w) /\ Place(v) = Place(w) => v = w
    /\ \A w \in Parts : Pc(w) = "done" /\ ~halted => nextItem >= plan.items
    /\ nextItem <= plan.items + Cardinality({w \in Parts : Pc(w) = "done"})

\* Every item that was run is recorded once, or will be, until a failure or the end
\* of the call makes parts drop what they have.
RecordsKept ==
  ~PerItem =>
    /\ completed \cap failures = {}
    /\ \A i \in completed \cup failures : runs[i] = 1
    /\ \A w \in Parts : InFlight(w) => Place(w) \notin completed \cup failures
    /\ answer = "none" /\ ~halted =>
         \A i \in Items :
           runs[i] = 1 => \/ i \in completed \cup failures
                          \/ \E w \in Parts : InFlight(w) /\ Place(w) = i

\* Under the policy First the part that stops the others is the only one to record
\* its failure.
OneFails ==
  ~PerItem /\ answer = "none" =>
    /\ ~plan.first => ~halted
    /\ plan.first =>
         /\ \A v, w \in Parts : Pc(v) = "fails" /\ Pc(w) = "fails" => v = w
         /\ failures # {} => \A w \in Parts : Pc(w) # "fails"
         /\ halted <=> failures # {} \/ \E w \in Parts : Pc(w) = "fails"
         /\ \A i, j \in failures : i = j

\* An answer that speaks of all items is given when all parts have ended.
AnswersSettle ==
  /\ FlowAnswersTrue
  /\ answer = "ok" \/ (answer = "failed" /\ ~PerItem) => \A w \in Parts : Ended(w)

FlowRuns == TasksRun /\ SharesRun /\ DrawsRun /\ RecordsKept /\ OneFails

FlowInv ==
  FlowTypeOK /\ FlowPhases /\ PartKinds /\ FlowRuns /\ AnswersSettle
-----------------------------------------------------------------------------
(* Flow: steps of the parts *)

PartRecord == [pc : PartStates, index : 0..(plan.items + plan.workers)]

\* Part w goes to pc, at place j.
Goes(w, pc, j) ==
  /\ part' = [part EXCEPT ![w] = [pc |-> pc, index |-> j]]
  /\ UNCHANGED gatherVars

LEMMA FlowTypes ==
  ASSUME FlowTypeOK
  PROVE  /\ plan \in FlowPlans
         /\ part \in [Parts -> PartRecord]
         /\ \A w \in Parts :
              Pc(w) \in PartStates /\ Place(w) \in 0..(plan.items + plan.workers)
BY DEF FlowTypeOK, PartRecord, Pc, Place

LEMMA WhereGoes ==
  ASSUME FlowTypeOK, NEW w \in Parts, NEW pc, NEW j, Goes(w, pc, j)
  PROVE  /\ Parts' = Parts /\ plan' = plan
         /\ Pc(w)' = pc /\ Place(w)' = j
         /\ \A v \in Parts \ {w} : Pc(v)' = Pc(v) /\ Place(v)' = Place(v)
BY FlowTypes DEF Goes, Pc, Place, Parts, gatherVars

\* What does not depend on which items were run.
LEMMA LiveGoes ==
  ASSUME FlowInv, NEW w \in Parts, Pc(w) \in {"queued", "looks", "runs", "fails"},
         NEW pc \in PartStates \ {"new"}, NEW j \in 0..(plan.items + plan.workers),
         Goes(w, pc, j),
         pc = "cancelled" => w \in asked,
         pc \notin (IF PerItem THEN {"looks", "fails"} ELSE {"failed", "probed"}),
         PerItem => failures' = failures,
         nextItem' \in 0..(plan.items + plan.workers), halted' \in BOOLEAN,
         completed' \subseteq Items, failures' \subseteq Items, runs' \in [Items -> 0..1]
  PROVE  FlowTypeOK' /\ FlowPhases' /\ PartKinds' /\ AnswersSettle'
<1>1. /\ Parts' = Parts /\ plan' = plan /\ Pc(w)' = pc
      /\ \A v \in Parts \ {w} : Pc(v)' = Pc(v)
  BY WhereGoes DEF FlowInv
<1>2. UNCHANGED <<plan, asked, seen, cursor, answer, call>>
  BY DEF Goes, gatherVars, callVars
<1>3. Items' = Items
  BY <1>2 DEF Items
<1>4. FlowTypeOK'
  <2>1. part' \in [Parts -> PartRecord]
    BY FlowTypes DEF FlowInv, Goes, PartRecord
  <2> QED
    BY <1>1, <1>2, <1>3, <2>1 DEF FlowInv, FlowTypeOK, PartRecord
<1>5. ~Ended(w)
  BY DEF Ended, Pc
<1>6. FlowPhases'
  <2>1. w \notin seen
    BY <1>5 DEF FlowInv, FlowPhases
  <2>2. \A v \in seen : Ended(v)'
    BY <1>1, <2>1 DEF FlowInv, FlowPhases, FlowTypeOK, Ended, Pc
  <2>3. \A p \in Procs : In(p, "gather")' <=> In(p, "gather")
    BY <1>2 DEF In
  <2>4. \A v \in Parts : /\ Pc(v) # "new" => Pc(v)' # "new"
                         /\ Pc(v)' = "cancelled" => v \in asked
    BY <1>1 DEF FlowInv, FlowPhases
  <2>5. Gathering' <=> Gathering
    BY <2>3 DEF Gathering
  <2> QED
    BY <1>1, <1>2, <2>2, <2>3, <2>4, <2>5 DEF FlowInv, FlowPhases
<1>7. PartKinds'
  BY <1>1, <1>2 DEF FlowInv, PartKinds, PerItem
<1>8. AnswersSettle'
  <2>1. answer # "ok" /\ (answer = "failed" => PerItem)
    BY <1>5 DEF FlowInv, AnswersSettle
  <2> QED
    BY <1>2, <2>1 DEF FlowInv, AnswersSettle, FlowAnswersTrue, PerItem
<1> QED
  BY <1>4, <1>6, <1>7, <1>8

\* Tasks of one item: none of the rest is about them.
LEMMA TasksSuffice ==
  ASSUME PerItem, plan' = plan, TasksRun'
  PROVE  FlowRuns'
BY DEF PerItem, FlowRuns, SharesRun, DrawsRun, RecordsKept, OneFails, Sharing, Draws

LEMMA PlanSame ==
  ASSUME plan' = plan
  PROVE  /\ Parts' = Parts /\ Items' = Items /\ PerItem' = PerItem /\ Draws' = Draws
         /\ Sharing' = Sharing
         /\ \A w : Mine(w)' = Mine(w) /\ Share(w)' = Share(w)
BY DEF Parts, Items, PerItem, Draws, Sharing, Mine, Share, ChunkSize

LEMMA PolicyCases ==
  ASSUME plan \in FlowPlans
  PROVE  /\ PerItem => ~Sharing /\ ~Draws
         /\ ~PerItem => Sharing \/ Draws
         /\ Sharing => ~Draws
BY PlanFacts DEF PerItem, Sharing, Draws, Policies

\* The items in flight were run, and are in one part each.
LEMMA InFlightApart ==
  ASSUME FlowInv, ~PerItem
  PROVE  /\ \A w \in Parts :
              InFlight(w) => Place(w) \in Items /\ runs[Place(w)] = 1
         /\ \A v, w \in Parts :
              InFlight(v) /\ InFlight(w) /\ Place(v) = Place(w) => v = w
<1>1. plan \in FlowPlans
  BY FlowTypes DEF FlowInv
<1>2. CASE Sharing
  <2>1. \A w \in Parts : InFlight(w) => Place(w) \in Mine(w) /\ runs[Place(w)] = 1
    <3> SUFFICES ASSUME NEW w \in Parts, InFlight(w)
                 PROVE  Place(w) \in Mine(w) /\ runs[Place(w)] = 1
      OBVIOUS
    <3>1. ShareRuns(w) /\ Place(w) \in Nat
      BY <1>2, FlowTypes, PlanFacts DEF FlowInv, FlowRuns, SharesRun
    <3>2. Place(w) \in Mine(w)
      BY <3>1 DEF ShareRuns
    <3> QED
      BY <3>1, <3>2 DEF ShareRuns
  <2>2. \A w \in Parts : Mine(w) \subseteq Items
    BY DEF Mine
  <2> QED
    BY <1>1, <1>2, <2>1, <2>2, MineDisjoint
<1>3. CASE Draws
  BY <1>3 DEF FlowInv, FlowRuns, DrawsRun
<1> QED
  BY <1>1, <1>2, <1>3, PolicyCases

\* The parts but w have run what they had.
LEMMA OtherShares ==
  ASSUME FlowInv, plan' = plan, Sharing, NEW v \in Parts,
         part'[v] = part[v], halted => halted',
         \A i \in Mine(v) : runs'[i] = runs[i]
  PROVE  ShareRuns(v)'
<1>1. ShareRuns(v)
  BY DEF FlowInv, FlowRuns, SharesRun
<1>2. /\ Pc(v)' = Pc(v) /\ Place(v)' = Place(v) /\ InFlight(v)' = InFlight(v)
      /\ Mine(v)' = Mine(v) /\ Share(v)' = Share(v)
  BY PlanSame DEF Pc, Place, InFlight
<1> QED
  BY <1>1, <1>2 DEF ShareRuns

LEMMA SharesKept ==
  ASSUME FlowInv, NEW w \in Parts, NEW pc, NEW j, Goes(w, pc, j),
         halted => halted',
         Sharing => /\ ShareRuns(w)'
                    /\ \A i \in Items \ Mine(w) : runs'[i] = runs[i]
  PROVE  SharesRun'
<1> SUFFICES ASSUME Sharing, NEW v \in Parts, v # w PROVE ShareRuns(v)'
  BY PlanSame DEF SharesRun, Goes, gatherVars
<1>1. plan \in FlowPlans /\ plan' = plan /\ part'[v] = part[v]
  BY FlowTypes DEF FlowInv, Goes, gatherVars
<1>2. Mine(v) \subseteq Items /\ \A i \in Mine(v) : i \notin Mine(w)
  BY <1>1, MineDisjoint DEF Mine
<1> QED
  BY <1>1, <1>2, OtherShares

\* A part that takes nothing new and does not record anything.
LEMMA RecordsStay ==
  ASSUME FlowInv, NEW w \in Parts, NEW pc, NEW j, Goes(w, pc, j),
         UNCHANGED <<runs, completed, failures, halted>>,
         pc \notin {"runs", "fails"},
         InFlight(w) => answer # "none"
  PROVE  RecordsKept' /\ OneFails'
<1>1. /\ Parts' = Parts /\ plan' = plan
      /\ Pc(w)' = pc /\ Place(w)' = j
      /\ \A v \in Parts \ {w} : Pc(v)' = Pc(v) /\ Place(v)' = Place(v)
  BY WhereGoes DEF FlowInv
<1>2. answer' = answer /\ PerItem' = PerItem /\ Items' = Items
  BY PlanSame DEF Goes, gatherVars
<1>3. \A v \in Parts : /\ InFlight(v)' => v # w /\ InFlight(v)
                       /\ InFlight(v) /\ answer = "none" => v # w /\ InFlight(v)'
  BY <1>1 DEF InFlight
<1>4. RecordsKept'
  BY <1>1, <1>2, <1>3 DEF FlowInv, FlowRuns, RecordsKept
<1>5. \A v \in Parts : answer = "none" => (Pc(v)' = "fails" <=> Pc(v) = "fails")
  BY <1>1, <1>3 DEF InFlight
<1>6. OneFails'
  BY <1>1, <1>2, <1>5 DEF FlowInv, FlowRuns, OneFails
<1> QED
  BY <1>4, <1>6

\* The parts that are done.
Dones == {w \in Parts : Pc(w) = "done"}

LEMMA DonesGrow ==
  ASSUME FlowInv, NEW w \in Parts, Pc(w) # "done", NEW pc, NEW j, Goes(w, pc, j)
  PROVE  /\ Cardinality(Dones) \in Nat /\ Cardinality(Dones') \in Nat
         /\ Cardinality(Dones) <= Cardinality(Dones')
         /\ pc = "done" => Cardinality(Dones') = Cardinality(Dones) + 1
<1>1. /\ Parts' = Parts /\ Pc(w)' = pc
      /\ \A v \in Parts \ {w} : Pc(v)' = Pc(v)
  BY WhereGoes DEF FlowInv
<1>2. IsFiniteSet(Dones)
  BY FlowTypes, PartsCounted, FS_Subset DEF Dones, FlowInv
<1>3. w \notin Dones
  BY DEF Dones
<1>4. Dones' = IF pc = "done" THEN Dones \cup {w} ELSE Dones
  BY <1>1, <1>3 DEF Dones
<1>5. Cardinality(Dones) \in Nat /\ Cardinality(Dones \cup {w}) = Cardinality(Dones) + 1
  BY <1>2, <1>3, FS_AddElement, FS_CardinalityType
<1> QED
  BY <1>4, <1>5

LEMMA DrawsStay ==
  ASSUME FlowInv, NEW w \in Parts, Pc(w) # "done", NEW pc, NEW j, Goes(w, pc, j),
         UNCHANGED <<runs, nextItem>>, halted => halted',
         pc \in {"runs", "fails"} => InFlight(w) /\ j = Place(w),
         Draws /\ pc = "done" => halted
  PROVE  DrawsRun'
<1> SUFFICES ASSUME Draws PROVE DrawsRun'
  BY PlanSame DEF DrawsRun, Goes, gatherVars
<1>1. /\ Parts' = Parts /\ plan' = plan
      /\ Pc(w)' = pc /\ Place(w)' = j
      /\ \A v \in Parts \ {w} : Pc(v)' = Pc(v) /\ Place(v)' = Place(v)
  BY WhereGoes DEF FlowInv
<1>2. Items' = Items
  BY <1>1, PlanSame
<1>3. DrawsRun
  BY DEF FlowInv, FlowRuns
<1>4. \A v \in Parts : InFlight(v)' => InFlight(v) /\ Place(v)' = Place(v)
  BY <1>1 DEF InFlight
<1>5. \A v \in Parts : Pc(v)' = "done" /\ ~halted' => nextItem' >= plan.items
  BY <1>1, <1>3 DEF DrawsRun
<1>6. nextItem' <= plan'.items + Cardinality({v \in Parts : Pc(v) = "done"})'
  <2>1. nextItem \in Int /\ plan.items \in Int
    BY PlanFacts DEF FlowInv, FlowTypeOK
  <2>2. nextItem <= plan.items + Cardinality(Dones)
    BY <1>3 DEF DrawsRun, Dones
  <2>3. nextItem' <= plan'.items + Cardinality(Dones')
    BY <1>1, <2>1, <2>2, DonesGrow
  <2> QED
    BY <2>3 DEF Dones
<1> QED
  BY <1>1, <1>2, <1>3, <1>4, <1>5, <1>6 DEF DrawsRun

\* A part takes item j.
LEMMA TakesRecorded ==
  ASSUME FlowInv, ~PerItem, NEW w \in Parts, Pc(w) = "looks",
         NEW j \in Items, Goes(w, "runs", j),
         runs[j] = 0, runs' = [runs EXCEPT ![j] = @ + 1],
         UNCHANGED <<completed, failures, halted>>
  PROVE  RecordsKept' /\ OneFails'
<1>1. /\ Parts' = Parts /\ plan' = plan
      /\ Pc(w)' = "runs" /\ Place(w)' = j
      /\ \A v \in Parts \ {w} : Pc(v)' = Pc(v) /\ Place(v)' = Place(v)
  BY WhereGoes DEF FlowInv
<1>2. answer' = answer /\ PerItem' = PerItem /\ Items' = Items
  BY PlanSame DEF Goes, gatherVars
<1>3. \A i \in Items : runs'[i] = IF i = j THEN 1 ELSE runs[i]
  BY DEF FlowInv, FlowTypeOK
<1>4. /\ InFlight(w)' /\ ~InFlight(w)
      /\ \A v \in Parts \ {w} : InFlight(v)' = InFlight(v)
  BY <1>1 DEF InFlight
<1>5. completed \subseteq Items /\ failures \subseteq Items
  BY DEF FlowInv, FlowTypeOK
<1>6. RecordsKept
  BY DEF FlowInv, FlowRuns
<1>7. j \notin completed \cup failures
  BY <1>6 DEF RecordsKept
<1>8. RecordsKept'
  <2>1. \A i \in completed \cup failures : runs'[i] = 1
    BY <1>3, <1>5, <1>6 DEF RecordsKept
  <2>2. \A v \in Parts : InFlight(v)' => Place(v)' \notin completed \cup failures
    BY <1>1, <1>4, <1>6, <1>7 DEF RecordsKept
  <2>3. ASSUME answer = "none", ~halted, NEW i \in Items, runs'[i] = 1
        PROVE  i \in completed \cup failures \/ \E v \in Parts : InFlight(v)' /\ Place(v)' = i
    <3>1. CASE i = j
      BY <1>1, <1>4, <3>1
    <3>2. CASE i # j
      <4>1. i \in completed \cup failures \/ \E v \in Parts : InFlight(v) /\ Place(v) = i
        BY <1>3, <1>6, <2>3, <3>2 DEF RecordsKept
      <4> QED
        BY <1>1, <1>4, <4>1
    <3> QED
      BY <3>1, <3>2
  <2> QED
    BY <1>1, <1>2, <1>6, <2>1, <2>2, <2>3 DEF RecordsKept
<1>9. OneFails'
  <2>1. \A v \in Parts : Pc(v)' = "fails" <=> Pc(v) = "fails"
    BY <1>1
  <2> QED
    BY <1>1, <1>2, <2>1 DEF FlowInv, FlowRuns, OneFails
<1> QED
  BY <1>8, <1>9

\* What part w is left with when it goes on with its share.
LEMMA GoesOnShare ==
  ASSUME FlowInv, Sharing, NEW w \in Parts, InFlight(w), UNCHANGED runs,
         Goes(w, "looks", Place(w) + Share(w).by)
  PROVE  /\ ShareRuns(w)'
         /\ Place(w) + Share(w).by \in 0..(plan.items + plan.workers)
<1> DEFINE j == Place(w) + Share(w).by
<1>1. /\ plan' = plan /\ Pc(w)' = "looks" /\ Place(w)' = j
      /\ Mine(w)' = Mine(w) /\ Share(w)' = Share(w) /\ ~InFlight(w)'
  <2>1. Goes(w, "looks", j)
    OBVIOUS
  <2> HIDE DEF j
  <2>2. plan' = plan /\ Pc(w)' = "looks" /\ Place(w)' = j
    BY <2>1, WhereGoes DEF FlowInv
  <2> QED
    BY <2>2, PlanSame DEF InFlight
<1>2. /\ plan \in FlowPlans /\ Place(w) \in Mine(w)
      /\ \A i \in Mine(w) : runs[i] = 1 <=> i <= Place(w)
  BY FlowTypes DEF FlowInv, FlowRuns, SharesRun, ShareRuns
<1>3. /\ Share(w).by \in Nat \ {0} /\ Share(w).by <= plan.workers
      /\ Share(w).upto \in Int
      /\ Place(w) + Share(w).by < Share(w).upto => Place(w) + Share(w).by \in Mine(w)
      /\ \A i \in Mine(w) : i > Place(w) => i >= Place(w) + Share(w).by
  BY <1>2, ShareFacts
<1>4. /\ plan.items \in Nat /\ plan.workers \in Nat /\ Items \subseteq Nat
      /\ Place(w) <= plan.items - 1 /\ Mine(w) \subseteq Items
  BY <1>2, PlanFacts DEF Mine
<1>5. Place(w) \in Nat
  BY <1>2, <1>4
<1>8. Mine(w) \subseteq Int
  <2>1. Items \subseteq Int
    BY <1>2, PlanFacts
  <2> QED
    BY <2>1 DEF Mine
<1>6. \A i \in Mine(w) : runs[i] = 1 <=> i < j
  <2> SUFFICES ASSUME NEW i \in Mine(w)
               PROVE  i <= Place(w) <=> i < j
    BY <1>2 DEF j
  <2>1. i \in Int
    BY <1>8
  <2>2. i > Place(w) => i >= Place(w) + Share(w).by
    BY <1>3
  <2> QED
    BY <1>3, <1>5, <2>1, <2>2
<1>7. Place(w) + Share(w).by \in Mine(w) \/ Place(w) + Share(w).by >= Share(w).upto
  BY <1>3, <1>5
<1> QED
  BY <1>1, <1>3, <1>4, <1>5, <1>6, <1>7 DEF ShareRuns

LEMMA MovesGoes ==
  ASSUME FlowTypeOK, NEW w \in Parts, NEW pc, Moves(w, pc), UNCHANGED gatherVars
  PROVE  Goes(w, pc, Place(w))
<1>1. part[w] \in PartRecord
  BY FlowTypes
<1>2. [part[w] EXCEPT !.pc = pc] = [pc |-> pc, index |-> part[w].index]
  BY <1>1 DEF PartRecord
<1> QED
  BY <1>2 DEF Moves, Goes, Place

LEMMA GoesOnGoes ==
  ASSUME FlowTypeOK, NEW w \in Parts, GoesOn(w), UNCHANGED gatherVars
  PROVE  Goes(w, "looks", Place(w) + Share(w).by)
BY DEF GoesOn, Goes, Place

\* Nothing but the part changes, except that some item is counted or recorded.
LEMMA FlowTyped ==
  ASSUME FlowInv
  PROVE  /\ nextItem \in 0..(plan.items + plan.workers) /\ halted \in BOOLEAN
         /\ completed \subseteq Items /\ failures \subseteq Items
         /\ runs \in [Items -> 0..1]
         /\ plan \in FlowPlans
         /\ plan.items \in Nat \ {0} /\ plan.workers \in Nat \ {0}
         /\ \A i \in Items : i \in 0..(plan.items + plan.workers)
BY PlanFacts DEF FlowInv, FlowTypeOK

LEMMA RunsOnceMore ==
  ASSUME FlowInv, NEW j \in Items, runs[j] = 0, runs' = [runs EXCEPT ![j] = @ + 1]
  PROVE  runs' \in [Items -> 0..1] /\ \A i \in Items : runs'[i] = IF i = j THEN 1 ELSE runs[i]
BY FlowTyped

LEMMA LooksKind ==
  ASSUME FlowInv, NEW w \in Parts
  PROVE  /\ Pc(w) \in {"looks", "fails"} => ~PerItem
         /\ Pc(w) = part[w].pc
BY DEF FlowInv, PartKinds, Pc

LEMMA BeginKeeps ==
  ASSUME FlowInv, NEW w \in Parts, Begin(w)
  PROVE  FlowInv'
<1>1. /\ Pc(w) = "queued"
      /\ UNCHANGED <<gatherVars, nextItem, halted, completed, failures>>
  BY DEF Begin, Pc
<1>2. CASE PerItem
  <2>1. w \in Items /\ Items = Parts
    BY <1>2, FlowTyped, PlanFacts
  <2>2. Goes(w, "runs", w) /\ runs' = [runs EXCEPT ![w] = @ + 1]
    BY <1>1, <1>2 DEF Begin, Calls, Goes
  <2>3. runs[w] = 0
    BY <1>1, <1>2 DEF FlowInv, FlowRuns, TasksRun
  <2>4. runs' \in [Items -> 0..1] /\ \A i \in Items : runs'[i] = IF i = w THEN 1 ELSE runs[i]
    BY <2>1, <2>2, <2>3, RunsOnceMore
  <2>5. FlowTypeOK' /\ FlowPhases' /\ PartKinds' /\ AnswersSettle'
    BY <1>1, <1>2, <2>1, <2>2, <2>4, FlowTyped, LiveGoes DEF PartStates
  <2>6. TasksRun'
    <3>1. /\ Parts' = Parts /\ plan' = plan /\ Pc(w)' = "runs"
          /\ \A v \in Parts \ {w} : Pc(v)' = Pc(v)
      BY <2>2, WhereGoes DEF FlowInv
    <3>2. seen' = seen /\ answer' = answer /\ PerItem' = PerItem
      BY <1>1, PlanSame DEF gatherVars
    <3>3. w \notin seen
      BY <1>1 DEF FlowInv, FlowPhases, Ended, Pc
    <3>4. seen \subseteq Parts /\ TasksRun
      BY DEF FlowInv, FlowTypeOK, FlowRuns
    <3>5. {v \in seen : Pc(v) = "done"}' = {v \in seen : Pc(v) = "done"}
      BY <3>1, <3>2, <3>3, <3>4
    <3> QED
      BY <1>1, <1>2, <2>1, <2>4, <3>1, <3>2, <3>4, <3>5 DEF TasksRun
  <2> QED
    BY <1>1, <1>2, <2>5, <2>6, TasksSuffice DEF FlowInv, gatherVars
<1>3. CASE ~PerItem
  <2> DEFINE j == Share(w).from
  <2>1. Goes(w, "looks", j) /\ UNCHANGED runs
    BY <1>1, <1>3 DEF Begin, Goes
  <2>2. j \in 0..(plan.items + plan.workers)
    <3>1. CASE Sharing
      BY <3>1, FlowTyped, ShareFacts
    <3>2. CASE Draws
      BY <1>3, <3>2, FlowTyped, PlanFacts DEF Share, Draws
    <3> QED
      BY <1>3, <3>1, <3>2, FlowTyped, PolicyCases
  <2>3. ASSUME Sharing
        PROVE  ShareRuns(w)'
    <3>1. /\ plan \in FlowPlans /\ plan' = plan
          /\ \A i \in Mine(w) : runs[i] = 0
      BY <1>1, <2>3, FlowTyped DEF FlowInv, FlowRuns, SharesRun, ShareRuns, gatherVars
    <3>2. /\ Mine(w)' = Mine(w) /\ Share(w)' = Share(w)
      BY <3>1, PlanSame
    <3>3. /\ j < Share(w).upto => j \in Mine(w)
          /\ \A i \in Mine(w) : j <= i
          /\ j \in Int /\ Share(w).upto \in Int /\ Mine(w) \subseteq Int
      <4>1. Items \subseteq Int
        BY <3>1, PlanFacts
      <4>2. Mine(w) \subseteq Int
        BY <4>1 DEF Mine
      <4>3. /\ j < Share(w).upto => j \in Mine(w)
            /\ \A i \in Mine(w) : j <= i
            /\ Share(w).upto \in Int
        BY <2>3, <3>1, ShareFacts
      <4> QED
        BY <2>2, <4>2, <4>3
    <3> HIDE DEF j
    <3>4. Pc(w)' = "looks" /\ Place(w)' = j
      BY <2>1, WhereGoes DEF FlowInv
    <3>5. j \in Mine(w) \/ j >= Share(w).upto
      BY <3>3
    <3>6. \A i \in Mine(w) : runs[i] # 1 /\ ~(i < j)
      BY <3>1, <3>3
    <3> QED
      BY <2>1, <3>2, <3>4, <3>5, <3>6 DEF ShareRuns, InFlight
  <2> HIDE DEF j
  <2>4. SharesRun'
    BY <1>1, <2>1, <2>3, SharesKept
  <2>5. DrawsRun'
    BY <1>1, <2>1, DrawsStay
  <2>6. RecordsKept' /\ OneFails'
    BY <1>1, <2>1, RecordsStay DEF InFlight
  <2>7. TasksRun'
    BY <1>1, <1>3, PlanSame DEF TasksRun, gatherVars
  <2>8. FlowTypeOK' /\ FlowPhases' /\ PartKinds' /\ AnswersSettle'
    BY <1>1, <1>3, <2>1, <2>2, FlowTyped, LiveGoes DEF PartStates
  <2> QED
    BY <2>4, <2>5, <2>6, <2>7, <2>8 DEF FlowInv, FlowRuns
<1> QED
  BY <1>2, <1>3

\* A part ends that had no item, or is cancelled.
LEMMA StopsKeep ==
  ASSUME FlowInv, ~PerItem, NEW w \in Parts, Pc(w) \in {"looks", "runs"},
         NEW pc \in {"done", "cancelled"}, Goes(w, pc, Place(w)),
         pc = "done" => Pc(w) = "looks" /\ (halted \/ Exhausted(w)),
         pc = "cancelled" => w \in asked,
         UNCHANGED <<nextItem, halted, completed, failures, runs>>
  PROVE  FlowInv'
<1>1. plan' = plan /\ Pc(w)' = pc /\ Place(w)' = Place(w)
  BY WhereGoes DEF FlowInv
<1>2. Place(w) \in 0..(plan.items + plan.workers)
  BY FlowTypes DEF FlowInv
<1>3. FlowTypeOK' /\ FlowPhases' /\ PartKinds' /\ AnswersSettle'
  BY <1>2, FlowTyped, LiveGoes DEF PartStates
<1>4. TasksRun'
  BY <1>1, PlanSame DEF TasksRun
<1>5. ASSUME Sharing
      PROVE  ShareRuns(w)'
  <2>1. ShareRuns(w) /\ Mine(w)' = Mine(w)
    BY <1>1, <1>5, PlanSame DEF FlowInv, FlowRuns, SharesRun
  <2>2. ASSUME pc = "done", ~halted, NEW i \in Mine(w)
        PROVE  runs[i] = 1
    <3>1. Place(w) >= Share(w).upto
      BY <2>2, PolicyCases DEF Exhausted, Place
    <3>2. i < Share(w).upto /\ i \in Int /\ Share(w).upto \in Int
      <4>1. Items \subseteq Int
        BY FlowTyped, PlanFacts
      <4> QED
        BY <1>5, <4>1, FlowTyped, ShareFacts DEF Mine
    <3>3. i < Place(w)
      BY <1>2, <3>1, <3>2
    <3> QED
      BY <2>1, <2>2, <3>3 DEF ShareRuns
  <2> QED
    BY <1>1, <2>1, <2>2 DEF ShareRuns, InFlight
<1>6. SharesRun'
  BY <1>5, SharesKept
<1>7. DrawsRun'
  BY DrawsStay DEF Exhausted
<1>8. InFlight(w) => answer # "none"
  BY DEF FlowInv, FlowPhases, InFlight
<1>9. RecordsKept' /\ OneFails'
  BY <1>8, RecordsStay
<1> QED
  BY <1>3, <1>4, <1>6, <1>7, <1>9 DEF FlowInv, FlowRuns

LEMMA QuitKeeps ==
  ASSUME FlowInv, NEW w \in Parts, Quit(w) \/ Notice(w) \/ Unwinds(w)
  PROVE  FlowInv'
<1>1. \E pc \in {"done", "cancelled"} :
        /\ Moves(w, pc) /\ UNCHANGED gatherVars
        /\ pc = "done" => Pc(w) = "looks" /\ (halted \/ Exhausted(w))
        /\ pc = "cancelled" => w \in asked
        /\ Pc(w) \in {"looks", "runs"}
        /\ UNCHANGED <<nextItem, halted, completed, failures, runs>>
  BY DEF Quit, Notice, Unwinds, Pc
<1>2. ~PerItem
  BY LooksKind DEF Quit, Notice, Unwinds
<1> QED
  BY <1>1, <1>2, MovesGoes, StopsKeep DEF FlowInv

LEMMA TakeItemKeeps ==
  ASSUME FlowInv, NEW w \in Parts, TakeItem(w)
  PROVE  FlowInv'
<1>1. /\ Pc(w) = "looks" /\ ~halted /\ ~Exhausted(w) /\ ~PerItem
      /\ UNCHANGED <<gatherVars, halted, completed, failures>>
  BY LooksKind DEF TakeItem, Pc
<1>2. TasksRun'
  BY <1>1, PlanSame DEF TasksRun, gatherVars
<1>3. Place(w) \in 0..(plan.items + plan.workers) /\ Items \subseteq Int
  BY FlowTypes, FlowTyped, PlanFacts DEF FlowInv
<1>4. CASE Draws /\ nextItem >= plan.items
  <2>1. nextItem' = nextItem + 1 /\ Moves(w, "done") /\ UNCHANGED runs
    BY <1>3, <1>4, FlowTyped DEF TakeItem
  <2>2. Goes(w, "done", Place(w))
    BY <1>1, <2>1, MovesGoes DEF FlowInv
  <2>3. /\ Parts' = Parts /\ plan' = plan /\ Pc(w)' = "done"
        /\ \A v \in Parts \ {w} : Pc(v)' = Pc(v) /\ Place(v)' = Place(v)
    BY <2>2, WhereGoes DEF FlowInv
  <2>4. DrawsRun
    BY DEF FlowInv, FlowRuns
  <2>5. /\ nextItem <= plan.items + Cardinality(Dones)
        /\ Cardinality(Dones') = Cardinality(Dones) + 1 /\ Cardinality(Dones) \in Nat
    BY <1>1, <1>4, <2>2, <2>4, DonesGrow DEF DrawsRun, Dones
  <2>6. Cardinality(Dones') <= plan.workers
    <3>1. /\ IsFiniteSet(Parts) /\ Cardinality(Parts) = plan.workers
          /\ Dones' \subseteq Parts
      BY <1>1, <2>3, FlowTyped, PartsCounted DEF Dones
    <3> QED
      BY <3>1, FS_Subset
  <2>7. nextItem' <= plan.items + Cardinality(Dones')
        /\ nextItem' \in 0..(plan.items + plan.workers)
    BY <2>1, <2>5, <2>6, FlowTyped
  <2>8. DrawsRun'
    <3>1. \A v \in Parts : InFlight(v)' => InFlight(v) /\ Place(v)' = Place(v)
      BY <2>3 DEF InFlight
    <3>2. \A i \in Items : i < nextItem' <=> i < nextItem
      <4>1. \A i \in Items : i < plan.items /\ i \in Int
        BY FlowTyped, PlanFacts
      <4> QED
        BY <1>4, <2>1, <4>1, FlowTyped
    <3>3. nextItem' >= plan.items
      BY <1>4, <2>1, FlowTyped
    <3>4. Items' = Items
      BY <2>3, PlanSame
    <3>5. \A v \in Parts : InFlight(v) => Place(v) \in Items /\ Place(v) < nextItem'
      BY <1>4, <2>4, <3>2 DEF DrawsRun
    <3>6. nextItem' <= plan'.items + Cardinality({v \in Parts : Pc(v) = "done"})'
      BY <2>3, <2>7 DEF Dones
    <3> QED
      BY <1>4, <2>1, <2>3, <2>4, <3>1, <3>2, <3>3, <3>4, <3>5, <3>6 DEF DrawsRun
  <2>9. FlowTypeOK' /\ FlowPhases' /\ PartKinds' /\ AnswersSettle'
    BY <1>1, <1>3, <2>1, <2>2, <2>7, FlowTyped, LiveGoes DEF PartStates
  <2>10. RecordsKept' /\ OneFails'
    BY <1>1, <2>1, <2>2, RecordsStay DEF InFlight
  <2>11. SharesRun'
    BY <1>1, <1>4, <2>3, PlanSame, PolicyCases, FlowTyped DEF SharesRun
  <2> QED
    BY <1>2, <2>8, <2>9, <2>10, <2>11 DEF FlowInv, FlowRuns
<1>5. CASE ~(Draws /\ nextItem >= plan.items)
  <2> DEFINE j == IF Draws THEN nextItem ELSE Place(w)
  <2>1. /\ Goes(w, "runs", j) /\ runs' = [runs EXCEPT ![j] = @ + 1]
        /\ nextItem' = IF Draws THEN nextItem + 1 ELSE nextItem
    BY <1>1, <1>5, FlowTyped DEF TakeItem, Calls, Goes, Place
  <2>2. j \in Items /\ runs[j] = 0 /\ (Sharing => j \in Mine(w))
    <3>1. CASE Draws
      <4>1. nextItem \in Items
        BY <1>5, <3>1, FlowTyped, PlanFacts
      <4>2. runs[nextItem] # 1
        BY <3>1, <4>1, FlowTyped DEF FlowInv, FlowRuns, DrawsRun
      <4> QED
        BY <3>1, <4>1, <4>2, FlowTyped, PolicyCases
    <3>2. CASE Sharing
      <4>1. ShareRuns(w) /\ ~Draws /\ Share(w).upto \in Int
        BY <3>2, FlowTyped, PolicyCases, ShareFacts DEF FlowInv, FlowRuns, SharesRun
      <4>2. ~(Place(w) >= Share(w).upto)
        BY <1>1, <4>1 DEF Exhausted, Place
      <4>3. Place(w) \in Mine(w)
        BY <1>1, <4>1, <4>2 DEF ShareRuns
      <4>4. Place(w) \in Items /\ runs[Place(w)] # 1
        BY <1>1, <1>3, <4>1, <4>3 DEF ShareRuns, Mine
      <4> QED
        BY <4>1, <4>3, <4>4, FlowTyped
    <3> QED
      BY <1>1, <3>1, <3>2, FlowTyped, PolicyCases
  <2> HIDE DEF j
  <2>3. /\ runs' \in [Items -> 0..1]
        /\ \A i \in Items : runs'[i] = IF i = j THEN 1 ELSE runs[i]
    BY <2>1, <2>2, RunsOnceMore
  <2>4. j \in 0..(plan.items + plan.workers)
    BY <2>2, FlowTyped
  <2>5. nextItem' \in 0..(plan.items + plan.workers)
    BY <1>5, <2>1, FlowTyped
  <2>6. FlowTypeOK' /\ FlowPhases' /\ PartKinds' /\ AnswersSettle'
    BY <1>1, <2>1, <2>3, <2>4, <2>5, FlowTyped, LiveGoes DEF PartStates
  <2>7. RecordsKept' /\ OneFails'
    BY <1>1, <2>1, <2>2, TakesRecorded
  <2>8. /\ Parts' = Parts /\ plan' = plan /\ Pc(w)' = "runs" /\ Place(w)' = j
        /\ \A v \in Parts \ {w} : Pc(v)' = Pc(v) /\ Place(v)' = Place(v)
    BY <2>1, WhereGoes DEF FlowInv
  <2>9. SharesRun'
    <3>1. ASSUME Sharing
          PROVE  ShareRuns(w)' /\ \A i \in Items \ Mine(w) : runs'[i] = runs[i]
      <4>1. ShareRuns(w) /\ ~Draws /\ Mine(w)' = Mine(w) /\ j = Place(w)
        BY <2>8, <3>1, FlowTyped, PolicyCases, PlanSame
        DEF FlowInv, FlowRuns, SharesRun, j
      <4>2. Mine(w) \subseteq Items
        BY DEF Mine
      <4>3. \A i \in Mine(w) : runs'[i] = 1 <=> i <= j
        <5> SUFFICES ASSUME NEW i \in Mine(w) PROVE runs'[i] = 1 <=> i <= j
          OBVIOUS
        <5>1. i \in Int /\ j \in Int
          BY <1>3, <2>2, <4>2
        <5>2. runs[i] = 1 <=> i < j
          BY <1>1, <4>1 DEF ShareRuns
        <5>3. runs'[i] = IF i = j THEN 1 ELSE runs[i]
          BY <2>3, <4>2
        <5> QED
          BY <5>1, <5>2, <5>3
      <4> QED
        BY <2>2, <2>3, <2>8, <3>1, <4>1, <4>3 DEF ShareRuns, InFlight
    <3> QED
      BY <1>1, <2>1, <3>1, SharesKept
  <2>10. DrawsRun'
    <3> SUFFICES ASSUME Draws PROVE DrawsRun'
      BY <2>8, PlanSame DEF DrawsRun
    <3>1. DrawsRun /\ j = nextItem /\ nextItem' = nextItem + 1 /\ nextItem \in Nat
      BY <2>1, FlowTyped DEF FlowInv, FlowRuns, j
    <3>2. Items' = Items /\ halted' = halted
      BY <1>1, <2>8, PlanSame
    <3>3. \A i \in Items : runs'[i] = 1 <=> i < nextItem'
      <4> SUFFICES ASSUME NEW i \in Items PROVE runs'[i] = 1 <=> i < nextItem'
        OBVIOUS
      <4>1. i \in Int /\ (runs[i] = 1 <=> i < nextItem)
        BY <1>3, <3>1 DEF DrawsRun
      <4>2. runs'[i] = IF i = j THEN 1 ELSE runs[i]
        BY <2>3
      <4> QED
        BY <3>1, <4>1, <4>2
    <3>4. \A v \in Parts \ {w} : InFlight(v)' => InFlight(v)
      BY <2>8 DEF InFlight
    <3>5. \A v \in Parts \ {w} : InFlight(v)' =>
            Place(v)' \in Items /\ Place(v)' < nextItem /\ Place(v)' # j
      <4> SUFFICES ASSUME NEW v \in Parts \ {w}, InFlight(v)'
                   PROVE  Place(v) \in Items /\ Place(v) < nextItem /\ Place(v) # j
        BY <2>8
      <4>1. Place(v) \in Items /\ Place(v) < nextItem
        BY <3>1, <3>4 DEF DrawsRun
      <4> QED
        BY <1>3, <3>1, <4>1
    <3>6. \A v \in Parts : InFlight(v)' => Place(v)' \in Items /\ Place(v)' < nextItem'
      <4> SUFFICES ASSUME NEW v \in Parts, InFlight(v)'
                   PROVE  Place(v)' \in Items /\ Place(v)' < nextItem'
        OBVIOUS
      <4>1. CASE v = w
        BY <2>2, <2>8, <3>1, <4>1
      <4>2. CASE v # w
        <5>1. Place(v)' \in Items /\ Place(v)' < nextItem
          BY <3>5, <4>2
        <5>2. Place(v)' \in Int
          BY <1>3, <5>1
        <5> QED
          BY <3>1, <5>1, <5>2
      <4> QED
        BY <4>1, <4>2
    <3>7. \A u, v \in Parts :
            InFlight(u)' /\ InFlight(v)' /\ Place(u)' = Place(v)' => u = v
      BY <2>8, <3>1, <3>4, <3>5 DEF DrawsRun
    <3>8. \A v \in Parts : Pc(v)' = "done" /\ ~halted' => nextItem' >= plan.items
      BY <2>8, <3>1, <3>2, FlowTyped DEF DrawsRun
    <3>9. nextItem' <= plan'.items + Cardinality({v \in Parts : Pc(v) = "done"})'
      <4>1. nextItem' <= plan.items /\ plan' = plan
        BY <1>5, <2>8, <3>1, FlowTyped
      <4>2. Cardinality(Dones') \in Nat
        BY <1>1, <2>1, DonesGrow
      <4> QED
        BY <3>1, <4>1, <4>2, FlowTyped DEF Dones
    <3> QED
      BY <2>8, <3>2, <3>3, <3>6, <3>7, <3>8, <3>9 DEF DrawsRun
  <2> QED
    BY <1>2, <2>6, <2>7, <2>9, <2>10 DEF FlowInv, FlowRuns
<1> QED
  BY <1>4, <1>5

\* A task of one item ends with the call of the function.
LEMMA ItemEndsKeeps ==
  ASSUME FlowInv, NEW w \in Parts, ItemEnds(w)
  PROVE  FlowInv'
<1>1. PICK pc \in {"done", "failed", "probed", "cancelled"} :
        Moves(w, pc) /\ (pc = "cancelled" => w \in asked)
  BY DEF ItemEnds
<1>2. /\ PerItem /\ Pc(w) = "runs"
      /\ UNCHANGED <<gatherVars, nextItem, halted, completed, failures, runs>>
  BY DEF ItemEnds, Pc
<1>3. Goes(w, pc, Place(w))
  BY <1>1, <1>2, MovesGoes DEF FlowInv
<1>4. Place(w) \in 0..(plan.items + plan.workers)
  BY FlowTypes DEF FlowInv
<1>5. FlowTypeOK' /\ FlowPhases' /\ PartKinds' /\ AnswersSettle'
  BY <1>1, <1>2, <1>3, <1>4, FlowTyped, LiveGoes DEF PartStates
<1>6. TasksRun'
  <2>1. /\ Parts' = Parts /\ plan' = plan /\ Pc(w)' = pc
        /\ \A v \in Parts \ {w} : Pc(v)' = Pc(v)
    BY <1>3, WhereGoes DEF FlowInv
  <2>2. seen' = seen /\ answer' = answer /\ PerItem' = PerItem
    BY <1>2, PlanSame DEF gatherVars
  <2>3. w \notin seen
    BY <1>2 DEF FlowInv, FlowPhases, Ended, Pc
  <2>4. seen \subseteq Parts /\ TasksRun
    BY DEF FlowInv, FlowTypeOK, FlowRuns
  <2>5. {v \in seen : Pc(v) = "done"}' = {v \in seen : Pc(v) = "done"}
    BY <2>1, <2>2, <2>3, <2>4
  <2>6. runs[w] = 1
    BY <1>2, <2>4 DEF TasksRun
  <2> QED
    BY <1>1, <1>2, <2>1, <2>2, <2>4, <2>5, <2>6 DEF TasksRun
<1> QED
  BY <1>2, <1>5, <1>6, TasksSuffice DEF FlowInv, gatherVars

\* A part is through with an item, and goes on.
LEMMA ThroughKeeps ==
  ASSUME FlowInv, ~PerItem, NEW w \in Parts, InFlight(w),
         Goes(w, "looks", Place(w) + Share(w).by),
         UNCHANGED <<nextItem, halted, runs>>,
         completed' \subseteq Items, failures' \subseteq Items
  PROVE  /\ FlowTypeOK' /\ FlowPhases' /\ PartKinds' /\ AnswersSettle'
         /\ TasksRun' /\ SharesRun' /\ DrawsRun'
<1> DEFINE j == Place(w) + Share(w).by
<1>1. Goes(w, "looks", j)
  OBVIOUS
<1>2. j \in 0..(plan.items + plan.workers)
  <2>1. CASE Sharing
    BY <2>1, GoesOnShare
  <2>2. CASE Draws
    <3>1. Place(w) \in Items /\ Share(w).by = 1
      BY <2>2, InFlightApart DEF Share, Draws
    <3> QED
      BY <3>1, FlowTyped, PlanFacts
  <2> QED
    BY <2>1, <2>2, FlowTyped, PolicyCases
<1>3. Sharing => ShareRuns(w)'
  BY GoesOnShare
<1> HIDE DEF j
<1>4. plan' = plan
  BY <1>1, WhereGoes DEF FlowInv
<1>5. FlowTypeOK' /\ FlowPhases' /\ PartKinds' /\ AnswersSettle'
  BY <1>1, <1>2, FlowTyped, LiveGoes DEF PartStates, InFlight
<1>6. SharesRun'
  BY <1>1, <1>3, SharesKept
<1>7. DrawsRun'
  BY <1>1, DrawsStay DEF InFlight
<1>8. TasksRun'
  BY <1>4, PlanSame DEF TasksRun
<1> QED
  BY <1>5, <1>6, <1>7, <1>8

\* What is known when part w, which had an item in flight, has none any more.
LEMMA Landed ==
  ASSUME FlowInv, ~PerItem, NEW w \in Parts, InFlight(w), NEW j, Goes(w, "looks", j)
  PROVE  /\ Parts' = Parts /\ plan' = plan /\ Items' = Items /\ PerItem' = PerItem
         /\ answer' = answer
         /\ Place(w) \in Items /\ runs[Place(w)] = 1
         /\ ~InFlight(w)' /\ Pc(w)' # "fails"
         /\ \A v \in Parts \ {w} : /\ InFlight(v)' = InFlight(v) /\ Pc(v)' = Pc(v)
                                   /\ Place(v)' = Place(v)
                                   /\ InFlight(v) => Place(v) # Place(w)
<1>1. /\ Parts' = Parts /\ plan' = plan /\ Pc(w)' = "looks"
      /\ \A v \in Parts \ {w} : Pc(v)' = Pc(v) /\ Place(v)' = Place(v)
  BY WhereGoes DEF FlowInv
<1>2. Items' = Items /\ PerItem' = PerItem /\ answer' = answer
  BY <1>1, PlanSame DEF Goes, gatherVars
<1>3. /\ Place(w) \in Items /\ runs[Place(w)] = 1
      /\ \A v \in Parts \ {w} : InFlight(v) => Place(v) # Place(w)
  BY InFlightApart
<1>4. /\ ~InFlight(w)'
      /\ \A v \in Parts \ {w} : InFlight(v)' = InFlight(v)
  BY <1>1 DEF InFlight
<1> QED
  BY <1>1, <1>2, <1>3, <1>4

LEMMA SucceedsKeeps ==
  ASSUME FlowInv, NEW w \in Parts, Succeeds(w)
  PROVE  FlowInv'
<1> DEFINE j == Place(w) + Share(w).by
<1>1. /\ ~PerItem /\ Pc(w) = "runs" /\ InFlight(w)
      /\ completed' = completed \cup {Place(w)}
      /\ UNCHANGED <<gatherVars, nextItem, halted, failures, runs>>
  BY DEF Succeeds, Pc, Place, InFlight
<1>2. Goes(w, "looks", j)
  BY <1>1, GoesOnGoes DEF Succeeds, FlowInv
<1>3. Place(w) \in Items
  BY <1>1, InFlightApart
<1>4. /\ FlowTypeOK' /\ FlowPhases' /\ PartKinds' /\ AnswersSettle'
      /\ TasksRun' /\ SharesRun' /\ DrawsRun'
  BY <1>1, <1>2, <1>3, FlowTyped, ThroughKeeps
<1> HIDE DEF j
<1>5. RecordsKept /\ OneFails
  BY DEF FlowInv, FlowRuns
<1>6. Place(w) \notin failures
  BY <1>1, <1>5 DEF RecordsKept
<1>7. RecordsKept'
  <2>1. \A i \in completed' \cup failures' : runs'[i] = 1
    BY <1>1, <1>2, <1>5, Landed DEF RecordsKept
  <2>2. \A v \in Parts : InFlight(v)' => Place(v)' \notin completed' \cup failures'
    BY <1>1, <1>2, <1>5, Landed DEF RecordsKept
  <2>3. ASSUME answer = "none", ~halted, NEW i \in Items, runs[i] = 1
        PROVE  \/ i \in completed' \cup failures'
               \/ \E v \in Parts : InFlight(v)' /\ Place(v)' = i
    <3>1. i \in completed \cup failures \/ \E v \in Parts : InFlight(v) /\ Place(v) = i
      BY <1>1, <1>5, <2>3 DEF RecordsKept
    <3> QED
      BY <1>1, <1>2, <3>1, Landed
  <2>4. completed' \cap failures' = {}
    BY <1>1, <1>5, <1>6 DEF RecordsKept
  <2> QED
    BY <1>1, <1>2, <2>1, <2>2, <2>3, <2>4, Landed DEF RecordsKept
<1>8. OneFails'
  <2>1. \A v \in Parts : Pc(v)' = "fails" <=> Pc(v) = "fails"
    BY <1>1, <1>2, Landed
  <2> QED
    BY <1>1, <1>2, <1>5, <2>1, Landed DEF OneFails
<1> QED
  BY <1>4, <1>7, <1>8 DEF FlowInv, FlowRuns

LEMMA RecordedKeeps ==
  ASSUME FlowInv, NEW w \in Parts, Recorded(w)
  PROVE  FlowInv'
<1> DEFINE j == Place(w) + Share(w).by
<1>1. /\ Pc(w) = "fails" /\ InFlight(w)
      /\ failures' = failures \cup {Place(w)}
      /\ UNCHANGED <<gatherVars, nextItem, halted, completed, runs>>
  BY DEF Recorded, Pc, Place, InFlight
<1>2. ~PerItem
  BY <1>1, LooksKind
<1>3. Goes(w, "looks", j)
  BY <1>1, GoesOnGoes DEF Recorded, FlowInv
<1>4. Place(w) \in Items
  BY <1>1, <1>2, InFlightApart
<1>5. /\ FlowTypeOK' /\ FlowPhases' /\ PartKinds' /\ AnswersSettle'
      /\ TasksRun' /\ SharesRun' /\ DrawsRun'
  BY <1>1, <1>2, <1>3, <1>4, FlowTyped, ThroughKeeps
<1> HIDE DEF j
<1>6. RecordsKept /\ OneFails
  BY DEF FlowInv, FlowRuns
<1>7. Place(w) \notin completed
  BY <1>1, <1>2, <1>6 DEF RecordsKept
<1>8. RecordsKept'
  <2>1. \A i \in completed' \cup failures' : runs'[i] = 1
    BY <1>1, <1>2, <1>3, <1>6, Landed DEF RecordsKept
  <2>2. \A v \in Parts : InFlight(v)' => Place(v)' \notin completed' \cup failures'
    BY <1>1, <1>2, <1>3, <1>6, Landed DEF RecordsKept
  <2>3. ASSUME answer = "none", ~halted, NEW i \in Items, runs[i] = 1
        PROVE  \/ i \in completed' \cup failures'
               \/ \E v \in Parts : InFlight(v)' /\ Place(v)' = i
    <3>1. i \in completed \cup failures \/ \E v \in Parts : InFlight(v) /\ Place(v) = i
      BY <1>2, <1>6, <2>3 DEF RecordsKept
    <3> QED
      BY <1>1, <1>2, <1>3, <3>1, Landed
  <2>4. completed' \cap failures' = {}
    BY <1>1, <1>2, <1>6, <1>7 DEF RecordsKept
  <2> QED
    BY <1>1, <1>2, <1>3, <2>1, <2>2, <2>3, <2>4, Landed DEF RecordsKept
<1>9. OneFails'
  <2> SUFFICES ASSUME answer = "none", plan.first
               PROVE  /\ \A v \in Parts : Pc(v)' # "fails"
                      /\ halted
                      /\ failures = {}
    BY <1>1, <1>2, <1>3, <1>6, Landed DEF OneFails
  <2> QED
    BY <1>1, <1>2, <1>3, <1>6, Landed DEF OneFails
<1> QED
  BY <1>5, <1>8, <1>9 DEF FlowInv, FlowRuns

\* A part marks its failure, or drops it, since another has stopped the call.
LEMMA FailsKeeps ==
  ASSUME FlowInv, NEW w \in Parts, Fails(w)
  PROVE  FlowInv'
<1>1. /\ ~PerItem /\ Pc(w) = "runs" /\ InFlight(w)
      /\ UNCHANGED <<gatherVars, nextItem, completed, failures, runs>>
  BY DEF Fails, Pc, InFlight
<1>2. PICK first \in FailsFirst :
        /\ halted' = (halted \/ first)
        /\ IF first /\ halted THEN GoesOn(w) ELSE Moves(w, "fails")
  BY DEF Fails
<1>3. first \in BOOLEAN /\ (answer = "none" => first = plan.first)
  BY FlowTyped, PlanFacts DEF FailsFirst
<1>4. RecordsKept /\ OneFails
  BY DEF FlowInv, FlowRuns
<1>5. CASE first /\ halted
  <2> DEFINE j == Place(w) + Share(w).by
  <2>1. Goes(w, "looks", j) /\ halted /\ UNCHANGED halted
    BY <1>1, <1>2, <1>5, FlowTyped, GoesOnGoes DEF FlowInv
  <2>2. /\ FlowTypeOK' /\ FlowPhases' /\ PartKinds' /\ AnswersSettle'
        /\ TasksRun' /\ SharesRun' /\ DrawsRun'
    BY <1>1, <2>1, FlowTyped, ThroughKeeps
  <2> HIDE DEF j
  <2>3. RecordsKept'
    BY <1>1, <1>4, <2>1, Landed DEF RecordsKept
  <2>4. \A v \in Parts : Pc(v)' = "fails" <=> Pc(v) = "fails"
    BY <1>1, <2>1, Landed
  <2>5. OneFails'
    BY <1>1, <1>4, <2>1, <2>4, Landed DEF OneFails
  <2> QED
    BY <2>2, <2>3, <2>5 DEF FlowInv, FlowRuns
<1>6. CASE ~(first /\ halted)
  <2>1. Goes(w, "fails", Place(w))
    BY <1>1, <1>2, <1>6, MovesGoes DEF FlowInv
  <2>2. /\ Parts' = Parts /\ plan' = plan /\ Items' = Items /\ PerItem' = PerItem
        /\ answer' = answer /\ Pc(w)' = "fails" /\ Place(w)' = Place(w)
        /\ \A v \in Parts \ {w} : Pc(v)' = Pc(v) /\ Place(v)' = Place(v)
    BY <2>1, WhereGoes, PlanSame DEF FlowInv, Goes, gatherVars
  <2>3. \A v \in Parts : InFlight(v)' = InFlight(v) /\ Place(v)' = Place(v)
    BY <1>1, <2>2 DEF InFlight
  <2>4. halted' \in BOOLEAN /\ (halted => halted')
    BY <1>2, <1>3, FlowTyped
  <2>5. Place(w) \in 0..(plan.items + plan.workers)
    BY FlowTypes DEF FlowInv
  <2>6. FlowTypeOK' /\ FlowPhases' /\ PartKinds' /\ AnswersSettle'
    BY <1>1, <2>1, <2>4, <2>5, FlowTyped, LiveGoes DEF PartStates
  <2>7. TasksRun'
    BY <1>1, <2>2 DEF TasksRun
  <2>8. DrawsRun'
    BY <1>1, <2>1, <2>4, DrawsStay
  <2>9. SharesRun'
    <3>1. Sharing => ShareRuns(w)'
      BY <1>1, <2>2, <2>3, PlanSame DEF FlowInv, FlowRuns, SharesRun, ShareRuns
    <3> QED
      BY <1>1, <2>1, <2>4, <3>1, SharesKept
  <2>10. RecordsKept'
    BY <1>1, <1>4, <2>2, <2>3, <2>4 DEF RecordsKept
  <2>11. OneFails'
    <3> SUFFICES ASSUME answer = "none"
                 PROVE  /\ ~plan.first => ~halted'
                        /\ plan.first =>
                             /\ \A v \in Parts \ {w} : Pc(v) # "fails"
                             /\ failures = {}
                             /\ halted'
      BY <1>1, <1>4, <2>2 DEF OneFails
    <3>1. CASE plan.first
      <4>1. first /\ ~halted /\ halted'
        BY <1>2, <1>3, <1>6, <3>1
      <4> QED
        BY <1>1, <1>4, <3>1, <4>1 DEF OneFails
    <3>2. CASE ~plan.first
      BY <1>1, <1>2, <1>3, <1>4, <3>2, FlowTyped DEF OneFails
    <3> QED
      BY <3>1, <3>2
  <2> QED
    BY <2>6, <2>7, <2>8, <2>9, <2>10, <2>11 DEF FlowInv, FlowRuns
<1> QED
  BY <1>5, <1>6

LEMMA PartStepKeeps ==
  ASSUME FlowInv, NEW w \in Parts, PartStep(w)
  PROVE  FlowInv'
BY BeginKeeps, QuitKeeps, TakeItemKeeps, ItemEndsKeeps, SucceedsKeeps, FailsKeeps,
   RecordedKeeps DEF PartStep
-----------------------------------------------------------------------------
(* Flow: steps of the call *)

\* Only parts that have not begun change.
IdlePartsMove ==
  /\ part' \in [Parts -> PartRecord]
  /\ \A w \in Parts : \/ part'[w] = part[w]
                      \/ /\ Pc(w) \in {"new", "queued"}
                         /\ Pc(w)' \in {"queued", "cancelled"}

LEMMA IdlePartsKeep ==
  ASSUME FlowInv, IdlePartsMove, UNCHANGED <<plan, nextItem, halted, runs>>,
         ~PerItem => UNCHANGED <<completed, failures>>,
         answer' = answer \/ answer' # "none"
  PROVE  /\ PartKinds' /\ SharesRun' /\ DrawsRun' /\ RecordsKept' /\ OneFails'
         /\ \A w \in Parts : Ended(w) => Ended(w)' /\ Pc(w)' = Pc(w)
<1>1. /\ Parts' = Parts /\ Items' = Items /\ PerItem' = PerItem /\ Draws' = Draws
      /\ Sharing' = Sharing
      /\ \A w : Mine(w)' = Mine(w) /\ Share(w)' = Share(w)
  BY PlanSame
<1>2. \A w \in Parts :
        \/ Pc(w)' = Pc(w) /\ Place(w)' = Place(w)
        \/ Pc(w) \in {"new", "queued"} /\ Pc(w)' \in {"queued", "cancelled"}
  BY DEF IdlePartsMove, Pc, Place
<1>3. \A w \in Parts :
        /\ InFlight(w)' = InFlight(w) /\ (InFlight(w) => Place(w)' = Place(w))
        /\ Pc(w)' = "fails" <=> Pc(w) = "fails"
        /\ Pc(w)' = "done" <=> Pc(w) = "done"
        /\ Pc(w)' = "looks" <=> Pc(w) = "looks"
        /\ Pc(w)' \in {"new", "queued"} => Pc(w) \in {"new", "queued"}
        /\ Pc(w) = "looks" => Place(w)' = Place(w)
  BY <1>2 DEF InFlight
<1>4. PartKinds'
  BY <1>1, <1>2 DEF FlowInv, PartKinds
<1>5. SharesRun'
  <2> SUFFICES ASSUME Sharing, NEW w \in Parts PROVE ShareRuns(w)'
    BY <1>1 DEF SharesRun
  <2>1. ShareRuns(w)
    BY DEF FlowInv, FlowRuns, SharesRun
  <2> QED
    BY <1>1, <1>3, <2>1 DEF ShareRuns
<1>6. DrawsRun'
  <2> SUFFICES ASSUME Draws PROVE DrawsRun'
    BY <1>1 DEF DrawsRun
  <2>1. {w \in Parts : Pc(w) = "done"}' = {w \in Parts : Pc(w) = "done"}
    BY <1>1, <1>3
  <2>2. DrawsRun
    BY DEF FlowInv, FlowRuns
  <2> QED
    BY <1>1, <1>3, <2>1, <2>2 DEF DrawsRun
<1>7. RecordsKept'
  BY <1>1, <1>3 DEF FlowInv, FlowRuns, RecordsKept
<1>8. OneFails'
  BY <1>1, <1>3 DEF FlowInv, FlowRuns, OneFails
<1>9. \A w \in Parts : Ended(w) => Ended(w)' /\ Pc(w)' = Pc(w)
  BY <1>2 DEF Ended, Pc
<1> QED
  BY <1>4, <1>5, <1>6, <1>7, <1>8, <1>9

\* Whoever gathers is the only one, and no answer was given.
LEMMA WhoGathers ==
  ASSUME FlowInv, NEW p \in Procs, In(p, "gather")
  PROVE  /\ answer = "none" /\ asked = {}
         /\ \A w \in Parts : Pc(w) # "new" /\ Pc(w) # "cancelled"
         /\ \A q \in Procs : In(q, "gather") => q = p
BY DEF FlowInv, FlowPhases, Gathering

\* It returns, with an answer.
LEMMA ReturnEnds ==
  ASSUME CallTypeOK, FlowInv, NEW p \in Procs, In(p, "gather"), Returns(p),
         answer' # "none", Parts' = Parts,
         \A w \in Parts : /\ Pc(w) # "new" => Pc(w)' # "new"
                          /\ Pc(w)' = "cancelled" => w \in asked',
         \A w \in seen' : Ended(w)'
  PROVE  FlowPhases'
<1>1. \A q \in Procs : ~In(q, "gather")'
  BY WhoGathers DEF CallTypeOK, Returns, In, Idle
<1>2. \A w \in Parts : Pc(w)' # "new"
  BY WhoGathers
<1> QED
  BY <1>1, <1>2 DEF FlowPhases, Gathering

LEMMA ScatterKeeps ==
  ASSUME CallTypeOK, FlowInv, NEW p \in Procs, NEW timeout, Scatter(p, timeout)
  PROVE  FlowInv'
<1>1. /\ \A w \in Parts : Pc(w) = "new"
      /\ part' = [w \in Parts |-> [pc |-> "queued", index |-> 0]]
      /\ UNCHANGED <<plan, nextItem, halted, asked, completed, failures, runs, seen,
                     cursor, answer>>
  BY DEF Scatter, Pc
<1>2. \A w \in Parts : Pc(w)' = "queued"
  BY <1>1 DEF Pc
<1>3. 0 \in Parts
  BY FlowTyped, PartsCounted
<1>4. ~Gathering /\ answer = "none"
  BY <1>1, <1>3 DEF FlowInv, FlowPhases
<1>5. IdlePartsMove
  <2>1. [pc |-> "queued", index |-> 0] \in PartRecord
    BY FlowTyped DEF PartRecord, PartStates
  <2> QED
    BY <1>1, <1>2, <2>1 DEF IdlePartsMove
<1>6. /\ PartKinds' /\ SharesRun' /\ DrawsRun' /\ RecordsKept' /\ OneFails'
      /\ \A w \in Parts : Ended(w) => Ended(w)' /\ Pc(w)' = Pc(w)
  BY <1>1, <1>5, IdlePartsKeep
<1>7. Parts' = Parts /\ Items' = Items /\ PerItem' = PerItem
  BY <1>1, PlanSame
<1>8. seen \subseteq Parts
  BY DEF FlowInv, FlowTypeOK
<1>9. TasksRun'
  <2>1. \A w \in seen : Pc(w)' = Pc(w)
    BY <1>6, <1>8 DEF FlowInv, FlowPhases
  <2>2. {w \in seen : Pc(w) = "done"}' = {w \in seen : Pc(w) = "done"}
    BY <1>1, <2>1
  <2> QED
    BY <1>1, <1>2, <1>7, <2>2 DEF FlowInv, FlowRuns, TasksRun
<1>10. FlowTypeOK'
  BY <1>1, <1>5, <1>7 DEF FlowInv, FlowTypeOK, IdlePartsMove, PartRecord
<1>11. FlowPhases'
  <2>1. \A q \in Procs : In(q, "gather")' => q = p
    BY <1>4 DEF Scatter, CallTypeOK, In, Gathering
  <2>2. \A w \in seen : Ended(w)'
    BY <1>6, <1>8 DEF FlowInv, FlowPhases
  <2> QED
    BY <1>1, <1>2, <1>4, <1>7, <2>1, <2>2 DEF FlowInv, FlowPhases
<1>12. AnswersSettle'
  BY <1>1, <1>4 DEF AnswersSettle, FlowAnswersTrue
<1> QED
  BY <1>6, <1>9, <1>10, <1>11, <1>12 DEF FlowInv, FlowRuns

\* The call looks at the parts again, or passes one.
LEMMA CursorKeeps ==
  ASSUME FlowInv, NEW p \in Procs, LooksAgain(p) \/ Passes(p)
  PROVE  FlowInv'
<1>1. UNCHANGED <<plan, part, nextItem, halted, asked, completed, failures, runs,
                  seen, answer, call>>
  BY DEF LooksAgain, Passes, callVars
<1>2. /\ Parts' = Parts /\ Items' = Items /\ PerItem' = PerItem /\ Draws' = Draws
      /\ Sharing' = Sharing
      /\ \A w : Mine(w)' = Mine(w) /\ Share(w)' = Share(w)
  BY <1>1, PlanSame
<1>3. cursor' \in 0..Cardinality(Parts)
  BY FlowTyped, PartsCounted DEF LooksAgain, Passes, FlowInv, FlowTypeOK
<1>4. FlowTypeOK'
  BY <1>1, <1>2, <1>3 DEF FlowInv, FlowTypeOK
<1>5. IdlePartsMove
  BY <1>1, FlowTypes DEF FlowInv, IdlePartsMove
<1>6. PartKinds' /\ SharesRun' /\ DrawsRun' /\ RecordsKept' /\ OneFails'
  BY <1>1, <1>5, IdlePartsKeep
<1>7. /\ \A w \in Parts : Pc(w)' = Pc(w) /\ Ended(w)' = Ended(w)
      /\ \A q \in Procs : In(q, "gather")' = In(q, "gather")
  BY <1>1 DEF Pc, Ended, In
<1>8. seen \subseteq Parts
  BY DEF FlowInv, FlowTypeOK
<1>9. FlowPhases'
  BY <1>1, <1>2, <1>7, <1>8 DEF FlowInv, FlowPhases, Gathering
<1>10. TasksRun'
  <2>1. {w \in seen : Pc(w) = "done"}' = {w \in seen : Pc(w) = "done"}
    BY <1>1, <1>7, <1>8
  <2> QED
    BY <1>1, <1>2, <1>7, <2>1 DEF FlowInv, FlowRuns, TasksRun
<1>11. AnswersSettle'
  BY <1>1, <1>2, <1>7 DEF FlowInv, AnswersSettle, FlowAnswersTrue
<1> QED
  BY <1>4, <1>6, <1>9, <1>10, <1>11 DEF FlowInv, FlowRuns

LEMMA CancelUnfinishedMoves ==
  ASSUME FlowInv, NEW done, CancelUnfinished(done), UNCHANGED plan,
         \A w \in Parts : Pc(w) # "new" /\ Pc(w) # "cancelled"
  PROVE  /\ IdlePartsMove /\ asked' \subseteq Parts
         /\ \A w \in Parts : /\ Pc(w)' # "new"
                             /\ Pc(w)' = "cancelled" => w \in asked'
                             /\ Pc(w)' = Pc(w) \/ (Pc(w) = "queued" /\ Pc(w)' = "cancelled")
<1>1. \A w \in Parts : \/ part'[w] = part[w]
                       \/ /\ Pc(w) = "queued" /\ w \in asked'
                          /\ part'[w] = [part[w] EXCEPT !.pc = "cancelled"]
  BY DEF CancelUnfinished, Pc
<1>2. part \in [Parts -> PartRecord]
  BY FlowTypes DEF FlowInv
<1>3. \A w \in Parts : part'[w] \in PartRecord
  BY <1>1, <1>2 DEF PartRecord, PartStates
<1>4. part' \in [Parts -> PartRecord]
  <2>1. part' = [w \in Parts |-> part'[w]]
    BY DEF CancelUnfinished
  <2> QED
    BY <1>3, <2>1
<1>5. \A w \in Parts : \/ part'[w] = part[w] /\ Pc(w)' = Pc(w)
                       \/ Pc(w) = "queued" /\ w \in asked' /\ Pc(w)' = "cancelled"
  BY <1>1, <1>2 DEF PartRecord, Pc
<1>6. asked' \subseteq Parts
  BY DEF CancelUnfinished
<1>7. IdlePartsMove
  BY <1>4, <1>5 DEF IdlePartsMove
<1>8. \A w \in Parts : /\ Pc(w)' # "new"
                       /\ Pc(w)' = "cancelled" => w \in asked'
                       /\ Pc(w)' = Pc(w) \/ (Pc(w) = "queued" /\ Pc(w)' = "cancelled")
  <2> TAKE w \in Parts
  <2>1. CASE Pc(w)' = Pc(w)
    BY <2>1
  <2>2. CASE Pc(w) = "queued" /\ w \in asked' /\ Pc(w)' = "cancelled"
    BY <2>2
  <2> QED
    BY <1>5, <2>1, <2>2
<1> QED
  BY <1>6, <1>7, <1>8

LEMMA AbandonsKeeps ==
  ASSUME CallTypeOK, FlowInv, NEW p \in Procs, Abandons(p)
  PROVE  FlowInv'
<1>1. /\ In(p, "gather") /\ Returns(p) /\ CancelUnfinished(seen)
      /\ answer' \in {"cancelled", "timeout"}
      /\ UNCHANGED <<plan, nextItem, halted, completed, failures, runs, seen, cursor>>
  BY DEF Abandons, AtHead
<1>2. /\ answer = "none" /\ asked = {}
      /\ \A w \in Parts : Pc(w) # "new" /\ Pc(w) # "cancelled"
  BY <1>1, WhoGathers
<1>3. /\ IdlePartsMove /\ asked' \subseteq Parts
      /\ \A w \in Parts : /\ Pc(w)' # "new"
                          /\ Pc(w)' = "cancelled" => w \in asked'
                          /\ Pc(w)' = Pc(w) \/ (Pc(w) = "queued" /\ Pc(w)' = "cancelled")
  BY <1>1, <1>2, CancelUnfinishedMoves
<1>4. /\ PartKinds' /\ SharesRun' /\ DrawsRun' /\ RecordsKept' /\ OneFails'
      /\ \A w \in Parts : Ended(w) => Ended(w)' /\ Pc(w)' = Pc(w)
  BY <1>1, <1>3, IdlePartsKeep
<1>5. Parts' = Parts /\ Items' = Items /\ PerItem' = PerItem
  BY <1>1, PlanSame
<1>6. \A w \in seen : w \in Parts /\ Ended(w)' /\ Pc(w)' = Pc(w)
  BY <1>4 DEF FlowInv, FlowTypeOK, FlowPhases
<1>7. FlowTypeOK'
  BY <1>1, <1>3, <1>5 DEF FlowInv, FlowTypeOK, IdlePartsMove, PartRecord, FlowAnswers
<1>8. FlowPhases'
  BY <1>1, <1>3, <1>5, <1>6, ReturnEnds
<1>9. TasksRun'
  <2>1. {w \in seen : Pc(w) = "done"}' = {w \in seen : Pc(w) = "done"}
    BY <1>1, <1>6
  <2> QED
    BY <1>1, <1>3, <1>5, <2>1 DEF FlowInv, FlowRuns, TasksRun
<1>10. AnswersSettle'
  BY <1>1 DEF AnswersSettle, FlowAnswersTrue
<1> QED
  BY <1>4, <1>7, <1>8, <1>9, <1>10 DEF FlowInv, FlowRuns

\* When all parts have ended unhalted, all items were run.
LEMMA AllRun ==
  ASSUME FlowInv, ~PerItem, ~halted, \A w \in Parts : Pc(w) = "done"
  PROVE  \A i \in Items : runs[i] = 1
<1>1. CASE Sharing
  <2> SUFFICES ASSUME NEW i \in Items PROVE runs[i] = 1
    OBVIOUS
  <2>1. PICK w \in Parts : i \in Mine(w)
    BY <1>1, FlowTyped, MineCovers
  <2>2. ShareRuns(w)
    BY <1>1 DEF FlowInv, FlowRuns, SharesRun
  <2> QED
    BY <2>1, <2>2 DEF ShareRuns
<1>2. CASE Draws
  <2>1. DrawsRun /\ 0 \in Parts
    BY FlowTyped, PartsCounted DEF FlowInv, FlowRuns
  <2>2. nextItem >= plan.items
    BY <1>2, <2>1 DEF DrawsRun
  <2>3. \A i \in Items : i < nextItem
    BY <2>2, FlowTyped, PlanFacts
  <2> QED
    BY <1>2, <2>1, <2>3 DEF DrawsRun
<1> QED
  BY <1>1, <1>2, FlowTyped, PolicyCases

\* What the call may answer when all results were taken.
LEMMA AllEnded ==
  ASSUME FlowInv, answer = "none", asked = {}, seen = Parts
  PROVE  /\ ~(plan.first /\ failures # {}) =>
              /\ completed \cap failures = {} /\ completed \cup failures = Items
              /\ \A i \in Items : runs[i] = 1
              /\ plan.first => failures = {}
         /\ plan.first /\ failures # {} => Cardinality(failures) = 1
<1>1. \A w \in Parts : Ended(w) /\ Pc(w) # "cancelled"
  BY DEF FlowInv, FlowPhases
<1>2. CASE PerItem
  <2>1. TasksRun /\ Parts = Items
    BY <1>2, FlowTyped, PlanFacts DEF FlowInv, FlowRuns
  <2>2. \A w \in Parts : runs[w] = 1
    BY <1>1, <1>2, <2>1 DEF TasksRun, Ended, Pc
  <2>3. completed \subseteq Items /\ failures = Items \ completed
    BY <1>2, <2>1, FlowTyped DEF TasksRun
  <2>4. plan.first => failures = {}
    BY <1>2, <2>1 DEF TasksRun
  <2> QED
    BY <2>1, <2>2, <2>3, <2>4
<1>3. CASE ~PerItem
  <2>1. \A w \in Parts : Pc(w) = "done" /\ ~InFlight(w)
    BY <1>1, <1>3 DEF FlowInv, PartKinds, Ended, Pc, InFlight
  <2>2. RecordsKept /\ OneFails
    BY DEF FlowInv, FlowRuns
  <2>3. ~(plan.first /\ failures # {}) => ~halted
    BY <1>3, <2>1, <2>2 DEF OneFails
  <2>4. ASSUME ~halted
        PROVE  /\ \A i \in Items : runs[i] = 1
               /\ completed \cup failures = Items /\ completed \cap failures = {}
    <3>1. \A i \in Items : runs[i] = 1
      BY <1>3, <2>1, <2>4, AllRun
    <3>2. \A i \in Items : i \in completed \cup failures
      BY <1>3, <2>1, <2>2, <2>4, <3>1 DEF RecordsKept
    <3>3. completed \cap failures = {} /\ completed \subseteq Items /\ failures \subseteq Items
      BY <1>3, <2>2, FlowTyped DEF RecordsKept
    <3> QED
      BY <3>1, <3>2, <3>3
  <2>5. plan.first /\ failures # {} => \E x : failures = {x}
    BY <1>3, <2>2 DEF OneFails
  <2> QED
    BY <2>3, <2>4, <2>5, FS_Singleton
<1> QED
  BY <1>2, <1>3

LEMMA GatheredKeeps ==
  ASSUME CallTypeOK, FlowInv, NEW p \in Procs, Gathered(p)
  PROVE  FlowInv'
<1>1. /\ In(p, "gather") /\ Returns(p) /\ seen = Parts
      /\ answer' = IF plan.first /\ failures # {} THEN "failed" ELSE "ok"
      /\ UNCHANGED <<plan, part, nextItem, halted, asked, completed, failures, runs,
                     seen, cursor>>
  BY DEF Gathered, AtHead
<1>2. answer = "none" /\ asked = {}
  BY <1>1, WhoGathers
<1>3. Parts' = Parts /\ Items' = Items /\ PerItem' = PerItem
  BY <1>1, PlanSame
<1>4. \A w \in Parts : Ended(w) /\ Ended(w)' /\ Pc(w)' = Pc(w)
  BY <1>1 DEF FlowInv, FlowPhases, Ended, Pc
<1>5. IdlePartsMove
  BY <1>1, FlowTypes DEF FlowInv, IdlePartsMove
<1>6. PartKinds' /\ SharesRun' /\ DrawsRun' /\ RecordsKept' /\ OneFails'
  BY <1>1, <1>5, IdlePartsKeep
<1>7. FlowTypeOK'
  BY <1>1, <1>3 DEF FlowInv, FlowTypeOK, FlowAnswers
<1>8. FlowPhases'
  <2>1. \A w \in Parts : Pc(w) = "cancelled" => w \in asked
    BY DEF FlowInv, FlowPhases
  <2>2. answer' # "none"
    BY <1>1
  <2> QED
    BY <1>1, <1>3, <1>4, <2>1, <2>2, ReturnEnds
<1>9. TasksRun'
  <2>1. {w \in seen : Pc(w) = "done"}' = {w \in seen : Pc(w) = "done"}
    BY <1>1, <1>4
  <2> QED
    BY <1>1, <1>3, <1>4, <2>1 DEF FlowInv, FlowRuns, TasksRun
<1>10. AnswersSettle'
  <2>1. FlowAnswersTrue'
    BY <1>1, <1>2, <1>3, AllEnded DEF FlowAnswersTrue
  <2> QED
    BY <1>3, <1>4, <2>1 DEF AnswersSettle
<1> QED
  BY <1>6, <1>7, <1>8, <1>9, <1>10 DEF FlowInv, FlowRuns

LEMMA AcceptsKeeps ==
  ASSUME CallTypeOK, FlowInv, NEW p \in Procs, Accepts(p)
  PROVE  FlowInv'
<1> DEFINE w == cursor
           succeeded == Pc(w) = "done"
<1>1. /\ In(p, "gather") /\ w \notin seen /\ Ended(w) /\ Pc(w) # "probed"
      /\ seen' = seen \cup {w}
      /\ completed' = IF PerItem /\ succeeded THEN completed \cup {w} ELSE completed
      /\ failures' = IF succeeded THEN failures ELSE failures \cup {w}
      /\ UNCHANGED <<plan, nextItem, halted, runs>>
  BY DEF Accepts, HasResult, Pc
<1>2. w \in Parts
  <2>1. cursor < Cardinality(Parts) /\ cursor \in 0..Cardinality(Parts)
    BY DEF Accepts, FlowInv, FlowTypeOK
  <2> QED
    BY <2>1, FlowTyped, PartsCounted
<1>3. /\ answer = "none" /\ asked = {}
      /\ \A v \in Parts : Pc(v) # "new" /\ Pc(v) # "cancelled"
  BY <1>1, WhoGathers
<1>4. ~PerItem => succeeded
  BY <1>1, <1>2, <1>3 DEF FlowInv, PartKinds, Ended, Pc
<1>5. Parts' = Parts /\ Items' = Items /\ PerItem' = PerItem
  BY <1>1, PlanSame
<1>6. PerItem => w \in Items
  BY <1>2, FlowTyped, PlanFacts
<1>7. completed' \subseteq Items /\ failures' \subseteq Items /\ seen' \subseteq Parts
  BY <1>1, <1>2, <1>4, <1>6, FlowTyped DEF FlowInv, FlowTypeOK
<1>8. ASSUME \A v \in seen' : v \in Parts /\ Pc(v)' = Pc(v),
             \A v \in Parts : Pc(v)' = Pc(v) \/ (Pc(v) = "queued" /\ Pc(v)' = "cancelled"),
             succeeded \/ ~plan.first \/ answer' # "none"
      PROVE  TasksRun'
  <2> SUFFICES ASSUME PerItem PROVE TasksRun'
    BY <1>5 DEF TasksRun
  <2>1. TasksRun
    BY DEF FlowInv, FlowRuns
  <2>2. completed' = {v \in seen' : Pc(v)' = "done"}
    BY <1>1, <1>8, <2>1 DEF TasksRun
  <2>3. failures' = seen' \ completed'
    BY <1>1, <2>1 DEF TasksRun
  <2>4. \A v \in Parts : /\ Pc(v)' \in {"new", "queued"} => runs'[v] = 0
                         /\ Pc(v)' \in {"runs", "done", "failed", "probed"} => runs'[v] = 1
    BY <1>1, <1>8, <2>1 DEF TasksRun
  <2>5. plan.first /\ answer' = "none" => failures' = {}
    BY <1>1, <1>3, <1>8, <2>1 DEF TasksRun
  <2> QED
    BY <1>1, <1>5, <2>2, <2>3, <2>4, <2>5 DEF TasksRun
<1>9. CASE succeeded \/ ~plan.first
  <2>1. cursor' = cursor + 1 /\ UNCHANGED <<part, asked, answer, call>>
    BY <1>9 DEF Accepts, Pc
  <2>2. IdlePartsMove
    BY <2>1, FlowTypes DEF FlowInv, IdlePartsMove
  <2>3. PartKinds' /\ SharesRun' /\ DrawsRun' /\ RecordsKept' /\ OneFails'
    BY <1>1, <1>4, <2>1, <2>2, IdlePartsKeep
  <2>4. \A v \in Parts : Pc(v)' = Pc(v) /\ Ended(v)' = Ended(v)
    BY <2>1 DEF Pc, Ended
  <2>5. TasksRun'
    <3>1. \A v \in seen' : v \in Parts /\ Pc(v)' = Pc(v)
      BY <1>7, <2>4
    <3> QED
      BY <1>8, <1>9, <2>4, <3>1
  <2>6. cursor' \in 0..Cardinality(Parts)
    BY <2>1, FlowTyped, PartsCounted DEF Accepts, FlowInv, FlowTypeOK
  <2>7. FlowTypeOK'
    BY <1>1, <1>5, <1>7, <2>1, <2>6 DEF FlowInv, FlowTypeOK
  <2>8. FlowPhases'
    <3>1. \A v \in seen' : Ended(v)'
      BY <1>1, <1>2, <1>7, <2>4 DEF FlowInv, FlowPhases
    <3>2. \A q \in Procs : In(q, "gather")' = In(q, "gather")
      BY <2>1 DEF In
    <3> QED
      BY <1>1, <1>5, <2>1, <2>4, <3>1, <3>2 DEF FlowInv, FlowPhases, Gathering
  <2>9. AnswersSettle'
    BY <1>3, <2>1 DEF AnswersSettle, FlowAnswersTrue
  <2> QED
    BY <2>3, <2>5, <2>7, <2>8, <2>9 DEF FlowInv, FlowRuns
<1>10. CASE ~(succeeded \/ ~plan.first)
  <2>1. /\ answer' = "failed" /\ CancelUnfinished(seen') /\ Returns(p) /\ UNCHANGED cursor
    BY <1>10 DEF Accepts, Pc
  <2>2. PerItem /\ plan.first
    BY <1>4, <1>10, FlowTyped, PlanFacts
  <2>3. /\ IdlePartsMove /\ asked' \subseteq Parts
        /\ \A v \in Parts : /\ Pc(v)' # "new"
                            /\ Pc(v)' = "cancelled" => v \in asked'
                            /\ Pc(v)' = Pc(v) \/ (Pc(v) = "queued" /\ Pc(v)' = "cancelled")
    BY <1>1, <1>3, <2>1, CancelUnfinishedMoves
  <2>4. /\ PartKinds' /\ SharesRun' /\ DrawsRun' /\ RecordsKept' /\ OneFails'
        /\ \A v \in Parts : Ended(v) => Ended(v)' /\ Pc(v)' = Pc(v)
    BY <1>1, <2>1, <2>2, <2>3, IdlePartsKeep
  <2>5. \A v \in seen' : v \in Parts /\ Ended(v)' /\ Pc(v)' = Pc(v)
    BY <1>1, <1>2, <1>7, <2>4 DEF FlowInv, FlowPhases
  <2>6. TasksRun'
    BY <1>8, <2>1, <2>3, <2>5
  <2>7. FlowTypeOK'
    BY <1>1, <1>5, <1>7, <2>1, <2>3
    DEF FlowInv, FlowTypeOK, IdlePartsMove, PartRecord, FlowAnswers
  <2>8. FlowPhases'
    BY <1>1, <1>5, <2>1, <2>3, <2>5, ReturnEnds
  <2>9. AnswersSettle'
    <3>1. failures = {}
      BY <1>3, <2>2 DEF FlowInv, FlowRuns, TasksRun
    <3>2. failures' = {w}
      BY <1>1, <1>10, <3>1
    <3>3. Cardinality(failures') = 1
      BY <3>2, FS_Singleton
    <3> QED
      BY <1>1, <1>5, <2>1, <2>2, <3>3 DEF AnswersSettle, FlowAnswersTrue
  <2> QED
    BY <2>4, <2>6, <2>7, <2>8, <2>9 DEF FlowInv, FlowRuns
<1> QED
  BY <1>9, <1>10

LEMMA FlowStepKeeps ==
  ASSUME CallTypeOK, FlowInv, NEW p \in Procs, FlowStep(p)
  PROVE  FlowInv'
BY ScatterKeeps, GatheredKeeps, AbandonsKeeps, CursorKeeps, AcceptsKeeps
DEF FlowStep, GatherPoll

\* Steps of other objects.
LEMMA FlowLeft ==
  ASSUME FlowInv, UNCHANGED flowVars, LeavesCalls("gather")
  PROVE  FlowInv'
<1>1. UNCHANGED <<plan, part, nextItem, halted, asked, completed, failures, runs,
                  seen, cursor, answer>>
  BY DEF flowVars
<1>2. /\ Parts' = Parts /\ Items' = Items /\ PerItem' = PerItem /\ Draws' = Draws
      /\ Sharing' = Sharing
      /\ \A w : Mine(w)' = Mine(w) /\ Share(w)' = Share(w)
  BY <1>1, PlanSame
<1>3. \A q \in Procs : In(q, "gather")' <=> In(q, "gather")
  BY DEF LeavesCalls, In
<1>4. /\ \A w \in Parts : Pc(w)' = Pc(w) /\ Ended(w)' = Ended(w)
      /\ seen \subseteq Parts
  BY <1>1 DEF Pc, Ended, FlowInv, FlowTypeOK
<1>5. FlowTypeOK'
  BY <1>1, <1>2 DEF FlowInv, FlowTypeOK
<1>6. FlowPhases'
  BY <1>1, <1>2, <1>3, <1>4 DEF FlowInv, FlowPhases, Gathering
<1>7. IdlePartsMove
  BY <1>1, FlowTypes DEF FlowInv, IdlePartsMove
<1>8. PartKinds' /\ SharesRun' /\ DrawsRun' /\ RecordsKept' /\ OneFails'
  BY <1>1, <1>7, IdlePartsKeep
<1>9. TasksRun'
  <2>1. {w \in seen : Pc(w) = "done"}' = {w \in seen : Pc(w) = "done"}
    BY <1>1, <1>4
  <2> QED
    BY <1>1, <1>2, <1>4, <2>1 DEF FlowInv, FlowRuns, TasksRun
<1>10. AnswersSettle'
  BY <1>1, <1>2, <1>4 DEF FlowInv, AnswersSettle, FlowAnswersTrue
<1> QED
  BY <1>5, <1>6, <1>8, <1>9, <1>10 DEF FlowInv, FlowRuns

LEMMA FlowKeeps ==
  ASSUME CallTypeOK, FlowInv,
         \/ \E p \in Procs : FlowStep(p)
         \/ FlowEnvironment
         \/ UNCHANGED flowVars /\ LeavesCalls("gather")
  PROVE  FlowInv'
BY FlowStepKeeps, PartStepKeeps, FlowLeft DEF FlowEnvironment
-----------------------------------------------------------------------------
SyncInv ==
  /\ CallTypeOK /\ MutexInv /\ BarrierInv /\ AwaitInv /\ AtomicInv /\ FlowInv
  /\ objects \in ObjectSets

LEMMA FlowBegins ==
  ASSUME FlowInit, CallInit
  PROVE  FlowInv
<1>1. /\ plan \in FlowPlans
      /\ plan.items \in Nat \ {0} /\ plan.workers \in Nat \ {0}
      /\ PerItem => Parts = Items
  BY PlanFacts DEF FlowInit
<1>2. \A w \in Parts : Pc(w) = "new" /\ ~InFlight(w) /\ ~Ended(w)
  BY DEF FlowInit, Pc, InFlight, Ended
<1>3. FlowTypeOK
  <2>1. [pc |-> "new", index |-> 0] \in PartRecord
    BY <1>1 DEF PartRecord, PartStates
  <2>2. part \in [Parts -> PartRecord]
    BY <2>1 DEF FlowInit
  <2>3. Cardinality(Parts) \in 0..Cardinality(Parts)
    BY <1>1, PartsCounted
  <2>4. nextItem \in 0..(plan.items + plan.workers)
    BY <1>1 DEF FlowInit
  <2>5. runs \in [Items -> 0..1]
    BY DEF FlowInit
  <2> QED
    BY <1>1, <2>2, <2>3, <2>4, <2>5 DEF FlowInit, FlowTypeOK, FlowAnswers, PartRecord
<1>4. FlowPhases
  BY <1>2 DEF FlowInit, CallInit, FlowPhases, Gathering, In, Idle
<1>5. PartKinds
  BY <1>2 DEF PartKinds
<1>6. TasksRun
  BY <1>1, <1>2 DEF TasksRun, FlowInit
<1>7. SharesRun
  <2>1. \A w \in Parts : \A i \in Mine(w) : runs[i] = 0
    BY DEF FlowInit, Mine
  <2> QED
    BY <1>2, <2>1 DEF SharesRun, ShareRuns
<1>8. DrawsRun
  <2>1. \A i \in Items : runs[i] = 0 /\ ~(i < nextItem)
    BY <1>1, PlanFacts DEF FlowInit
  <2>2. {w \in Parts : Pc(w) = "done"} = {}
    BY <1>2
  <2>3. nextItem <= plan.items + Cardinality({w \in Parts : Pc(w) = "done"})
    BY <1>1, <2>2, FS_EmptySet DEF FlowInit
  <2> QED
    BY <1>2, <2>1, <2>3 DEF DrawsRun
<1>9. RecordsKept /\ OneFails
  BY <1>2 DEF RecordsKept, OneFails, FlowInit
<1>10. AnswersSettle
  BY DEF AnswersSettle, FlowAnswersTrue, FlowInit
<1> QED
  BY <1>3, <1>4, <1>5, <1>6, <1>7, <1>8, <1>9, <1>10 DEF FlowInv, FlowRuns

LEMMA SyncInit == Init => SyncInv
<1> SUFFICES ASSUME Init PROVE SyncInv
  OBVIOUS
<1>1. CallTypeOK
  BY IdleType DEF Init, CallInit, CallTypeOK
<1>2. MutexInv
  BY MaxSectionsNat DEF Init, CallInit, MutexInit, MutexInv, MutexTypeOK, In, Idle, Queued
<1>3. BarrierInv
  <2>1. {p \in Procs : In(p, "barrier") /\ call[p].number = generation} = {}
    BY DEF Init, CallInit, In, Idle
  <2>2. ArrivalsCounted
    BY <2>1, FS_EmptySet DEF Init, BarrierInit, ArrivalsCounted
  <2>3. BarrierTypeOK
    BY PartiesPositive, MaxGenerationsNat DEF Init, BarrierInit, BarrierTypeOK
  <2> QED
    BY <2>2, <2>3 DEF Init, BarrierInv, CallInit, In, Idle
<1>4. AwaitInv
  BY DEF Init, AwaitInit, AwaitInv, AwaitTypeOK, OneResult, Terminal
<1>5. AtomicInv
  BY MaxValueNat DEF Init, AtomicInit, AtomicInv, AtomicTypeOK, NoUpdateLost
<1>6. FlowInv
  BY FlowBegins DEF Init
<1> QED
  BY <1>1, <1>2, <1>3, <1>4, <1>5, <1>6 DEF SyncInv, Init

LEMMA SyncNext == SyncInv /\ [Next]_vars => SyncInv'
<1> SUFFICES ASSUME SyncInv, [Next]_vars PROVE SyncInv'
  OBVIOUS
<1>1. CallTypeOK /\ BarrierTypeOK /\ value \in Nat
  BY MaxValueNat DEF SyncInv, BarrierInv, AtomicInv, AtomicTypeOK
<1> QED
  BY <1>1, StepCases, MutexKeeps, BarrierKeeps, AwaitKeeps, AtomicKeeps, FlowKeeps
  DEF SyncInv

LEMMA SyncAlways == Spec => []SyncInv
BY SyncInit, SyncNext, PTL DEF Spec

(***************************************************************************)
(* The calls and the objects keep their types: a mutex has one owner at    *)
(* most, a barrier never counts as many as it waits for, the function of a *)
(* flow is called with no item twice.                                      *)
(***************************************************************************)
THEOREM ObjectsKeepTheirTypes == Spec => []TypeOK
<1>1. SyncInv => TypeOK
  BY DEF SyncInv, MutexInv, BarrierInv, AwaitInv, AtomicInv, FlowInv, TypeOK
<1> QED
  BY <1>1, SyncAlways, PTL

\* RuntimeBarrier: waiting_ counts those who wait for the generation that has not
\* passed, whoever timed out or was cancelled.
THEOREM BarriersCountArrivals == Spec => []ArrivalsCounted
<1>1. SyncInv => ArrivalsCounted
  BY DEF SyncInv, BarrierInv
<1> QED
  BY <1>1, SyncAlways, PTL

\* RuntimeAwaitable: everybody is told the one result, and no native wait outlives it.
THEOREM AwaitablesHaveOneResult == Spec => []OneResult
<1>1. SyncInv => OneResult
  BY DEF SyncInv, AwaitInv
<1> QED
  BY <1>1, SyncAlways, PTL

\* RuntimeAtomic: the optimistic loop of update loses no update.
THEOREM UpdatesAreKept == Spec => []NoUpdateLost
<1>1. SyncInv => NoUpdateLost
  BY DEF SyncInv, AtomicInv
<1> QED
  BY <1>1, SyncAlways, PTL

(***************************************************************************)
(* RuntimeFlowModule: a call of scatter_map that answers ok has run every  *)
(* item once and knows the outcome of each, and one that answers failed    *)
(* has the one failure that stopped it, under each of the four policies of *)
(* sharing the items out.                                                  *)
(***************************************************************************)
THEOREM FlowsAnswerForAllItems == Spec => []FlowAnswersTrue
<1>1. SyncInv => FlowAnswersTrue
  BY DEF SyncInv, FlowInv, AnswersSettle
<1> QED
  BY <1>1, SyncAlways, PTL

LEMMA OwnerChanges ==
  ASSUME MutexInv, NEW p \in Procs, MutexStep(p), owner' # owner, owner' # None
  PROVE  waiters # <<>> => owner' = waiters[1]
<1>1. \/ \E scoped \in BOOLEAN : LockNow(p, scoped)
      \/ Lock(p)
  BY DEF MutexStep, MutexPoll, LockGivesUp, Unlock, EndSection, Unlocked, LockWait
<1> QED
  BY <1>1 DEF LockNow, Free, Lock, Granted, Owns, MutexInv, MutexTypeOK

\* RuntimeMutex: nobody who waits is overtaken by who came later.
THEOREM LocksAreGrantedInTurn == Spec => GrantedInTurn
<1> DEFINE Turn == \A i \in DOMAIN waiters :
                     owner' # owner /\ owner' # None /\ owner' # waiters[i]
                       => \E j \in 1..(i - 1) : owner' = waiters[j]
<1>1. SyncInv /\ [Next]_vars => Turn
  <2> SUFFICES ASSUME SyncInv, [Next]_vars, owner' # owner, owner' # None,
                      NEW i \in DOMAIN waiters, owner' # waiters[i]
               PROVE  \E j \in 1..(i - 1) : owner' = waiters[j]
    OBVIOUS
  <2>1. CallTypeOK /\ BarrierTypeOK /\ value \in Nat
    BY MaxValueNat DEF SyncInv, BarrierInv, AtomicInv, AtomicTypeOK
  <2>2. \E p \in Procs : MutexStep(p)
    BY <2>1, StepCases DEF mutexVars
  <2>3. waiters \in Seq(Procs) /\ waiters # <<>>
    BY DEF SyncInv, MutexInv, MutexTypeOK
  <2>4. owner' = waiters[1]
    BY <2>2, <2>3, OwnerChanges DEF SyncInv
  <2> QED
    BY <2>3, <2>4
<1>2. SyncInv /\ [Next]_vars => [Turn]_vars
  BY <1>1
<1>3. Spec => [][Turn]_vars
  BY <1>2, SyncAlways, PTL DEF Spec
<1> QED
  BY <1>3 DEF GrantedInTurn
=============================================================================
