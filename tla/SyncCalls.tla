------------------------------ MODULE SyncCalls ------------------------------
(***************************************************************************)
(* What the blocking calls of src/runtime/concurrency.cpp have in common:  *)
(* a strand or a thread is in one call at a time, the call holds the mutex *)
(* of its object except while it waits, a waiting call wakes every         *)
(* millisecond at the latest and looks again (cv_.wait_for), and it leaves *)
(* when its deadline passed or when the task that makes it was cancelled.  *)
(*                                                                         *)
(* An action is what a call does while it holds the mutex.  A call that    *)
(* fails at once and leaves everything as it was is not an action, nor is  *)
(* a poll that changes nothing.  A "zero" timeout has expired in the first *)
(* pass, a "later" one may have expired at any poll.                       *)
(***************************************************************************)
EXTENDS Integers, SequencesExt

CONSTANTS
  Procs,       \* the strands and threads that make calls
  None,        \* nobody
  Cancellable, \* those whose task may be cancelled
  Timeouts     \* the kinds of timeouts that calls are made with

TimeoutNames == {"never", "later", "zero"}

ASSUME FiniteProcs == IsFiniteSet(Procs)
ASSUME NoneIsNobody == None \notin Procs
ASSUME CancellableAreProcs == Cancellable \subseteq Procs
ASSUME TimeoutsKnown == Timeouts \subseteq TimeoutNames

VARIABLES
  call,       \* the call each of them waits in
  cancelled   \* those whose task was asked to cancel

callVars == <<call, cancelled>>
-----------------------------------------------------------------------------
CallNames == {"idle", "lock", "barrier", "await", "update", "gather"}

\* number is the generation a caller of Barrier waits for, or the value that an
\* update of Atomic has read; scoped tells synchronize from lock.
CallRecord == [pc : CallNames, timed : BOOLEAN, scoped : BOOLEAN, number : Nat]

Idle == [pc |-> "idle", timed |-> FALSE, scoped |-> FALSE, number |-> 0]

CallTypeOK ==
  /\ call \in [Procs -> CallRecord]
  /\ cancelled \in SUBSET Cancellable

CallInit ==
  /\ call = [p \in Procs |-> Idle]
  /\ cancelled = {}

In(p, name) == call[p].pc = name

\* A call that cannot be served at once waits rather than fails.
MayWait(p, timeout) == p \notin cancelled /\ timeout # "zero"

\* A waiting call has a reason to give up.
GivesUp(p) == p \in cancelled \/ call[p].timed

Waits(p, name, timeout) ==
  call' = [call EXCEPT ![p] =
             [Idle EXCEPT !.pc = name, !.timed = timeout = "later"]]

Returns(p) == call' = [call EXCEPT ![p] = Idle]

\* The scheduler sets the cancellation flag of a task (Scheduler!CancelTask).
Cancel(p) ==
  /\ p \in Cancellable \ cancelled
  /\ cancelled' = cancelled \cup {p}
  /\ UNCHANGED call
=============================================================================
