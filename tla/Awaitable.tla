------------------------------ MODULE Awaitable ------------------------------
(***************************************************************************)
(* RuntimeAwaitable: a result that arrives once, by complete, fail or      *)
(* cancel, by the cancellation of a task that awaits it, or by the loss of *)
(* the pin under a native wait of the heap (heap.cpp, native_waits_), and  *)
(* that any number of callers await and poll.                              *)
(*                                                                         *)
(* Only the awaitable holds the handle of its native wait, so that the     *)
(* wait is active in the heap exactly while the handle is, and cancelling  *)
(* and finishing it cannot fail.                                           *)
(***************************************************************************)
EXTENDS SyncCalls

VARIABLES
  result,   \* state_
  wait,     \* the native wait: none, active or finished
  pinned,   \* the pin that the native wait was registered with is active
  told      \* the results that callers of await, poll, complete, fail and
            \* cancel were told of

awaitVars == <<result, wait, pinned, told>>

Terminal == {"Ready", "Failed", "Cancelled"}

AwaitTypeOK ==
  /\ result \in Terminal \cup {"Pending"}
  /\ wait \in {"none", "active", "finished"}
  /\ pinned \in BOOLEAN
  /\ told \in SUBSET Terminal

\* Without a native wait, with one, or with one that could not be registered
\* because its pin was stale (attach_native_wait).
AwaitInit ==
  /\ \/ result = "Pending" /\ wait = "none" /\ pinned = FALSE
     \/ result = "Pending" /\ wait = "active" /\ pinned = TRUE
     \/ result = "Failed" /\ wait = "none" /\ pinned = FALSE
  /\ told = {}
-----------------------------------------------------------------------------
\* poll_native_wait of a wait whose pin is gone fails (refresh_native_wait_locked).
Lost == wait = "active" /\ ~pinned

\* The native wait of a failed awaitable is left to the heap.
BugFinished(outcome) ==
  IF wait = "active" /\ outcome # "Failed" THEN "finished" ELSE wait

\* finish_native_wait_locked, after cancel_native_wait_locked or alone.
Finished(outcome) == IF wait = "active" THEN "finished" ELSE wait

Becomes(outcome) ==
  /\ result' = outcome
  /\ wait' = Finished(outcome)

Told(outcome) == told' = told \cup {outcome}

Answers(p, outcome) == Told(outcome) /\ Returns(p)

\* A pass of await: a terminal result, then the cancellation of the caller, which
\* cancels the awaitable for everybody, then the native wait, count before the
\* deadline.
Observed(p) ==
  /\ result # "Pending"
  /\ Answers(p, result)
  /\ UNCHANGED <<result, wait>>

CancelledBy(p) ==
  /\ result = "Pending" /\ p \in cancelled
  /\ Becomes("Cancelled")
  /\ Answers(p, "Cancelled")

LostBy(p) ==
  /\ result = "Pending" /\ Lost
  /\ Becomes("Failed")
  /\ Answers(p, "Failed")

TimedOut(p) ==
  /\ result = "Pending" /\ ~Lost
  /\ Returns(p)
  /\ UNCHANGED <<result, wait, told>>

\* A call of await that returns in its first pass, or a later pass of one that
\* waits.
AwaitReturns(p, expired) ==
  /\ \/ Observed(p)
     \/ CancelledBy(p)
     \/ LostBy(p) /\ p \notin cancelled
     \/ TimedOut(p) /\ p \notin cancelled /\ expired
  /\ UNCHANGED <<pinned, cancelled>>

AwaitNow(p, timeout) ==
  In(p, "idle") /\ AwaitReturns(p, timeout = "zero")

AwaitWait(p, timeout) ==
  /\ In(p, "idle")
  /\ result = "Pending" /\ ~Lost
  /\ MayWait(p, timeout)
  /\ Waits(p, "await", timeout)
  /\ UNCHANGED <<awaitVars, cancelled>>

AwaitEnds(p) ==
  In(p, "await") /\ AwaitReturns(p, call[p].timed)

\* poll does not look at the task of its caller.
Poll(p) ==
  /\ In(p, "idle")
  /\ Observed(p) \/ LostBy(p) \/ TimedOut(p)
  /\ UNCHANGED <<pinned, cancelled>>
-----------------------------------------------------------------------------
\* A result replaces another.
BugUnclaimed == result # "Cancelled"

\* complete, fail and cancel return false on a result that is there.
Unclaimed == result = "Pending"

Complete ==
  /\ Unclaimed
  /\ IF Lost
     THEN Becomes("Failed") /\ UNCHANGED told
     ELSE Becomes("Ready") /\ Told("Ready")
  /\ UNCHANGED <<pinned, callVars>>

Fail ==
  /\ Unclaimed
  /\ Becomes("Failed")
  /\ Told("Failed")
  /\ UNCHANGED <<pinned, callVars>>

CancelAwaitable ==
  /\ Unclaimed
  /\ Becomes("Cancelled")
  /\ Told("Cancelled")
  /\ UNCHANGED <<pinned, callVars>>

\* The owner of the pinned buffer lets it go (RuntimeHeap::unpin).
Unpin ==
  /\ pinned
  /\ pinned' = FALSE
  /\ UNCHANGED <<result, wait, told, callVars>>

AwaitStep(p) ==
  \/ AwaitEnds(p)
  \/ \E timeout \in Timeouts : AwaitNow(p, timeout) \/ AwaitWait(p, timeout)
  \/ Poll(p)

AwaitEnvironment == Complete \/ Fail \/ CancelAwaitable \/ Unpin
=============================================================================
