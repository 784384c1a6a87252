-------------------------- MODULE ReactorProperties --------------------------
(* What the users of the reactor rely on. *)
EXTENDS Reactor

\* The waits of a parked operation of p, and the completions that will wake it.
Outstanding(p) ==
  {w \in Waits : waiter[w].by = p /\ waiter[w].async} \cup
  {c \in completions : c[2] = p}

(***************************************************************************)
(* A strand that sleeps in a parked operation has a wait in the reactor or *)
(* a completion on its way: a completion that runs before the worker has   *)
(* let the strand sleep is not lost (the order of park_current and         *)
(* wait_async in the driver, park_wake_pending of the scheduler).          *)
(***************************************************************************)
SleepersAreWatched ==
  \A p \in Strands :
    phase[p] = "sleeping" /\ op[p].kind = "io" => Outstanding(p) # {}

(***************************************************************************)
(* The reactor has a wait or a completion for a strand only while the      *)
(* strand is parked in that operation, and only one, unless the strand was *)
(* woken by somebody else: no completion of an old operation cuts a later  *)
(* sleep short or wakes a later operation.                                 *)
(***************************************************************************)
NoStrayCompletion ==
  \A p \in Strands \ (resumed \cup cancelled) :
    /\ Cardinality(Outstanding(p)) <= 1
    /\ Outstanding(p) # {} => op[p].kind = "io" /\ phase[p] \in {"parked", "sleeping"}

WaitsIn(p) == phase[p] \in {"blocked", "sleeping"} /\ op[p].kind = "io"

\* The descriptor is ready, there is a deadline, the task was cancelled, or the
\* resource was closed.  A wait that is registered after notify_closed misses it: it
\* is told by the next scan after the close, which a thread without a cancellation
\* flag may wait for in vain, as everybody does once the number is used again.
HasCause(p) ==
  \/ p \in cancelled
  \/ op[p].timed
  \/ op[p].fd \in ready /\ ~op[p].gone
  \/ op[p].gone /\ usable[op[p].fd] # "open" /\ p \in Strands

(***************************************************************************)
(* While the reactor runs, nobody waits for ever with a cause to return:   *)
(* readiness, deadline, cancellation and close all end a wait, whether     *)
(* they come before it is registered, during a poll or after it.           *)
(***************************************************************************)
WaitsEnd == \A p \in Procs : []<>(~running \/ ~WaitsIn(p) \/ ~HasCause(p))
=============================================================================
