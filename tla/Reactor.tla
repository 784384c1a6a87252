------------------------------- MODULE Reactor -------------------------------
(***************************************************************************)
(* RuntimeReactor of src/runtime/reactor.cpp over epoll, the calls that    *)
(* wait on it (wait_fd of io.cpp, the driver of resumable programs in      *)
(* vm.cpp), and what it sees of the scheduler: parking and waking a        *)
(* strand.                                                                 *)
(*                                                                         *)
(* A caller whose descriptor is not ready either blocks in wait, or is a   *)
(* strand whose program parks: park_current first, then wait_async with a  *)
(* completion that wakes the strand, which tries its operation again.  The *)
(* reactor thread alternates between a scan of the waiters under the lock, *)
(* the completions without it, the poll without it, and the collection of  *)
(* the result of the poll under it again.                                  *)
(*                                                                         *)
(* The caller of a blocking wait takes its waiter from the reactor itself. *)
(* Reads and writes of a stream park only when they have no deadline; the  *)
(* bodies of an HTTP server, which park with one, are left out.  All       *)
(* waiters ask for the same readiness.                                     *)
(***************************************************************************)
EXTENDS Integers, FiniteSets

CONSTANTS
  Strands,     \* callers that run in a task: they have a cancellation flag
  Threads,     \* callers outside of the scheduler
  Cancellable, \* the strands that may be cancelled
  Fds,         \* file descriptor numbers
  Waits,       \* the entries of waiters_
  None,        \* nobody, no descriptor
  FeatureSets  \* what may happen besides reading: bounds the behaviours

Procs == Strands \cup Threads

ASSUME CallersDiffer == Strands \cap Threads = {}
ASSUME NoneIsNothing == None \notin Procs \cup Fds
FeatureNames == {"sleep", "timeout", "resume", "cancel", "close", "stop"}

ASSUME FeaturesKnown == FeatureSets \subseteq SUBSET FeatureNames
ASSUME CancellableAreStrands == Cancellable \subseteq Strands

VARIABLES
  features,    \* the member of FeatureSets of this behaviour
  running,     \* running_
  waiter,      \* waiters_
  registered,  \* registered_ of PollBackend
  interest,    \* the descriptors that epoll watches
  pipe,        \* a byte is in the wake pipe
  loop,        \* where the reactor thread is
  rescans,     \* its poll has a timeout
  polled,      \* what its poll returned
  completions, \* the completions it has taken from the waiters
  phase,       \* where each caller is
  wakePending, \* park_wake_pending
  op,          \* the operation each caller waits in
  cancelled,   \* the strands whose cancellation flag is set
  resumed,     \* the strands that somebody woke explicitly
  usable,      \* open, closing (close() has told the reactor), or closed
  ready        \* the descriptors that are readable

reactorVars == <<running, waiter, registered, interest, pipe, loop, rescans,
                 polled, completions>>
callerVars == <<phase, wakePending, op, cancelled, resumed>>
vars == <<reactorVars, callerVars, usable, ready, features>>
-----------------------------------------------------------------------------
Outcomes == {"Ready", "TimedOut", "Cancelled", "Closed", "Error"}

WaiterRecord ==
  [state : {"free", "waiting", "done"}, by : Procs \cup {None},
   fd : Fds \cup {None}, async : BOOLEAN, timed : BOOLEAN, expired : BOOLEAN,
   pendingClosed : BOOLEAN, outcome : Outcomes]

FreeWaiter ==
  [state |-> "free", by |-> None, fd |-> None, async |-> FALSE, timed |-> FALSE,
   expired |-> FALSE, pendingClosed |-> FALSE, outcome |-> "Error"]

\* parked has returned from the driver to the worker, parking has not registered
\* its wait yet; the scheduler calls both Running with park_pending.
Phases == {"running", "asking", "blocked", "parking", "parked", "sleeping",
           "runnable"}

\* gone tells that the resource of the operation was closed meanwhile.
OpRecord == [kind : {"none", "io", "sleep"}, fd : Fds \cup {None},
             parks : BOOLEAN, timed : BOOLEAN, gone : BOOLEAN]

NoOp == [kind |-> "none", fd |-> None, parks |-> FALSE, timed |-> FALSE,
         gone |-> FALSE]

TypeOK ==
  /\ features \in FeatureSets
  /\ running \in BOOLEAN
  /\ waiter \in [Waits -> WaiterRecord]
  /\ registered \in SUBSET Fds /\ interest \in SUBSET registered
  /\ pipe \in BOOLEAN
  /\ loop \in {"scan", "poll", "collect", "ended"}
  /\ rescans \in BOOLEAN
  /\ polled \in SUBSET Fds
  /\ completions \in SUBSET (Waits \X Strands)
  /\ phase \in [Procs -> Phases]
  /\ wakePending \in [Procs -> BOOLEAN]
  /\ op \in [Procs -> OpRecord]
  /\ cancelled \in SUBSET Cancellable
  /\ resumed \in SUBSET Strands
  /\ usable \in [Fds -> {"open", "closing", "closed"}]
  /\ ready \in SUBSET Fds

Init ==
  /\ features \in FeatureSets
  /\ running = TRUE
  /\ waiter = [w \in Waits |-> FreeWaiter]
  /\ registered = {}
  /\ interest = {}
  /\ pipe = FALSE
  /\ loop = "scan"
  /\ rescans = FALSE
  /\ polled = {}
  /\ completions = {}
  /\ phase = [p \in Procs |-> "running"]
  /\ wakePending = [p \in Procs |-> FALSE]
  /\ op = [p \in Procs |-> NoOp]
  /\ cancelled = {}
  /\ resumed = {}
  /\ usable = [f \in Fds |-> "open"]
  /\ ready = {}
-----------------------------------------------------------------------------
(* The scheduler: parking and waking *)

\* A wake that comes before the strand sleeps is lost.
BugHeldBack(p) == FALSE

\* The strand has asked to park and its worker has not let it sleep yet.
HeldBack(p) == phase[p] \in {"parking", "parked"}

\* wake_strand, which does nothing in the other phases.
Wake(p) ==
  /\ wakePending' = IF HeldBack(p) THEN [wakePending EXCEPT ![p] = TRUE]
                                   ELSE wakePending
  /\ phase' = IF phase[p] = "sleeping" THEN [phase EXCEPT ![p] = "runnable"]
                                       ELSE phase

\* resume of a task handle.
Resume(p) ==
  /\ "resume" \in features
  /\ HeldBack(p) \/ phase[p] = "sleeping"
  /\ Wake(p)
  /\ resumed' = resumed \cup {p}
  /\ UNCHANGED <<features, reactorVars, op, cancelled, usable, ready>>

\* cancel_task, which wakes a parked program and then kicks the reactor.
Cancel(p) ==
  /\ "cancel" \in features
  /\ p \in Cancellable \ cancelled
  /\ cancelled' = cancelled \cup {p}
  /\ Wake(p)
  /\ pipe' = TRUE
  /\ UNCHANGED <<features, running, waiter, registered, interest, loop,
                 rescans, polled, completions, op, resumed, usable, ready>>

\* The worker lets a program that parked sleep, unless a wake raced it.
FallAsleep(p) ==
  /\ phase[p] = "parked"
  /\ phase' = [phase EXCEPT ![p] = IF wakePending[p] THEN "runnable"
                                                     ELSE "sleeping"]
  /\ wakePending' = [wakePending EXCEPT ![p] = FALSE]
  /\ UNCHANGED <<features, reactorVars, op, cancelled, resumed, usable, ready>>

TimerFires(p) ==
  /\ phase[p] = "sleeping" /\ op[p].kind = "sleep"
  /\ phase' = [phase EXCEPT ![p] = "runnable"]
  /\ UNCHANGED <<features, reactorVars, wakePending, op, cancelled, resumed,
                 usable, ready>>

\* The driver runs the program again: it goes on after a sleep, and tries an
\* operation that parked again.
Dispatch(p) ==
  /\ phase[p] = "runnable"
  /\ phase' = [phase EXCEPT ![p] = "running"]
  /\ op' = IF op[p].kind = "sleep" THEN [op EXCEPT ![p] = NoOp] ELSE op
  /\ UNCHANGED <<features, reactorVars, wakePending, cancelled, resumed,
                 usable, ready>>
-----------------------------------------------------------------------------
(* The callers *)

\* A new operation on f would block; wait_fd finds neither the task cancelled nor
\* the deadline passed.  A thread cannot park, a strand may be kept from it.
Ask(p, f, parks, timed) ==
  /\ phase[p] = "running" /\ op[p] = NoOp
  /\ p \notin cancelled
  /\ usable[f] = "open" /\ f \notin ready
  /\ parks => p \in Strands /\ ~timed
  /\ timed => "timeout" \in features
  /\ phase' = [phase EXCEPT ![p] = "asking"]
  /\ op' = [op EXCEPT ![p] = [kind |-> "io", fd |-> f, parks |-> parks,
                              timed |-> timed, gone |-> FALSE]]
  /\ UNCHANGED <<features, reactorVars, wakePending, cancelled, resumed,
                 usable, ready>>

\* A parked operation that is tried again would still block.
Served(p) ==
  p \in cancelled \/ op[p].gone \/ op[p].fd \in ready

Retry(p) ==
  /\ phase[p] = "running" /\ op[p].kind = "io"
  /\ IF Served(p)
     THEN op' = [op EXCEPT ![p] = NoOp] /\ UNCHANGED phase
     ELSE phase' = [phase EXCEPT ![p] = "asking"] /\ UNCHANGED op
  /\ UNCHANGED <<features, reactorVars, wakePending, cancelled, resumed,
                 usable, ready>>

\* task.sleep in a program that may park.
Sleep(p) ==
  /\ "sleep" \in features
  /\ phase[p] = "running" /\ op[p] = NoOp
  /\ p \in Strands \ cancelled
  /\ phase' = [phase EXCEPT ![p] = "asking"]
  /\ op' = [op EXCEPT ![p] = [NoOp EXCEPT !.kind = "sleep", !.parks = TRUE]]
  /\ UNCHANGED <<features, reactorVars, wakePending, cancelled, resumed,
                 usable, ready>>

\* park_current.  A sleep has nothing to register.
ParkCurrent(p) ==
  /\ phase[p] = "asking" /\ op[p].parks
  /\ phase' = [phase EXCEPT ![p] = IF op[p].kind = "io" THEN "parking"
                                                        ELSE "parked"]
  /\ UNCHANGED <<features, reactorVars, wakePending, op, cancelled, resumed,
                 usable, ready>>

NewWaiter(p, async) ==
  [FreeWaiter EXCEPT !.state = "waiting", !.by = p, !.fd = op[p].fd,
                     !.async = async, !.timed = op[p].timed]

\* wait_async.  A reactor that was stopped runs the completion at once.
WaitAsync(p, w) ==
  /\ phase[p] = "parking"
  /\ waiter[w] = FreeWaiter
  /\ phase' = [phase EXCEPT ![p] = "parked"]
  /\ IF running
     THEN /\ waiter' = [waiter EXCEPT ![w] = NewWaiter(p, TRUE)]
          /\ pipe' = TRUE
          /\ UNCHANGED wakePending
     ELSE /\ wakePending' = [wakePending EXCEPT ![p] = TRUE]
          /\ UNCHANGED <<waiter, pipe>>
  /\ UNCHANGED <<features, running, registered, interest, loop, rescans,
                 polled, completions, op, cancelled, resumed, usable, ready>>

\* wait, up to its condition variable.
Wait(p, w) ==
  /\ phase[p] = "asking" /\ ~op[p].parks
  /\ waiter[w] = FreeWaiter
  /\ IF running
     THEN /\ waiter' = [waiter EXCEPT ![w] = NewWaiter(p, FALSE)]
          /\ pipe' = TRUE
          /\ phase' = [phase EXCEPT ![p] = "blocked"]
          /\ UNCHANGED op
     ELSE /\ phase' = [phase EXCEPT ![p] = "running"]
          /\ op' = [op EXCEPT ![p] = NoOp]
          /\ UNCHANGED <<waiter, pipe>>
  /\ UNCHANGED <<features, running, registered, interest, loop, rescans,
                 polled, completions, wakePending, cancelled, resumed, usable,
                 ready>>

\* wait returns.
Unblock(p, w) ==
  /\ phase[p] = "blocked"
  /\ waiter[w].by = p /\ ~waiter[w].async /\ waiter[w].state = "done"
  /\ waiter' = [waiter EXCEPT ![w] = FreeWaiter]
  /\ phase' = [phase EXCEPT ![p] = "running"]
  /\ op' = [op EXCEPT ![p] = NoOp]
  /\ UNCHANGED <<features, running, registered, interest, pipe, loop, rescans,
                 polled, completions, wakePending, cancelled, resumed, usable,
                 ready>>
-----------------------------------------------------------------------------
(* The reactor thread *)

Waiting(w) == waiter[w].state = "waiting"

\* What the scan finds for a waiter, before it looks at the descriptor.
Verdict(w) ==
  IF waiter[w].pendingClosed THEN "Closed"
  ELSE IF waiter[w].by \in cancelled THEN "Cancelled"
  ELSE IF waiter[w].expired THEN "TimedOut"
  ELSE "none"

Undecided == {w \in Waits : Waiting(w) /\ Verdict(w) = "none"}

Desired == {waiter[w].fd : w \in Undecided}

\* PollBackend::sync changes the interest in a descriptor that it has registered
\* (EBADF if the descriptor is closed, ENOENT if its number is used again) and adds
\* the others (EBADF).
Refused ==
  {f \in Desired : usable[f] = "closed" \/ f \in registered \ interest}

Complete(w, outcome) ==
  [waiter[w] EXCEPT !.state = "done", !.outcome = outcome]

Scanned(w) ==
  IF ~Waiting(w) THEN waiter[w]
  ELSE IF Verdict(w) # "none" THEN Complete(w, Verdict(w))
  ELSE IF waiter[w].fd \in Refused THEN Complete(w, "Closed")
  ELSE waiter[w]

\* Blocked callers are taken for completions.
BugFinished(w) == w.state = "done"

\* A waiter whose completion is due.
Finished(w) == w.async /\ w.state = "done"

\* A waiter stays when its completion was taken.
BugKept(w) == w

\* What harvest_async_locked leaves of a waiter.
Kept(w) == IF Finished(w) THEN FreeWaiter ELSE w

\* harvest_async_locked, of what the waiters have become.
Harvest(after) ==
  /\ waiter' = [w \in Waits |-> Kept(after[w])]
  /\ completions' = {<<w, after[w].by>> : w \in {v \in Waits : Finished(after[v])}}

\* Only a deadline limits the poll.
BugRescans == \E w \in Undecided : waiter[w].timed

\* The poll waits for no longer than the nearest deadline, and no longer than
\* kCancelSafetyMs when a waiter has a cancellation flag.
Rescans == \E w \in Undecided : waiter[w].timed \/ waiter[w].by \in Strands

Scan ==
  /\ loop = "scan" /\ completions = {}
  /\ running
  /\ Harvest([w \in Waits |-> Scanned(w)])
  /\ registered' = Desired \ Refused
  /\ interest' = Desired \ Refused
  /\ rescans' = Rescans
  /\ loop' = "poll"
  /\ UNCHANGED <<features, running, pipe, polled, callerVars, usable, ready>>

\* The thread of a reactor that was stopped ends, whoever still waits.
End ==
  /\ loop = "scan" /\ completions = {}
  /\ ~running
  /\ loop' = "ended"
  /\ UNCHANGED <<features, running, waiter, registered, interest, pipe,
                 rescans, polled, completions, callerVars, usable, ready>>

\* A completion wakes its strand.
RunCompletion(c) ==
  /\ c \in completions
  /\ completions' = completions \ {c}
  /\ Wake(c[2])
  /\ UNCHANGED <<features, running, waiter, registered, interest, pipe, loop,
                 rescans, polled, op, cancelled, resumed, usable, ready>>

\* epoll_wait returns, and a wake that it reports is drained.
PollReturns ==
  /\ loop = "poll" /\ completions = {}
  /\ pipe \/ rescans \/ interest \cap ready # {}
  /\ polled' = interest \cap ready
  /\ pipe' = FALSE
  /\ loop' = "collect"
  /\ UNCHANGED <<features, running, waiter, registered, interest, rescans,
                 completions, callerVars, usable, ready>>

Collected(w) ==
  IF Waiting(w) /\ waiter[w].fd \in polled THEN Complete(w, "Ready") ELSE waiter[w]

Collect ==
  /\ loop = "collect"
  /\ Harvest([w \in Waits |-> Collected(w)])
  /\ polled' = {}
  /\ loop' = "scan"
  /\ UNCHANGED <<features, running, registered, interest, pipe, rescans,
                 callerVars, usable, ready>>
-----------------------------------------------------------------------------
(* Descriptors, time, and the end of the reactor *)

Arrives(f) ==
  /\ usable[f] # "closed"
  /\ ready' = ready \cup {f}
  /\ UNCHANGED <<features, reactorVars, callerVars, usable>>

\* Somebody takes what has arrived.
Drain(f) ==
  /\ f \in ready
  /\ ready' = ready \ {f}
  /\ UNCHANGED <<features, reactorVars, callerVars, usable>>

\* close of a socket: the resource is closed for its users, then notify_closed.
NotifyClosed(f) ==
  /\ "close" \in features
  /\ usable[f] = "open"
  /\ usable' = [usable EXCEPT ![f] = "closing"]
  /\ op' = [p \in Procs |-> IF op[p].fd = f THEN [op[p] EXCEPT !.gone = TRUE]
                                            ELSE op[p]]
  /\ waiter' = [w \in Waits |->
                  [waiter[w] EXCEPT
                     !.pendingClosed = @ \/ (waiter[w].fd = f /\ Waiting(w))]]
  /\ pipe' = TRUE
  /\ UNCHANGED <<features, running, registered, interest, loop, rescans,
                 polled, completions, phase, wakePending, cancelled, resumed,
                 ready>>

\* The close of the descriptor, which takes it out of epoll.
CloseFd(f) ==
  /\ usable[f] = "closing"
  /\ usable' = [usable EXCEPT ![f] = "closed"]
  /\ interest' = interest \ {f}
  /\ ready' = ready \ {f}
  /\ UNCHANGED <<features, running, waiter, registered, pipe, loop, rescans,
                 polled, completions, callerVars>>

\* A new socket gets the number.
Open(f) ==
  /\ usable[f] = "closed"
  /\ usable' = [usable EXCEPT ![f] = "open"]
  /\ UNCHANGED <<features, reactorVars, callerVars, ready>>

\* The deadline of a waiter passes.
Expire(w) ==
  /\ Waiting(w) /\ waiter[w].timed /\ ~waiter[w].expired
  /\ waiter' = [waiter EXCEPT ![w].expired = TRUE]
  /\ UNCHANGED <<features, running, registered, interest, pipe, loop, rescans,
                 polled, completions, callerVars, usable, ready>>

Stop ==
  /\ "stop" \in features
  /\ running
  /\ running' = FALSE
  /\ pipe' = TRUE
  /\ UNCHANGED <<features, waiter, registered, interest, loop, rescans, polled,
                 completions, callerVars, usable, ready>>
-----------------------------------------------------------------------------
ReactorStep ==
  Scan \/ End \/ PollReturns \/ Collect \/ \E c \in completions : RunCompletion(c)

\* What a caller, its worker and its timer do by themselves.
Continue(p) ==
  \/ Retry(p) \/ ParkCurrent(p) \/ FallAsleep(p) \/ TimerFires(p) \/ Dispatch(p)
  \/ \E w \in Waits : WaitAsync(p, w) \/ Wait(p, w) \/ Unblock(p, w)

Next ==
  \/ ReactorStep
  \/ \E p \in Procs :
       \/ Continue(p) \/ Sleep(p)
       \/ \E f \in Fds, parks, timed \in BOOLEAN : Ask(p, f, parks, timed)
  \/ \E p \in Strands : Resume(p) \/ Cancel(p)
  \/ \E f \in Fds : Arrives(f) \/ Drain(f) \/ NotifyClosed(f) \/ CloseFd(f) \/ Open(f)
  \/ \E w \in Waits : Expire(w)
  \/ Stop

Spec == Init /\ [][Next]_vars

\* The reactor thread runs, callers go on, deadlines pass, and a close that has
\* begun ends.
Fairness ==
  /\ WF_vars(ReactorStep)
  /\ \A p \in Procs : WF_vars(Continue(p))
  /\ \A f \in Fds : WF_vars(CloseFd(f))
  /\ \A w \in Waits : WF_vars(Expire(w))

FairSpec == Spec /\ Fairness
=============================================================================
