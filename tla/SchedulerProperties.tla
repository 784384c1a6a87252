------------------------- MODULE SchedulerProperties -------------------------
(***************************************************************************)
(* What RuntimeScheduler promises.  Invariants are about the states in     *)
(* which the mutex is free, unless they say otherwise.                     *)
(***************************************************************************)
EXTENDS Scheduler

\* The places of t in a queue, and how often it is in all of them.
Places(q, t) == {i \in DOMAIN q : q[i] = t}

Entries(t) ==
  Cardinality(Places(globalq, t))
  + Cardinality(UNION {{w} \X Places(localq[w], t) : w \in Workers})

\* A strand that can run is in exactly one queue, once, and flagged as queued;
\* no other strand is flagged.  Otherwise wake_strand, the timers, the park
\* transition and cancellation between them dispatch a strand twice, or never.
RunnableQueuedOnce ==
  MutexFree => \A t \in Tasks :
    /\ (strand[t].state = "Runnable") = strand[t].queued
    /\ strand[t].queued => Entries(t) = 1

\* A strand that is Running, or Waiting inside join_task, is on exactly one
\* worker, and a worker is in the body of no other strand.
OneWorkerPerStrand ==
  MutexFree => \A t \in Tasks :
    LET on == {w \in Workers : thread[w].cur = t} IN
    /\ Cardinality(on) <= 1
    /\ (on # {}) = \/ strand[t].state = "Running"
                   \/ strand[t].state = "Waiting" /\ strand[t].pending = "New"
    /\ strand[t].state = "Running" => on = {strand[t].worker}

\* running_count_ and the three counters of ended strands, from which
\* wait_until_idle decides that all work is done, are exact: no join, park or
\* re-entrant finalization counts a strand twice or forgets one.
CountersExact ==
  MutexFree =>
    /\ running = Cardinality({t \in Tasks : strand[t].state = "Running"})
    /\ finished = Cardinality({t \in Tasks : IsTerminal(t)})

\* Structured concurrency: a task ends only after all of its children.
ChildrenEndFirst ==
  \A t \in Tasks : IsTerminal(t) => \A c \in Children(t) : IsTerminal(c)

\* A task with a failed child ends Failed, whatever its own completion was and
\* whoever was cancelled in between.
ChildFailureReachesParent ==
  \A c \in Tasks : LET p == strand[c].parent IN
    p # None /\ strand[c].state = "Failed" /\ IsTerminal(p)
      => strand[p].state = "Failed"

\* Nobody forgets a parent that has returned and waits for its children: one of
\* them is still active, and so will end it.
NoForgottenParent ==
  MutexFree => \A t \in Tasks :
    strand[t].state = "Waiting" /\ strand[t].pending # "New"
      => HasActiveChildren(t)

\* Cancellation reaches every descendant, also those spawned after the request:
\* under a task that is cancelled, or whose body has failed or was cancelled,
\* every active child is cancelled.
CancellationReachesChildren ==
  MutexFree => \A t \in Tasks :
    (strand[t].cancel \/ strand[t].pending \in {"Failed", "Cancelled"})
      => \A c \in ActiveChildren(t) : strand[c].cancel

\* A timer wakes the sleep it was set for and no later one: no entry of the heap
\* is from the future, and no strand awake has a live entry.
TimersNotEarly ==
  \A e \in timers :
    /\ e.gen <= strand[e.id].gen
    /\ strand[e.id].gen = e.gen =>
         strand[e.id].state \in {"Sleeping", "Waiting"} \cup Terminal

\* A strand is run again for each thing that it waited for, once and not before:
\* the queues, the flags and the timers say the same of it.
WakesInStep == RunnableQueuedOnce /\ TimersNotEarly

\* What the workers do is what the records and the counters of the scheduler say.
WorkersCounted == OneWorkerPerStrand /\ CountersExact

\* Waiting parents have children to wait for, and cancelled ones cancelled children.
FamiliesInStep == NoForgottenParent /\ CancellationReachesChildren
-----------------------------------------------------------------------------
\* The scheduler implements the life cycle of structured tasks: whatever the
\* workers, the wakes and the re-entrant cancellations do, every step creates one
\* task under an active parent, or ends one after its children, or is invisible.
Status(t) ==
  CASE strand[t].state = "New" -> "absent"
    [] IsTerminal(t) -> strand[t].state
    [] OTHER -> "active"

Lifecycle == INSTANCE TaskLifecycle
  WITH status <- [t \in Tasks |-> Status(t)],
       parent <- [t \in Tasks |-> strand[t].parent]

ImplementsLifecycle == Lifecycle!Spec
-----------------------------------------------------------------------------
\* The timer that will end the sleep of t is in the heap.
TimerLive(t) ==
  /\ strand[t].state = "Sleeping"
  /\ [id |-> t, gen |-> strand[t].gen] \in timers

\* A sleep with a deadline loses its timer only by ending: no explicit wake, no
\* timer of another sleep and no cancellation leaves the strand asleep without it.
DeadlinesKept ==
  [][\A t \in Tasks :
       TimerLive(t) => TimerLive(t)' \/ strand'[t].state # "Sleeping"]_vars

\* A resumable strand that has parked holds a suspended program: cancellation
\* resumes it, so that it unwinds, and never ends it where it sleeps or queues.
ParkedProgramsUnwind ==
  [][\A t \in Tasks :
       (/\ strand[t].resumable /\ strand[t].parkedOnce
        /\ ~IsTerminal(t) /\ strand'[t].state \in Terminal)
         => strand[t].state \in {"Running", "Waiting"}]_vars

-----------------------------------------------------------------------------
\* A strand that is put in a queue is dispatched or ends, unless the pool is shut
\* down: the notify that came with it reached a worker.
RunnableIsDispatched ==
  \A t \in Tasks :
    strand[t].state = "Runnable" ~> strand[t].state # "Runnable" \/ stopping

\* A strand whose timer is live does not sleep for ever, unless the pool is shut
\* down: some worker waits for that deadline and no longer.
SleepersWake ==
  \A t \in Tasks :
    TimerLive(t) ~> strand[t].state # "Sleeping" \/ stopping

\* A cancelled task ends, also one that waits for another in join_task, unless
\* the pool is shut down.
CancelledTasksEnd ==
  \A t \in Tasks : strand[t].cancel ~> IsTerminal(t) \/ stopping

\* Who joins a task that ends comes back.
JoinersReturn ==
  \A th \in Threads :
    (thread[th].pc = "join" /\ IsTerminal(thread[th].target))
      ~> thread[th].pc # "join"

\* shutdown returns, unless a worker stays in join_task: the task it waits for may
\* never run again.
ShutdownReturns ==
  \A h \in Hosts :
    <>[](thread[h].pc \in {"stop", "reap"})
      => \E w \in Workers : <>[](thread[w].pc = "join")

\* The blocking calls return: every state change they wait for is followed by a
\* notification that reaches them.
CallersReturn == JoinersReturn /\ ShutdownReturns
=============================================================================
