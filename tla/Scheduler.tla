------------------------------ MODULE Scheduler ------------------------------
(***************************************************************************)
(* RuntimeScheduler of src/runtime/concurrency.cpp: a pool of worker       *)
(* threads that runs strands (tasks) from one global and several local     *)
(* queues, timers, park and wake, join, structured cancellation and        *)
(* failure propagation.                                                    *)
(*                                                                         *)
(* Everything the scheduler does happens under one std::mutex.  An action  *)
(* is one critical section, with one exception: the mutually recursive     *)
(* calls request_cancel -> finish_or_wait -> finalize -> propagate ->      *)
(* request_cancel run inside a single critical section, and are modelled   *)
(* call by call.  "agenda" is the stack of calls still to be made by the   *)
(* thread that holds the mutex; while it is not empty nobody else moves.   *)
(*                                                                         *)
(* There is ONE condition variable, cv_, for the workers that wait for     *)
(* work, for the callers of join_task and for wait_until_idle: "waiters"   *)
(* is its wait set.                                                        *)
(*                                                                         *)
(* Names that start with Bug are the mutants: each is what the definition  *)
(* after it would be after a plausible mistake in the code it models, and  *)
(* is used by no other definition.                                         *)
(***************************************************************************)
EXTENDS Integers, SequencesExt

CONSTANTS
  Tasks,       \* the strands that may be spawned
  Workers,     \* the worker threads
  Hosts,       \* threads outside the pool that block in join or wait_until_idle
  None,        \* no task
  Policies,    \* the supervisor policies tasks are spawned with
  Resumable,   \* the values of resume_on_cancel tasks are spawned with
  Features,    \* the parts of the interface that are called
  MaxGen       \* bound on wake_generation, and so on the parks of a strand

PolicyNames == {"CancelScope", "OneForOne", "OneForAll", "RestForOne"}
FeatureNames == {"sleep", "park", "targeted", "join", "timed_join", "cancel",
                 "fail", "idle", "shutdown"}

ASSUME FiniteTasks == IsFiniteSet(Tasks)
ASSUME NoneIsNoTask == None \notin Tasks
ASSUME ThreadsDistinct == Workers \cap Hosts = {}
ASSUME TasksAreNotThreads == Tasks \cap Workers = {}
ASSUME PoliciesKnown == Policies \subseteq PolicyNames
ASSUME ResumableKnown == Resumable \subseteq BOOLEAN
ASSUME FeaturesKnown == Features \subseteq FeatureNames
ASSUME MaxGenNat == MaxGen \in Nat

Threads == Workers \cup Hosts

VARIABLES
  strand,      \* strands_: the record of every strand
  globalq,     \* global_queue_
  localq,      \* local_queues_, by worker
  timers,      \* timers_: the entries of the timer heap
  due,         \* the entries of timers whose deadline has passed
  running,     \* running_count_
  finished,    \* strands_completed + strands_failed + tasks_cancelled
  thread,      \* where each thread is
  waiters,     \* the threads blocked in cv_
  stopping,    \* shutdown_requested_
  agenda       \* the calls the holder of mutex_ has still to make

vars == <<strand, globalq, localq, timers, due, running, finished, thread,
          waiters, stopping, agenda>>

queueVars  == <<globalq, localq>>
timerVars  == <<timers, due>>
threadVars == <<thread, waiters, stopping>>
-----------------------------------------------------------------------------
(* Types *)

Terminal == {"Done", "Failed", "Cancelled"}
States == {"New", "Runnable", "Running", "Sleeping", "Waiting"} \cup Terminal
Completions == {"New"} \cup Terminal

StrandRecord ==
  [state : States, worker : Workers \cup {None}, gen : Nat,
   wakePending : BOOLEAN, queued : BOOLEAN,
   parkPending : BOOLEAN, parkTimed : BOOLEAN, parkWake : BOOLEAN,
   parkTo : Workers \cup {None}, parkedOnce : BOOLEAN, parent : Tasks \cup {None}, order : Seq(Tasks),
   cancel : BOOLEAN, pending : Completions, firstError : Tasks \cup {None},
   policy : PolicyNames, resumable : BOOLEAN]

\* A strand that has not been spawned has no record: state New stands for that.
NoStrand ==
  [state |-> "New", worker |-> None, gen |-> 0,
   wakePending |-> FALSE, queued |-> FALSE,
   parkPending |-> FALSE, parkTimed |-> FALSE, parkWake |-> FALSE,
   parkTo |-> None, parkedOnce |-> FALSE, parent |-> None, order |-> <<>>,
   cancel |-> FALSE, pending |-> "New", firstError |-> None,
   policy |-> "CancelScope", resumable |-> FALSE]

TimerEntry == [id : Tasks, gen : Nat]

WorkerPlaces == {"scan", "body", "join", "notify", "exited"}
HostPlaces == {"free", "join", "idle", "stop", "reap", "gone"}
ThreadRecord == [pc : WorkerPlaces \cup HostPlaces, cur : Tasks \cup {None},
                 target : Tasks \cup {None}, timed : BOOLEAN]

Call == [op : {"cancel", "cancel_rest", "settle", "adopt"}, id : Tasks]
        \cup [op : {"dispatch"}, id : Workers]
        \cup [op : {"notify_all"}, id : {None}]

TypeOK ==
  /\ strand \in [Tasks -> StrandRecord]
  /\ globalq \in Seq(Tasks)
  /\ localq \in [Workers -> Seq(Tasks)]
  /\ timers \in SUBSET TimerEntry
  /\ due \in SUBSET timers
  /\ running \in Nat
  /\ finished \in Nat
  /\ thread \in [Threads -> ThreadRecord]
  /\ waiters \in SUBSET Threads
  /\ stopping \in BOOLEAN
  /\ agenda \in Seq(Call)
-----------------------------------------------------------------------------
(* Helpers *)

Spawned(t) == strand[t].state # "New"
IsTerminal(t) == strand[t].state \in Terminal

\* child_task_ids of p
Children(p) == {c \in Tasks : strand[c].parent = p}

\* Children that wait for their own children are taken for ended ones.
BugActiveChildren(p) ==
  {c \in Children(p) : strand[c].state \in {"Runnable", "Running", "Sleeping"}}

ActiveChildren(p) == {c \in Children(p) : ~IsTerminal(c)}
HasActiveChildren(p) == ActiveChildren(p) # {}

\* In child_task_order of p, c comes before d.
SpawnedBefore(p, c, d) ==
  \E i, j \in DOMAIN strand[p].order :
    i < j /\ strand[p].order[i] = c /\ strand[p].order[j] = d

MutexFree == agenda = <<>>

BugNotifyNobody == UNCHANGED waiters

\* cv_.notify_one() and cv_.notify_all()
NotifyOne == \/ waiters = {} /\ UNCHANGED waiters
             \/ \E th \in waiters : waiters' = waiters \ {th}
NotifyAll == waiters' = {}

\* A call of request_cancel_locked for every strand of a list, in its order.
CancelEach(list) == [i \in DOMAIN list |-> [op |-> "cancel", id |-> list[i]]]

Update(t, record) == strand' = [strand EXCEPT ![t] = record]

\* The strand a worker is running may call the scheduler until it has asked to
\* park: the drivers that park return at once.
InBody(w) == /\ MutexFree
             /\ thread[w].pc = "body"
             /\ ~strand[thread[w].cur].parkPending
-----------------------------------------------------------------------------
Init ==
  /\ strand = [t \in Tasks |-> NoStrand]
  /\ globalq = <<>>
  /\ localq = [w \in Workers |-> <<>>]
  /\ timers = {}
  /\ due = {}
  /\ running = 0
  /\ finished = 0
  /\ thread = [th \in Threads |->
                 [pc |-> IF th \in Workers THEN "scan" ELSE "free",
                  cur |-> None, target |-> None, timed |-> FALSE]]
  /\ waiters = {}
  /\ stopping = FALSE
  /\ agenda = <<>>
-----------------------------------------------------------------------------
(* Spawning.  parent is the strand of the calling thread, None for a host. *)

\* strands_[strand_id] = std::move(strand), and the entry in its parent.
Record(t, parent, new) ==
  strand' = [u \in Tasks |->
               IF u = t THEN new
               ELSE IF u = parent
                    THEN [strand[u] EXCEPT !.order = Append(@, t)]
                    ELSE strand[u]]

\* A child does not inherit the cancellation of its parent.
BugFreshStrand(parent, policy, resumable) ==
  [NoStrand EXCEPT !.state = "Runnable", !.queued = TRUE, !.parent = parent,
                   !.policy = policy, !.resumable = resumable]

FreshStrand(parent, policy, resumable) ==
  [NoStrand EXCEPT !.state = "Runnable",
                   !.queued = TRUE,
                   !.parent = parent,
                   !.cancel = IF parent = None THEN FALSE
                              ELSE strand[parent].cancel,
                   !.policy = policy,
                   !.resumable = resumable]

\* spawn_impl without a delay.
Spawn(t, parent, policy, resumable) ==
  /\ strand[t].state = "New"
  /\ Record(t, parent, FreshStrand(parent, policy, resumable))
  /\ globalq' = Append(globalq, t)
  /\ NotifyOne
  /\ UNCHANGED <<localq, timers, due, running, finished, thread, stopping,
                 agenda>>

\* spawn_impl with a delay: a timer instead of an entry in the queue.
SpawnSleeping(t, parent, policy, resumable) ==
  /\ "sleep" \in Features
  /\ strand[t].state = "New"
  /\ Record(t, parent,
            [FreshStrand(parent, policy, resumable) EXCEPT
               !.state = "Sleeping", !.queued = FALSE, !.gen = 1])
  /\ timers' = timers \cup {[id |-> t, gen |-> 1]}
  /\ NotifyOne
  /\ UNCHANGED <<globalq, localq, due, running, finished, thread, stopping,
                 agenda>>

SpawnAny(t, parent) ==
  \E policy \in Policies, resumable \in Resumable :
    \/ Spawn(t, parent, policy, resumable)
    \/ SpawnSleeping(t, parent, policy, resumable)

HostSpawn == MutexFree /\ \E t \in Tasks : SpawnAny(t, None)

TaskSpawn(w) == InBody(w) /\ \E t \in Tasks : SpawnAny(t, thread[w].cur)
-----------------------------------------------------------------------------
(* Parking and waking *)

\* park_current, from the body of the strand that w runs.
ParkCurrent(w, timed) ==
  LET t == thread[w].cur IN
  /\ "park" \in Features
  /\ InBody(w)
  /\ strand[t].state = "Running"
  /\ strand[t].gen < MaxGen
  /\ Update(t, [strand[t] EXCEPT !.parkPending = TRUE, !.parkTimed = timed])
  /\ UNCHANGED <<queueVars, timerVars, running, finished, threadVars, agenda>>

\* A wake may name the worker whose local queue the strand goes to; without one
\* (None) it goes to the global queue.
WakeTargets ==
  {None} \cup (IF "targeted" \in Features THEN Workers ELSE {})

\* wake_strand_impl for a strand that has asked to park but is still Running.
WakeParking(t, to) ==
  /\ MutexFree
  /\ strand[t].state = "Running"
  /\ strand[t].parkPending
  /\ Update(t, [strand[t] EXCEPT !.parkWake = TRUE, !.parkTo = to])
  /\ UNCHANGED <<queueVars, timerVars, running, finished, threadVars, agenda>>

\* The record of a Sleeping strand that is woken explicitly.
Woken(t) == [strand[t] EXCEPT !.gen = @ + 1, !.wakePending = TRUE,
                              !.state = "Runnable", !.queued = TRUE]

\* The queue a strand is put in by enqueue_runnable_locked.
Enqueue(t, to) ==
  IF to = None
  THEN globalq' = Append(globalq, t) /\ UNCHANGED localq
  ELSE /\ localq' = [localq EXCEPT ![to] = Append(@, t)]
       /\ UNCHANGED globalq

\* wake_strand_impl for a Sleeping strand; in every other state the call is
\* coalesced and changes nothing.
WakeSleeping(t, to) ==
  /\ MutexFree
  /\ strand[t].state = "Sleeping"
  /\ ~strand[t].wakePending
  /\ ~strand[t].queued
  /\ Update(t, Woken(t))
  /\ Enqueue(t, to)
  /\ IF to = None THEN NotifyOne ELSE NotifyAll
  /\ UNCHANGED <<timerVars, running, finished, thread, stopping, agenda>>

\* Time passes: the deadline of a timer entry is reached.
Expire(e) ==
  /\ MutexFree
  /\ e \in timers \ due
  /\ due' = due \cup {e}
  /\ UNCHANGED <<strand, queueVars, timers, running, finished, threadVars,
                 agenda>>
-----------------------------------------------------------------------------
(* The worker loop: looking for a strand *)

\* The generation of a timer is off by one.
BugPromoted == {e.id : e \in {d \in due : /\ strand[d.id].state = "Sleeping"
                                           /\ strand[d.id].gen = d.gen + 1}}

\* The strands that promote_expired_timers_locked wakes: the entries whose
\* generation is stale are dropped.
Promoted == {e.id : e \in {d \in due : /\ strand[d.id].state = "Sleeping"
                                        /\ strand[d.id].gen = d.gen}}

\* The top of the loop: the mutex is taken, and next_runnable_locked first moves
\* the expired timers to the queue of this worker, in the order of their
\* deadlines.  The call "dispatch" is the rest of next_runnable_locked.
Scan(w) ==
  /\ MutexFree
  /\ thread[w].pc = "scan"
  /\ w \notin waiters
  /\ ~stopping
  /\ \E order \in SetToSeqs(Promoted) :
       localq' = [localq EXCEPT ![w] = @ \o order]
  /\ strand' = [t \in Tasks |->
                  IF t \in Promoted
                  THEN [strand[t] EXCEPT !.wakePending = TRUE,
                                         !.state = "Runnable",
                                         !.queued = TRUE]
                  ELSE strand[t]]
  /\ timers' = timers \ due
  /\ due' = {}
  /\ agenda' = <<[op |-> "dispatch", id |-> w]>>
  /\ UNCHANGED <<globalq, running, finished, threadVars>>

\* Whatever is at the front of a queue is run.
BugFirstRunnable(q, i) == i = 1 /\ q # <<>>

\* prepare_to_run_locked accepts an entry whose strand is still Runnable.  The
\* first such entry of queue q is at i; those before it are popped and dropped.
FirstRunnable(q, i) ==
  /\ i \in DOMAIN q
  /\ strand[q[i]].state = "Runnable"
  /\ \A j \in 1..(i - 1) : strand[q[j]].state # "Runnable"

NoneRunnable(q) == \A i \in DOMAIN q : strand[q[i]].state # "Runnable"

\* front() without pop_front().
BugBehind(q, i) == SubSeq(q, i, Len(q))

Behind(q, i) == SubSeq(q, i + 1, Len(q))

Dispatching(w) == /\ agenda # <<>>
                  /\ Head(agenda).op = "dispatch"
                  /\ Head(agenda).id = w
                  /\ agenda' = Tail(agenda)

\* The rest of prepare_to_run_locked, and the worker that leaves the mutex.
Run(w, t) ==
  /\ Update(t, [strand[t] EXCEPT !.state = "Running", !.queued = FALSE,
                                 !.wakePending = FALSE, !.worker = w])
  /\ running' = running + 1
  /\ thread' = [thread EXCEPT ![w] = [@ EXCEPT !.pc = "body", !.cur = t]]
  /\ UNCHANGED <<timerVars, finished, waiters, stopping>>

RunLocal(w) ==
  /\ Dispatching(w)
  /\ \E i \in DOMAIN localq[w] :
       /\ FirstRunnable(localq[w], i)
       /\ Run(w, localq[w][i])
       /\ localq' = [localq EXCEPT ![w] = Behind(@, i)]
  /\ UNCHANGED globalq

RunGlobal(w) ==
  /\ Dispatching(w)
  /\ NoneRunnable(localq[w])
  /\ \E i \in DOMAIN globalq :
       /\ FirstRunnable(globalq, i)
       /\ Run(w, globalq[i])
       /\ globalq' = Behind(globalq, i)
  /\ localq' = [localq EXCEPT ![w] = <<>>]

\* cv_.wait even if there are timers.
BugHasDeadline == FALSE

HasDeadline == timers # {}

\* Nothing to run: cv_.wait, or cv_.wait_until the next deadline.
Block(w) ==
  /\ Dispatching(w)
  /\ NoneRunnable(localq[w])
  /\ NoneRunnable(globalq)
  /\ localq' = [localq EXCEPT ![w] = <<>>]
  /\ globalq' = <<>>
  /\ waiters' = waiters \cup {w}
  /\ thread' = [thread EXCEPT ![w].timed = HasDeadline]
  /\ UNCHANGED <<strand, timerVars, running, finished, stopping>>

\* cv_ lets a thread go: the deadline of a wait_until, or a spurious wake-up.
WakeUp(th) ==
  /\ MutexFree
  /\ th \in waiters
  /\ waiters' = waiters \ {th}
  /\ UNCHANGED <<strand, queueVars, timerVars, running, finished, thread,
                 stopping, agenda>>

WaitExpires(w) == thread[w].pc = "scan" /\ thread[w].timed /\ WakeUp(w)

\* The worker leaves the loop once a shutdown has been requested.
Exit(w) ==
  /\ MutexFree
  /\ thread[w].pc = "scan"
  /\ w \notin waiters
  /\ stopping
  /\ thread' = [thread EXCEPT ![w].pc = "exited"]
  /\ UNCHANGED <<strand, queueVars, timerVars, running, finished, waiters,
                 stopping, agenda>>
-----------------------------------------------------------------------------
(* The worker loop: the function of the strand has returned *)

Leave(w) ==
  thread' = [thread EXCEPT ![w] = [@ EXCEPT !.pc = "notify", !.cur = None]]

BugDecrement(n) == IF n > 1 THEN n - 1 ELSE n

Decrement(n) == IF n > 0 THEN n - 1 ELSE n

\* park_pending is consumed, and what came with it.
Unparked(s) ==
  [s EXCEPT !.parkPending = FALSE, !.parkTimed = s.parkWake /\ s.parkTimed,
            !.parkWake = FALSE, !.parkTo = None, !.parkedOnce = TRUE]

\* The record of a strand that has parked: it sleeps or, when a wake came first,
\* is Runnable again and keeps the deadline it asked for.
Parked(s) ==
  [Unparked(s) EXCEPT !.state = IF s.parkWake THEN "Runnable" ELSE "Sleeping",
                      !.queued = s.parkWake, !.wakePending = FALSE,
                      !.worker = None, !.gen = @ + 1]

\* The strand had asked to park.
ReturnParked(w) ==
  LET t == thread[w].cur
      s == strand[t]
  IN
  /\ MutexFree
  /\ thread[w].pc = "body"
  /\ s.parkPending
  /\ Update(t, Parked(s))
  /\ IF s.parkWake THEN Enqueue(t, s.parkTo) ELSE UNCHANGED queueVars
  /\ timers' = IF ~s.parkWake /\ s.parkTimed
               THEN timers \cup {[id |-> t, gen |-> s.gen + 1]}
               ELSE timers
  /\ running' = Decrement(running)
  /\ Leave(w)
  /\ UNCHANGED <<due, finished, waiters, stopping, agenda>>

\* The head of finish_or_wait_locked for a strand whose record is s: the
\* completion is recorded and, unless it is Done, the children are cancelled.
\* A terminal child ignores the request, so only the active ones are listed.
\* The rest of finish_or_wait_locked is the call "settle"; then come the calls
\* of "rest".
FinishOrWait(t, s, outcome, rest) ==
  /\ Update(t, [s EXCEPT !.pending = outcome, !.queued = FALSE,
                         !.wakePending = FALSE])
  /\ IF outcome = "Done"
     THEN agenda' = <<[op |-> "settle", id |-> t]>> \o rest
     ELSE \E order \in SetToSeqs(ActiveChildren(t)) :
            agenda' = CancelEach(order) \o <<[op |-> "settle", id |-> t]>>
                      \o rest

\* The strand has ended: Done, Failed, or Cancelled when the body noticed a
\* cancellation and threw RuntimeTaskCancelled.
ReturnFinished(w, outcome) ==
  LET t == thread[w].cur IN
  /\ MutexFree
  /\ thread[w].pc = "body"
  /\ ~strand[t].parkPending
  /\ outcome = "Failed" => "fail" \in Features
  /\ outcome = "Cancelled" => strand[t].cancel
  /\ FinishOrWait(t, [strand[t] EXCEPT !.worker = None], outcome, <<>>)
  /\ running' = Decrement(running)
  /\ Leave(w)
  /\ UNCHANGED <<queueVars, timerVars, finished, waiters, stopping>>

\* cv_.notify_all() at the end of an iteration, after the mutex was released.
NotifyAfter(w) ==
  /\ MutexFree
  /\ thread[w].pc = "notify"
  /\ NotifyAll
  /\ thread' = [thread EXCEPT ![w].pc = "scan"]
  /\ UNCHANGED <<strand, queueVars, timerVars, running, finished, stopping,
                 agenda>>
-----------------------------------------------------------------------------
(* Cancelling, finishing and propagating: the calls on the agenda *)

\* cancel_task: request_cancel_locked, then notify_all under the same lock.
CancelTask(t) ==
  /\ MutexFree
  /\ "cancel" \in Features
  /\ Spawned(t)
  /\ agenda' = <<[op |-> "cancel", id |-> t],
                 [op |-> "notify_all", id |-> None]>>
  /\ UNCHANGED <<strand, queueVars, timerVars, running, finished, threadVars>>

Calling(op, t) == agenda # <<>> /\ Head(agenda) = [op |-> op, id |-> t]

\* The head of request_cancel_locked, up to the cancellation of the children.
CallCancel(t) ==
  /\ Calling("cancel", t)
  /\ IF IsTerminal(t)
     THEN agenda' = Tail(agenda) /\ UNCHANGED strand
     ELSE /\ Update(t, [strand[t] EXCEPT !.cancel = TRUE])
          /\ \E order \in SetToSeqs(ActiveChildren(t)) :
               agenda' = CancelEach(order)
                         \o <<[op |-> "cancel_rest", id |-> t]>> \o Tail(agenda)
  /\ UNCHANGED <<queueVars, timerVars, running, finished, threadVars>>

\* A resumable strand that was parked is resumed to observe the cancellation.
ResumesOnCancel(t) == strand[t].resumable /\ strand[t].parkedOnce

\* A strand that is queued after a park is not spared.
BugEndsQueued(t) ==
  \/ strand[t].state = "Running"
  \/ strand[t].state = "Waiting" /\ strand[t].pending = "New"

\* The strand will notice by itself: it runs, it waits in join_task, or it is
\* already queued after a park.
NoticesCancel(t) ==
  \/ strand[t].state = "Running"
  \/ ResumesOnCancel(t) /\ strand[t].state = "Runnable"
  \/ strand[t].state = "Waiting" /\ strand[t].pending = "New"

\* It has asked to park: the park is turned into a wake.
ResumesParking(t) ==
  strand[t].state = "Running" /\ strand[t].resumable /\ strand[t].parkPending

\* The rest of request_cancel_locked.
CancelRest(t) ==
  /\ Calling("cancel_rest", t)
  /\ \/ \* the strand became terminal while its children were cancelled
        /\ IsTerminal(t)
        /\ agenda' = Tail(agenda)
        /\ UNCHANGED <<strand, globalq>>
     \/ /\ NoticesCancel(t)
        /\ IF ResumesParking(t)
           THEN Update(t, [strand[t] EXCEPT !.parkWake = TRUE, !.parkTo = None])
           ELSE UNCHANGED strand
        /\ agenda' = Tail(agenda)
        /\ UNCHANGED globalq
     \/ /\ ResumesOnCancel(t)
        /\ strand[t].state = "Sleeping"
        /\ Update(t, Woken(t))
        /\ globalq' = Append(globalq, t)
        /\ agenda' = Tail(agenda)
     \/ /\ ~IsTerminal(t)
        /\ ~NoticesCancel(t)
        /\ ~(ResumesOnCancel(t) /\ strand[t].state = "Sleeping")
        /\ FinishOrWait(t, strand[t], "Cancelled", Tail(agenda))
        /\ UNCHANGED globalq
  /\ UNCHANGED <<localq, timerVars, running, finished, threadVars>>

\* The failure of a child is used only when nothing is pending.
BugFinalState(t) ==
  IF strand[t].pending # "New" THEN strand[t].pending
  ELSE IF strand[t].firstError # None THEN "Failed"
  ELSE IF strand[t].cancel THEN "Cancelled" ELSE "Done"

\* The state finalize_task_locked ends t in: the failure of a child overrides
\* everything but a failure of its own.
FinalState(t) ==
  IF strand[t].firstError # None THEN "Failed"
  ELSE IF strand[t].pending # "New" THEN strand[t].pending
  ELSE IF strand[t].cancel THEN "Cancelled" ELSE "Done"

\* The active children of p that its supervisor policy cancels when its child c
\* is the first to fail, and the orders in which it may go through them.
Supervised(p, c) ==
  CASE strand[p].policy \in {"CancelScope", "OneForAll"} -> ActiveChildren(p) \ {c}
    [] strand[p].policy = "OneForOne" -> {}
    [] strand[p].policy = "RestForOne" ->
         {d \in ActiveChildren(p) : SpawnedBefore(p, c, d)}

SupervisionOrders(p, c) ==
  {list \in SetToSeqs(Supervised(p, c)) :
     strand[p].policy = "RestForOne" =>
       \A i, j \in DOMAIN list : i < j => SpawnedBefore(p, list[i], list[j])}

\* A task without a parent is not told apart.
BugHasLiveParent(t) ==
  strand[t].parent # None => ~IsTerminal(strand[t].parent)

HasLiveParent(t) ==
  strand[t].parent # None /\ ~IsTerminal(strand[t].parent)

\* The record of a parent that learns of the first failure among its children.
Informed(p, c) ==
  [strand[p] EXCEPT !.firstError = c,
                    !.cancel = @ \/ strand[p].policy = "CancelScope"]

\* finalize_task_locked and the head of propagate_child_terminal_locked: the
\* parent learns of a first failure and cancels what its policy says.  The rest
\* of propagate_child_terminal_locked is the call "adopt".
Finalize(t) ==
  LET p == strand[t].parent
      final == FinalState(t)
      gone == [strand[t] EXCEPT !.state = final, !.worker = None,
                                !.queued = FALSE, !.wakePending = FALSE]
      adopt == <<[op |-> "adopt", id |-> p]>> \o Tail(agenda)
  IN
  /\ finished' = finished + 1
  /\ \/ /\ ~HasLiveParent(t)
        /\ Update(t, gone)
        /\ agenda' = Tail(agenda)
     \/ /\ HasLiveParent(t)
        /\ final # "Failed" \/ strand[p].firstError # None
        /\ Update(t, gone)
        /\ agenda' = adopt
     \/ /\ HasLiveParent(t)
        /\ final = "Failed"
        /\ strand[p].firstError = None
        /\ strand' = [strand EXCEPT ![t] = gone, ![p] = Informed(p, t)]
        /\ \E order \in SupervisionOrders(p, t) :
             agenda' = CancelEach(order) \o adopt

\* The rest of finish_or_wait_locked: wait for the children, or end.
Settle(t) ==
  /\ Calling("settle", t)
  /\ \/ /\ HasActiveChildren(t)
        /\ Update(t, [strand[t] EXCEPT !.state = "Waiting", !.worker = None])
        /\ agenda' = Tail(agenda)
        /\ UNCHANGED finished
     \/ /\ ~HasActiveChildren(t)
        /\ IsTerminal(t)
        /\ agenda' = Tail(agenda)
        /\ UNCHANGED <<strand, finished>>
     \/ /\ ~HasActiveChildren(t)
        /\ ~IsTerminal(t)
        /\ Finalize(t)
  /\ UNCHANGED <<queueVars, timerVars, running, threadVars>>

\* The last child of a parent that only waited for its children: it ends too.
ChildrenAwaited(p) ==
  /\ strand[p].state = "Waiting"
  /\ strand[p].pending # "New"
  /\ ~HasActiveChildren(p)

Adopt(p) ==
  /\ Calling("adopt", p)
  /\ \/ /\ ~ChildrenAwaited(p)
        /\ agenda' = Tail(agenda)
        /\ UNCHANGED <<strand, finished>>
     \/ /\ ChildrenAwaited(p)
        /\ Finalize(p)
  /\ UNCHANGED <<queueVars, timerVars, running, threadVars>>

CancelNotify ==
  /\ Calling("notify_all", None)
  /\ agenda' = Tail(agenda)
  /\ NotifyAll
  /\ UNCHANGED <<strand, queueVars, timerVars, running, finished, thread,
                 stopping>>
-----------------------------------------------------------------------------
(* join_task *)

\* The strand of the calling thread: None for a host.
Caller(th) == thread[th].cur

\* The cancellation of the caller does not end its join.
BugJoinDone(th, target) == IsTerminal(target)

\* wait_done
JoinDone(th, target) ==
  \/ IsTerminal(target)
  \/ Caller(th) # None /\ strand[Caller(th)].cancel

Joining(th, target, timed) ==
  thread' = [thread EXCEPT ![th] = [@ EXCEPT !.pc = "join", !.target = target,
                                            !.timed = timed]]

\* A task may join any spawned task but itself.
CanJoin(w, target) ==
  "join" \in Features /\ InBody(w) /\ Spawned(target) /\ target # thread[w].cur

\* wait_done holds already: the task has been Waiting for a moment, and all that
\* is left of it is that everybody was notified.
TaskJoinAtOnce(w, target) ==
  /\ CanJoin(w, target)
  /\ JoinDone(w, target)
  /\ NotifyAll
  /\ UNCHANGED <<strand, queueVars, timerVars, running, finished, thread,
                 stopping, agenda>>

\* A task joins another one: it becomes Waiting, everybody is notified, and it
\* blocks.
TaskJoin(w, target, timed) ==
  LET t == thread[w].cur IN
  /\ CanJoin(w, target)
  /\ timed => "timed_join" \in Features
  /\ ~JoinDone(w, target)
  /\ Update(t, [strand[t] EXCEPT !.state = "Waiting", !.worker = None])
  /\ running' = Decrement(running)
  /\ waiters' = {w}
  /\ Joining(w, target, timed)
  /\ UNCHANGED <<queueVars, timerVars, finished, stopping, agenda>>

\* A host thread joins a task.
HostJoin(h, target, timed) ==
  /\ "join" \in Features
  /\ timed => "timed_join" \in Features
  /\ MutexFree
  /\ thread[h].pc = "free"
  /\ Spawned(target)
  /\ ~JoinDone(h, target)
  /\ waiters' = waiters \cup {h}
  /\ Joining(h, target, timed)
  /\ UNCHANGED <<strand, queueVars, timerVars, running, finished, stopping,
                 agenda>>

\* join_task returns: a task is Running again.
JoinReturn(th) ==
  LET t == Caller(th) IN
  /\ thread' = [thread EXCEPT ![th] =
                  [@ EXCEPT !.pc = IF t = None THEN "free" ELSE "body",
                            !.target = None, !.timed = FALSE]]
  /\ waiters' = waiters \ {th}
  /\ IF t # None /\ strand[t].state = "Waiting"
     THEN /\ Update(t, [strand[t] EXCEPT !.state = "Running", !.worker = th])
          /\ running' = running + 1
     ELSE UNCHANGED <<strand, running>>
  /\ UNCHANGED <<queueVars, timerVars, finished, stopping, agenda>>

\* A notified joiner evaluates wait_done: it returns or waits again.
JoinWake(th) ==
  /\ MutexFree
  /\ thread[th].pc = "join"
  /\ th \notin waiters
  /\ \/ JoinDone(th, thread[th].target) /\ JoinReturn(th)
     \/ /\ ~JoinDone(th, thread[th].target)
        /\ waiters' = waiters \cup {th}
        /\ UNCHANGED <<strand, queueVars, timerVars, running, finished, thread,
                       stopping, agenda>>

\* The timeout of the join: it returns whatever wait_done says.
JoinTimeout(th) ==
  /\ MutexFree
  /\ thread[th].pc = "join"
  /\ thread[th].timed
  /\ JoinReturn(th)
-----------------------------------------------------------------------------
(* wait_until_idle and shutdown *)

\* idle_locked: the strands created are those with a record.
Idle ==
  /\ running = 0
  /\ globalq = <<>>
  /\ \A w \in Workers : localq[w] = <<>>
  /\ finished = Cardinality({t \in Tasks : Spawned(t)})

HostIdle(h) ==
  /\ MutexFree
  /\ "idle" \in Features
  /\ thread[h].pc = "free"
  /\ ~Idle
  /\ thread' = [thread EXCEPT ![h].pc = "idle"]
  /\ waiters' = waiters \cup {h}
  /\ UNCHANGED <<strand, queueVars, timerVars, running, finished, stopping,
                 agenda>>

\* A notified thread evaluates idle_locked: it returns or waits again.
IdleWake(h) ==
  /\ MutexFree
  /\ thread[h].pc = "idle"
  /\ h \notin waiters
  /\ thread' = [thread EXCEPT ![h].pc = IF Idle THEN "free" ELSE "idle"]
  /\ waiters' = IF Idle THEN waiters ELSE waiters \cup {h}
  /\ UNCHANGED <<strand, queueVars, timerVars, running, finished, stopping,
                 agenda>>

\* wait_until_idle always has a timeout.
IdleTimeout(h) ==
  /\ MutexFree
  /\ thread[h].pc = "idle"
  /\ thread' = [thread EXCEPT ![h].pc = "free"]
  /\ waiters' = waiters \ {h}
  /\ UNCHANGED <<strand, queueVars, timerVars, running, finished, stopping,
                 agenda>>

\* shutdown: the flag is set under the mutex, the workers are notified after it
\* is released, and then they are joined.
Shutdown(h) ==
  /\ MutexFree
  /\ "shutdown" \in Features
  /\ thread[h].pc = "free"
  /\ ~stopping
  /\ stopping' = TRUE
  /\ thread' = [thread EXCEPT ![h].pc = "stop"]
  /\ UNCHANGED <<strand, queueVars, timerVars, running, finished, waiters,
                 agenda>>

ShutdownNotify(h) ==
  /\ MutexFree
  /\ thread[h].pc = "stop"
  /\ NotifyAll
  /\ thread' = [thread EXCEPT ![h].pc = "reap"]
  /\ UNCHANGED <<strand, queueVars, timerVars, running, finished, stopping,
                 agenda>>

ShutdownJoined(h) ==
  /\ MutexFree
  /\ thread[h].pc = "reap"
  /\ \A w \in Workers : thread[w].pc = "exited"
  /\ thread' = [thread EXCEPT ![h].pc = "gone"]
  /\ UNCHANGED <<strand, queueVars, timerVars, running, finished, waiters,
                 stopping, agenda>>
-----------------------------------------------------------------------------
\* A call made under the mutex.
Calls ==
  \/ \E w \in Workers : RunLocal(w) \/ RunGlobal(w) \/ Block(w)
  \/ \E t \in Tasks : CallCancel(t) \/ CancelRest(t) \/ Settle(t) \/ Adopt(t)
  \/ CancelNotify

\* What the threads of the pool and the host threads do by themselves.
WorkerStep(w) ==
  \/ Scan(w) \/ Exit(w) \/ ReturnParked(w) \/ NotifyAfter(w)
  \/ \E outcome \in Terminal : ReturnFinished(w, outcome)

Body(w) ==
  \/ TaskSpawn(w)
  \/ \E timed \in BOOLEAN : ParkCurrent(w, timed)
  \/ \E target \in Tasks : TaskJoinAtOnce(w, target)
  \/ \E target \in Tasks, timed \in BOOLEAN : TaskJoin(w, target, timed)

HostStep(h) ==
  \/ \E target \in Tasks, timed \in BOOLEAN : HostJoin(h, target, timed)
  \/ HostIdle(h) \/ IdleWake(h) \/ IdleTimeout(h)
  \/ Shutdown(h) \/ ShutdownNotify(h) \/ ShutdownJoined(h)

Next ==
  \/ Calls
  \/ \E w \in Workers : WorkerStep(w) \/ Body(w)
  \/ \E h \in Hosts : HostStep(h)
  \/ \E th \in Threads : JoinWake(th) \/ JoinTimeout(th) \/ WakeUp(th)
  \/ HostSpawn
  \/ \E t \in Tasks, to \in WakeTargets :
       WakeParking(t, to) \/ WakeSleeping(t, to)
  \/ \E t \in Tasks : CancelTask(t)
  \/ \E e \in timers : Expire(e)

Spec == Init /\ [][Next]_vars

\* The next step of a thread that is not left to the program it runs.
ThreadStep(th) ==
  \/ th \in Workers /\ (WorkerStep(th) \/ WaitExpires(th))
  \/ th \in Hosts /\ (\/ IdleWake(th) \/ IdleTimeout(th)
                       \/ ShutdownNotify(th) \/ ShutdownJoined(th))
  \/ JoinWake(th)

\* Fairness: the calls under the mutex are made; a thread that wants the mutex
\* gets it in the end (others hold it again and again, hence SF); bodies return,
\* time passes and a timed wait ends.  Nothing is assumed of who spawns, parks,
\* wakes, joins, cancels or shuts down.
Fairness ==
  /\ WF_vars(Calls)
  /\ \A th \in Threads : SF_vars(ThreadStep(th))
  /\ SF_vars(\E e \in timers : Expire(e))

FairSpec == Spec /\ Fairness
=============================================================================
