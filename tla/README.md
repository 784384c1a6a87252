# The Amber runtime in TLA+

This directory specifies and verifies the concurrent core of the Amber runtime
(`src/runtime/`): the scheduler that runs tasks on worker threads, the objects
through which tasks exchange values and wait for each other, the reactor that
waits for descriptors, the heap they share, the loader of modules, and the way in which
a program leaves its calls and `try` expressions. The
TLA+ modules are translated from the C++ source; `PROJECT.json` maps every
definition to the lines it stands for. `concurrency.cpp` and the other C++ files
named below are in `src/runtime/` (`emitter.cpp` and `format.h` in `src/bytecode/`); a line number alone is one of `concurrency.cpp`.

Contents: [the system](#the-system) · [the modules](#the-modules) ·
[Scheduler](#scheduler) · [Channel](#channel) · [Sync](#sync) · [Reactor](#reactor) ·
[Heap](#heap) · [ModuleLoader](#moduleloader) · [Unwinding](#unwinding) · [what TLC checks](#what-tlc-checks) ·
[what is proved](#what-is-proved) · [findings](#findings) ·
[observations](#observations) · [what is not modelled](#what-is-not-modelled) ·
[plan](#plan)

## The system

Amber is a language with a compiler (`frontend`, `bytecode`, `optimizer`), a
bytecode interpreter and a runtime library. The compiler is a chain of functions
of the program text. What is hard to get right is the runtime, where several
threads run tasks that cancel, join, wake and wait for each other.

| Component | State | Operations | Talks to |
|---|---|---|---|
| Scheduler (`RuntimeScheduler`, concurrency.cpp 2467-3480) | strands, global and local queues, timer heap, counters, one mutex, one condition variable | spawn, park, wake, timers, dispatch, join, cancel, finish, propagate, wait_until_idle, shutdown | every blocking primitive asks it whether the current task is cancelled; Reactor wakes its strands |
| Task handles, Task module (`stdlib_task.cpp`) | result of a task | async, spawn, wait, resume, cancel | Scheduler |
| Resumable VM driver (`vm.cpp` 13180-13290) | a suspended program | drive, park, return | Scheduler, Reactor |
| Channel, MoveSlot (1195-1755) | buffer, pending sends, waiting receivers, closed; slot state and reservation | send, send of a slot, recv, close, reset | cancellation flags of the Scheduler |
| Select (1755-1855) | none | tries its arms with timeout 0, in rotation | Channel, Awaitable |
| Mutex (1856-2012) | owner, waiters | lock, try_lock, unlock, synchronize | cancellation flags |
| Atomic (2040-2340) | a value | load, store, compare-and-set, update | - |
| Barrier (2340-2465) | parties, waiting, generation | wait | cancellation flags |
| Awaitable (878-1137) | pending or one completion, native wait | complete, fail, cancel, await, poll | pins and native waits of the Heap |
| Task-local context (`context.cpp`, 31-875) | stacks of scopes, inherited snapshots | get, with, clear | Scheduler (inherit at spawn, clear at end), frames of the interpreter, which close its scopes |
| Flow, threaded collections (3913-4935) | parts on a pool of their own, results, failures | scatter_map and what is built on it, gather | a Scheduler of their own |
| Reactor (`reactor.cpp`) | waiters on descriptors, poll backend, its thread | wait, wait_async, kick, notify_closed, stop | wakes strands of the Scheduler |
| Watch cells (`watch.cpp`) | cells and objects with revisions, subscribers | read, write, subscribe | interpreter |
| Heap (`heap.cpp`) | allocation records, arenas, remote frees, remembered set, pins | allocate, release, write barrier, collect, pin, destroy | interpreter, native threads |
| World (`world.cpp`) | classes, method tables, epochs | define, freeze, reload | interpreter |
| Module loader (`module_loader.cpp`) | module states, exports, import aliases | add, link, initialise, read | interpreter |
| Interpreter (`vm.cpp`, with the handler tables of `emitter.cpp`) | frames with what is pending on their return, block VMs, the fault or exception that escaped | call, return, raise, throw, handlers, park | Task-local context; the driver runs it |
| Values, I/O, networking, standard library, native extensions | - | - | - |
| Compiler, optimizer, packages, profiles, tools | - | - | - |

**What is hard.** Every finish of a task may end its parent, cancel its siblings
and so finish others, all inside one critical section over records that the inner
calls change. A wake may come between the request to park and the park, and from a
reactor whose completion outran its registration. Timers
outlive the sleeps they were set for. Workers, joiners and `wait_until_idle` share
one condition variable. Cancellation is a flag that running, parked, queued,
joining and waiting tasks each notice in another way. A sender, a waiter for a
mutex, a party of a barrier may time out, be
cancelled or find the object closed at the moment somebody serves it. A number of a
descriptor is closed and used again while a poll is under way. A collection starts
from the roots of one program while others hold objects, with a remembered set that
must not miss an edge. An exception, a throw, a return and a cancellation each find the way to
an `ensure` in another piece of code, across frames, clauses and VMs of blocks. The list with lines is under "hazards" in `PROJECT.json`.

**What makes it correct**, per component:

* Scheduler: a strand that can run is in one queue and is dispatched, on one worker;
  a sleep ends when its timer, a wake or a cancellation says so, and never by the
  timer of an earlier sleep; a task ends after its children and fails if one of
  them failed; cancellation reaches all descendants and unwinds suspended
  programs; counters are exact; joins, cancelled tasks and shutdown end.
* Channel: values arrive in order and once; the answer of `send` is true; the content
  of a slot has one owner; nobody waits for ever while somebody waits on the other
  side, or after close.
* Mutex: handed on, in order. Barrier: a generation counts those who wait for it.
  Awaitable: one completion, seen by all. Atomic: no update is lost. Flow: every item
  once, no failure dropped, and the call returns.
* Reactor: a parked strand has a wait or a wake coming, and no more than one; every
  cause to return ends a wait.
* Heap: nothing that can be reached is reclaimed; the remembered set is complete;
  the counts are exact. Module loader: initialised once, after the
  dependencies; nobody is blamed for another's failure; what a ready module exports
  is there.
* Interpreter: a program ends as it is written, clause by clause, whatever frames and VMs its
  handlers were found in; the scopes of task locals are those of the frames that are
  there.

## The modules

| Module | What it is |
|---|---|
| `Scheduler` | the scheduler, one action per critical section |
| `SchedulerProperties` | its invariants, action properties and liveness; the refinement mapping to `TaskLifecycle` |
| `TaskLifecycle` | abstract specification: tasks are created under active parents and end after their children, failed if one failed |
| `SchedulerProofs`, `InStepProofs` | the theorems about `Scheduler`, with proofs: families and the refinement; queues, timers, workers and counters |
| `Channel`, `ChannelProperties` | channels and move slots; the refinement mapping to `FifoChannel` |
| `FifoChannel` | abstract specification: sends that are decided about once, a line of accepted values, and room for so many |
| `SyncCalls` | what blocking calls have in common: one call at a time, deadlines, cancellation |
| `Mutex`, `Barrier`, `Awaitable`, `Atomic`, `Flow` | one object each; each extends `SyncCalls` |
| `Sync`, `SyncProperties` | the composition: callers that share several of these objects |
| `Reactor`, `ReactorProperties` | the reactor over epoll, with the callers that block or park in it |
| `Heap`, `HeapProperties` | the heap, with the programs and native threads that use it |
| `ModuleLoader`, `LoaderProperties` | the module loader |
| `Unwinding`, `UnwindingProperties` | frames, handlers and block VMs of one program and the end of its task; the meaning of a program |
| `ChannelProofs`, `SyncProofs`, `LoaderProofs`, `ReactorProofs`, `HeapProofs`, `UnwindingProofs` | theorems about `Channel`, `Sync`, `ModuleLoader`, `Reactor`, `Heap` and `Unwinding`, and their proofs |
| `MCScheduler`, `MCChannel`, `MCSync`, `MCReactor`, `MCHeap`, `MCLoader`, `MCUnwinding` and their `.cfg` files | finite instances |

Definitions whose name starts with `Bug` are mutants: each one is what the
definition below it would be after a plausible mistake. No other definition uses
them. Replacing the definition by its mutant makes the property named in
`PROJECT.json` ("mutants") fail, which shows that the property depends on that line
of the code.

Some modules take a constant set of settings (`Settings`, `ObjectSets`, `FeatureSets`,
`Scopes`, `FlowPlans`, `Programs`) and pick one of them initially: that is what was made, and
which part of the interface its users exercise, in this behaviour. One run then covers
several small instances.

## Scheduler

**Granularity.** Everything happens under `mutex_`, so an action is a critical
section. The exception is the recursion

    request_cancel -> (children) request_cancel -> finish_or_wait -> finalize
      -> propagate_child_terminal -> request_cancel (siblings) / finalize (parent)

which is modelled call by call: `agenda` is the stack of calls the thread in the
critical section has still to make, and while it is not empty no other thread moves
(`MutexFree`). The calls read the records at the moment they are made, as the code
does, so what an inner call changed is seen by the outer one.

| Code | Model |
|---|---|
| `strands_[id]` | `strand[t]`; state `"New"` means not spawned. `gen` is `wake_generation`, `pending` is `pending_completion_state`, `order` is `child_task_order`, `firstError` the child whose failure was recorded |
| `global_queue_`, `local_queues_`, `timers_` | `globalq`, `localq`, `timers`; `due` are the timers whose deadline has passed, so that time is only an order of events |
| `running_count_`, the completion statistics that `idle_locked` reads | `running`, `finished` |
| threads of the pool and callers from outside | `thread[w]`: `scan`, `body`, `join`, `notify`, `exited`; `thread[h]`: `free`, `join`, `idle`, `stop`, `reap`, `gone` |
| the wait set of `cv_` | `waiters`. `notify_one` removes one of them, whichever; a thread outside `waiters` with pc `scan`, `join` or `idle` is trying to get the mutex |
| `spawn_impl` | `Spawn`, `SpawnSleeping` by a host or by the strand a worker runs |
| `park_current`, the worker's park branch | `ParkCurrent`, `ReturnParked` |
| `wake_strand_impl` | `WakeParking`, `WakeSleeping`; other states coalesce the wake |
| `worker_loop`, `next_runnable_locked`, `promote_expired_timers_locked`, `prepare_to_run_locked` | `Scan` then, under the same mutex, `RunLocal`, `RunGlobal` or `Block`; `Exit` |
| end of a strand's function, `finish_or_wait_locked`, `finalize_task_locked`, `propagate_child_terminal_locked` | `ReturnFinished`, then calls `Settle` and `Adopt`; `Finalize` |
| `cancel_task`, `request_cancel_locked` | `CancelTask`, `CallCancel`, `CancelRest`, `CancelNotify` |
| `join_task` | `TaskJoin`, `TaskJoinAtOnce`, `HostJoin`, `JoinWake`, `JoinTimeout` |
| `wait_until_idle`, `shutdown` | `HostIdle`, `IdleWake`, `IdleTimeout`; `Shutdown`, `ShutdownNotify`, `ShutdownJoined` |

The children of a task are an `unordered_set` in the code and are listed in any order in
the model (`SetToSeqs`), except under the policy RestForOne, whose order matters.

**The environment.** The body of a strand may spawn, join, park, fail, return or
throw the cancellation error once its flag is set. After `park_current` it does
nothing but return (`InBody`): that is what the only caller that parks, the
driver in `vm.cpp` 13262-13285, does. `Features` names the parts of the
interface that a run exercises, so that each run stays small; `MaxGen` bounds how
often a strand parks.

**Fairness** (`FairSpec`). The calls on the agenda are made (weak fairness: nobody else
can move meanwhile). A thread that wants the mutex gets it: strong fairness, because
other threads take and release the mutex again and again, so that the step is
enabled repeatedly and not continuously. This covers the return of bodies (task
bodies are programs; one that never returns is outside the promise) and the end of
timed waits. Time passes, so timers expire. Nobody is obliged to spawn, park, wake,
join, cancel or shut down, and spurious wake-ups, though allowed, are not fair.

## Channel

An action is what a caller does while it holds the channel's mutex; the mutex of a
slot is taken inside it by `commit_move` and `release_move`, and alone by
`reserve_move` and `reset`, which are therefore actions of their own (`Reserve`,
`Reset`). A blocked sender or receiver sleeps for at most one millisecond
(`runtime_sync_wait_duration`) and looks again, so there is no wait set and no lost
notification: `RecvServed`, `RecvUnserved`, `SendAnswered` and `SendUnanswered` are its
polls, and a poll that changes nothing is no action.

Sends are numbered in the order in which they enter the channel, and the number
stands for the value. `promote_pending_sends_locked` and `take_value_locked` are loops
over the pending sends that drop those whose slot was reset; `Leaving(room)` says
how many sends such a loop removes and `Stream` which values are then in the
channel. A receiver makes room for one value more than the buffer holds
(`RoomToTake`), which covers promotion before and after the value is taken, and
the direct take from a sender when the capacity is 0. The active reservation of a
slot is recorded by its holder. A timeout is `"never"`, `"later"` (it may expire at any
poll) or `"zero"` (it has expired when it is first looked at); the channel arms of
`runtime_select` are calls with `"zero"`. `setting` is the channel that was made: its
capacity, the bound on the sends, the slots it is sent from and the timeouts of the calls.

`FifoChannel` is what is left without callers, waiters and slots: the fate of each send
(it waits, was accepted, was refused), the line of accepted values, and how many of them were
received. The mapping takes the fate from the `PendingSend` and not from the answer of `send`,
so a sender that is told anything else than what the channel did with its value changes a
fate, which `FifoChannel` forbids; the line is `received \o buffer`. One step of it may decide
about several sends, as one critical section of the code does.

**Fairness.** A waiting caller polls, and a caller that has reserved a slot goes on to
the channel (weak fairness: both stay enabled). Nobody has to call, close, cancel
or reset.

## Sync

The blocking objects share their manner of waiting, which is `SyncCalls`: a call
holds the mutex of its object except while it waits, it looks again at least every
millisecond, and it leaves when it is served, when its deadline passed or when its
task was cancelled, in the order in which the code looks at them. `call` is where each
caller waits, `cancelled` who has its flag set.

| Code | Model |
|---|---|
| `RuntimeMutex`: `owner_id_`, `locked_`, `waiters_` | `Mutex`: `owner`, `waiters`, and `sections`, the functions of `synchronize` a caller is inside |
| lock, unlock, synchronize, `remove_waiter_locked` | `LockNow`, `LockWait`, `Lock`, `LockGivesUp`; `Unlock`; `EndSection` |
| `RuntimeBarrier`: `parties_`, `waiting_`, `generation_` | `Barrier`: the same; `ArriveLast`, `Arrive`, `Pass`, `Withdraw` |
| `RuntimeAwaitable`: `state_`, the native wait and its pin | `Awaitable`: `result`, `wait`, `pinned`; `told` is what callers were told. `Complete`, `Fail`, `CancelAwaitable`, `AwaitNow`, `AwaitWait`, `AwaitEnds`, `Poll`; the environment may `Unpin` |
| `RuntimeAtomic`: `value_`, and update, which computes without the lock | `Atomic`: `value`; `UpdateReads`, `UpdateStores`, `UpdateAbandoned`, `Set`, `CompareAndSet`. `base` and `updates` record what the value should be |
| `RuntimeFlowModule`: the call (`scatter_map` and its partitioned form), the local state its tasks share, `gather` | `Flow`: `plan` (policy, items, workers, what to do at a failure), `part` (the worker tasks), `nextItem`, `halted`, `completed`, `failures`; `Scatter`, the steps of `PartStep`, and the polls of gather, one per handle it looks at (`Accepts`, `Passes`, `LooksAgain`, `Gathered`, `Abandons`) |

`Sync` composes them: the callers share one set of objects out of `ObjectSets`, so that a
caller may hold the mutex while it waits at the barrier, or update the
atomic inside a function of `synchronize`.

In `Flow`, values are abstracted to the items they were computed from, so that their order,
and with it what distinguishes the policies Collect and Ignore, is left out; the parts are
spawned in one step, a result that is not shareable counts as a failure, and one call
is made in a behaviour. `options` is a reference to a variable of the call, and reads
anything once the call has left (`FailsFirst`). Only a plan with `probes` has functions
that fail with TaskNotDoneError.

**Fairness.** Waiting callers poll, and the pool of a flow runs its parts, whose functions
end (weak fairness of each caller's polls and of the pool). Nobody has to call,
unlock, complete or cancel.

## Reactor

The reactor thread alternates between a scan of the waiters under its mutex, the
completions without it, the poll without it, and the collection of the result under
it again: `Scan`, `RunCompletion`, `PollReturns`, `Collect`. `registered` is what the
backend believes epoll watches, `interest` what it does watch, which the close of a
descriptor changes behind its back; `pipe` is the wake pipe.

A caller whose descriptor is not ready (`Ask`) either blocks in `wait` (`Wait`, `Unblock`),
or is a program that parks: `ParkCurrent` first, then `WaitAsync` with a completion
that wakes the strand, which tries its operation again (`Retry`). The scheduler is here what
the reactor sees of it: `phase` and `wakePending` of a strand, `Wake`, `FallAsleep`,
`Dispatch`. The code of these is in `Scheduler` in full; a wake while the
strand has asked to park and has not fallen asleep is held back in both.

Closing is two steps, `NotifyClosed` and `CloseFd`, after which `Open` may give the number to
another socket. Reads and writes of a stream park only without a deadline; the bodies of
an HTTP server, which park with one, are left out, and so are the kqueue and poll
backends. All waiters ask for the same readiness.

**Fairness.** The reactor thread runs, callers, their workers and timers go on, a close that
has begun ends, and deadlines pass: weak fairness, each of them stays enabled. Descriptors
need not become ready.

## Heap

An object is freed by the worker whose arena it came from when its count drops to zero;
another worker queues it there. Cycles are found by collections, which a program runs
at a safepoint after somebody asked for one. Every action is one section under the
mutex of the heap together with the program's own step around it.

| Code | Model |
|---|---|
| `objects_`, the headers | `object[o]`: `record` tells a live record from a tombstone (`logical_live`), `lifetime` what destroy! and dealloc did |
| `live_objects`, `remote_frees` of an arena; `remembered_set_`; `pending_gc_cycle_` | `live`, `remote`; `remembered` as pairs; `requested` |
| reference counts | the sets that hold a reference (`Referenced`); `dropped[w]` are the objects whose last reference worker `w` dropped and has still to release |
| `allocate`, `record_allocation`; `release`; `drain_remote_frees` | `Allocate`; `Release`; `Drain` |
| `write_barrier` with the store of a field; the stores of elements, which have no barrier | `StoreField`; `StoreElement` |
| `run_safepoint`, `collect_garbage` | `Safepoint`, `Collect`: `Roots`, `Marked`, `Collects`, promotion, `StillNeeded` (`cleanup_remembered_set_locked`) |
| destroy!, `memory.dealloc` | `BeginTeardown`, then destructors of the program, then `EndTeardown` |
| `pin`, `unpin`, native threads that hold values | `Pin`, `Unpin`, `Take`, `Pass`, `Let` |

The references of an object are a set. Barrier and store are one step although the
mutex is released between them; allocation merges the reservation, the constructor
and the record. `Marked` is defined by closure and not by the worklist of the code.

Nothing has to happen here, and no fairness is stated.

## ModuleLoader

The loader belongs to one thread. A step is what `initialize_dfs` does between two calls
of itself, and `stack` holds the frames of these calls: `FindReady`, `FindUnusable`,
`FindCycle`, `Begin`, `RunInit`, `InitFails`, `Unwind`. `Add`, `AddImportAlias`, `LinkModules`
and `Initialize` (of one module, or of all in the order of the map) are the calls from
outside, `Return` is their end. What the bytecode says, that is the
dependencies, the table of exports, whether a module has code to run, and whether the check
of its profile or of a dependency refuses it, is `program`, one of `Programs`. The state
of an export cell follows that of its module (`sync_export_states`) and is not kept apart;
`Resolved` is the chain of re-exports, `Resolution` its answer from the start. Module names are numbers, in the order of
`std::map`.

## Unwinding

One program runs on a stack of frames. Its `try` and `catch` expressions are entries of handler
tables, over ranges of program counters; their clauses are code of their own, which runs in a
frame that starts with a copy of the registers of the procedure and is merged back into
it. A builtin that calls a block runs it on a VM of its own, and what escapes from that is
raised or thrown again in the VM below.

| Code | Model |
|---|---|
| `frames_`, `Frame` (`vm_internal.h` 271-300), `block_vm_pool_` | `vms`, a stack of VMs with `frames`; of a frame its code, where it is, and what is `pending` on its return; `scope` is `scope_exit` |
| handler entries and clauses (`emitter.cpp` 3736-4029) | `Enclosing`, `Accepts`, `Handlers`: which entries cover a place; `EnsureInLine`, `RescueClause`, `RescueDoesNotMatch`, `EnsureClause`: the code of the clauses |
| call, block of a builtin, `TaskLocal.with`, try and catch | `CallMethod`, `CallBlock`, `OpenScope`, `EnterTry` |
| Return, Raise, Throw; `finish_return` | `ExecuteAct`, `Raise`, `FinishReturn` |
| `raise_value`, `throw_value` | `PopFrame` for each frame above the handler, `EnterHandler`, `Escape`; `way` says how the VM is being left |
| `merge_frame_registers`, `snapshot_active_catch_tags` | `Merged`, `kept`: of the registers, those that hold the tag of a catch |
| `call_block_to_value`, `BlockVmLease` | `BlockReturns`, `BlockEscapes`, `ReleaseBlockVm` |
| `task.sleep`; the driver | `Park`, `SleepEnds`, `SleepIsCancelled`; `EndTask` |
| `push_scope`, `pop_scope` | `context`: `Pushed`, `Popped` |

A program is a nest of constructs (`Programs`): a call, a block, a task-local scope, a `try` with
a rescue, an ensure or both, a `catch`. It has one act innermost and one after each
construct; the clauses may raise, throw, or not match. A program that is `wide` has clauses that
use so many registers that they overwrite those of the tags around them. Loops,
`break`, several rescue clauses, and `return` in a clause (which the emitter refuses) are
left out. `task.sleep` stands for every operation that parks; within a block VM it blocks
instead.

`Meaning` in `UnwindingProperties` says what a program means, from the inside out, without
frames, VMs or handler tables: a function that is recursive over the nest (`MeansOf`), of the
program, of the level whose sleep is cancelled (0 for none) and of the set of `quirks` in which
the compiled program differs from that (see the observations). About 6,000 randomly
generated programs, run by a build of the interpreter, ended as this meaning with all quirks
says. A program may sleep at several levels; the cancellation hits one of them.

Nothing has to happen here, and no fairness is stated; deadlock is checked, so that a task
can always go on to its end.

## What TLC checks

| Run | Instance | What it shows |
|---|---|---|
| `structured` | 3 tasks, 2 workers, all four policies; cancel and fail | `ChildrenEndFirst`, `ChildFailureReachesParent`, `FamiliesInStep` (no parent is forgotten, and cancellation reaches the children), refinement `ImplementsLifecycle`. Three tasks make a chain of three generations and a pair of siblings: enough for a cancellation that ends a child whose end ends its parent while the parent's own cancellation is on the stack. No task parks or joins here: that the tree stays in order then too is proved |
| `parking` | 2 resumable tasks, 1 worker, each parks twice; sleeps, joins, wakes, targeted wakes, cancel | `TypeOK`, `WakesInStep` (what is runnable is queued once, and no timer is early), `DeadlinesKept`, `ParkedProgramsUnwind`. Two parks are what it takes for a timer of the first to meet the second |
| `joins` | 2 tasks, 2 workers, 1 host, fair; joins with timeouts, cancel, fail, wait_until_idle, shutdown | `WorkersCounted` (one worker per strand, and exact counters), `CallersReturn` (who joins a task that ends comes back; shutdown returns unless a worker is blocked in a join), `CancelledTasksEnd`. Both workers may block in joins |
| `progress` | 2 tasks, 2 workers, fair; park and sleep | `RunnableIsDispatched`, `SleepersWake`, as long as only workers wait on `cv_` |
| `lost_wake` | 1 worker, 1 host, fair | violation, see [findings](#findings) |
| `channel` | 3 callers, one cancellable, fair; a rendezvous and capacity 1 with a slot that is reset once and 2 sends; capacities 0 and 2 with 3 plain sends, timeouts never and zero; capacity 1 with timeouts later and zero | `TypeOK`, `AnswersTrue`, `SlotsOwned`, `ImplementsFifo`, `WaitersServed`. Three callers allow two waiters of either kind and one who acts; one reset separates a reservation from the slot it was made for |
| `sync` | 3 callers, one cancellable, fair; mutex with barrier (2 or 3 parties, 2 generations), awaitable, mutex with atomic, or a flow: 3 items for 2 parts in chunks, strides or drawn one by one, 2 items with a task each, first failure or all | `TypeOK`, `ArrivalsCounted`, `OneResult`, `NoUpdateLost`, `FlowAnswersTrue`, `MutexServesInTurn`, `FlowEnds`. Two waiters and one who acts; 3 items for 2 parts are the smallest uneven share; two generations are what a late waiter confuses |
| `reactor` | 1 strand, 1 thread, 1 descriptor, 2 waits, fair; four sets of what may happen besides: sleep, explicit resume, cancel; close, cancel, sleep; close, resume; deadlines, cancel, stop | `TypeOK`, `SleepersAreWatched`, `NoStrayCompletion`, `WaitsEnd`. Two waits suffice for an old wait of the strand or the wait of the thread beside the new one; one number is reused |
| `heap` | 1 program that moves between 2 workers, 1 native thread; scopes of 3 objects (fields with all cycles; lists with tuples and all cycles) and of 2 (with migration, pins, teardown) | `TypeOK`, `EdgesRemembered`, `LiveCountsExact`, `NeededIsKept`. Three objects make a chain with a mature and a young end, and a cycle with a way in |
| `loader` | 3 modules: all graphs of up to two dependencies each (self included); three graphs with all tables of exports; all subsets of refused modules; 1 alias | `TypeOK`, `DependenciesFirst`, `FailuresExplained`, `ExportsAvailable`; no deadlock, so that every call returns. Three modules make cycles behind an entry, diamonds up to a shared leaf, and chains of re-exports through a module that fails |
| `unwinding` | all nests of 4 constructs (`Deep`), and all of 3 with one thing more in one of them (`Busy`): an act after it (a second sleep is one) or in a clause, or a rescue that does not match; every innermost act; wide or not | `TypeOK`, `AsWritten`, `ScopesMatchFrames`. Three constructs make a handler in one VM, what escapes from a second, and what is between them; the fourth puts a clause or a scope around or inside that |
| `ensure_skipped` | a throw to a catch through one construct of each kind | violation, see [findings](#findings) |

Deadlock is checked in `structured`, `parking`, `progress`, `lost_wake`, `loader`, `unwinding` and
`ensure_skipped`. The
others rightly stop: after a shutdown every thread is gone (`joins`), every caller may be
done or have used up a bound (`channel`, `sync`), the reactor has ended
(`reactor`), all objects are in use and forgotten nowhere (`heap`).
The sets of tasks and workers, and of objects, are symmetric in the runs that check
no liveness.

The bounds: `MaxGen` on the parks of a strand, `sends` and `MaxResets` on a channel, `MaxSections`
on nested functions of `synchronize`, `MaxGenerations` on a barrier, `MaxValue` on an
atomic, `room` on the objects of a heap, `MaxAliases` on import aliases, `Deep` and `Busy` on programs. They guard the
actions that would pass them and nothing else.

## What is proved

### Scheduler

`SchedulerProofs` proves, for all finite sets of tasks and all sets of workers and
hosts, all policies, features and bounds (the named assumptions of `Scheduler`:
tasks are finitely many, `None` is no task, tasks, workers and hosts are different
things, the bound is a natural number):

* `TypesKept`: `Spec => []TypeOK`
* `TasksEndAfterChildren`: `Spec => []ChildrenEndFirst`
* `FailuresPropagate`: `Spec => []ChildFailureReachesParent`
* `SchedulerImplementsLifecycle`: `Spec => ImplementsLifecycle`, the refinement of
  `TaskLifecycle`

The inductive invariant is

    Inv == TypeOK /\ AgendaValid /\ PendingSettles /\ WorkersHoldStrands
           /\ FamilyExists /\ FailuresKnown /\ ChildrenEndFirst
           /\ ChildFailureReachesParent

`ChildrenEndFirst` by itself is not inductive: a task ends in `Settle` or `Adopt`, which
look for active children, but a child could be added to an ended parent by a
spawn if a worker were in the body of an ended strand. `WorkersHoldStrands`
excludes it: the strand of a worker in a body is Running, or Waiting in a join, and has
nothing pending; and a strand that is held is never finalized. To keep that, the
stack of calls must be known: `AgendaValid` says which calls it holds and in which
order, and `PendingSettles` that a strand whose completion is recorded waits for its
children, has ended, or has a `settle` on the stack. `FamilyExists` says that parents
have been spawned and that a strand not yet spawned is blank, `FailuresKnown` that a parent with a
failed child knows of a failure, from which `FinalState` makes it fail.

The proof of `NextInv` has one lemma per action. Most steps change no family and no
completion (`Quiet`) and keep the invariant by `QuietInv`, `CallQuietInv` or `MovesInv`;
the remaining ones begin a task (`BeginsInv`), complete a body (`FinishOrWaitKeeps`)
or end a task (`EndsInv`, from `FinalizeEnds`). The same three classes map to a
stutter, `Create` and `End` of `TaskLifecycle` (`VisibleIsLifecycle`). `AlwaysInv` is
`Spec => []Inv`.

`InStepProofs` extends it to the state in which all that the scheduler keeps about a
strand agrees:

* `FamiliesAlwaysInStep`: `Spec => []FamiliesInStep`
* `WakesAlwaysInStep`: `Spec => []WakesInStep`
* `WorkersAlwaysCounted`: `Spec => []WorkersCounted`
* `SuspendedProgramsUnwind`: `Spec => ParkedProgramsUnwind`
* `SleepersKeepDeadlines`: `Spec => DeadlinesKept`

These properties are about the states in which the mutex is free. Inside a critical section they
do not hold, and the inductive invariant says what is still owed there:

    QueuesInStep        a strand is flagged as queued exactly if it can run and nothing has
                        ended it; it is in one queue then, once; what was ended in a
                        queue stays there, once
    TimersInStep        a timer that is not stale belongs to a sleep, or to one that a
                        cancellation has ended
    StrandsHaveWorkers  who runs or joins, with nothing recorded that ends it, is on a worker
    Counted             running_count_ and finished_count_, of those whose body has not
                        returned and those that have ended
    ParentsAwaited      a parent that waits for nobody has an `adopt` on the agenda
    ChildrenCondemned   the active children of one that is cancelled or was ended are
                        cancelled or have a `cancel` on the agenda
    SuspendedResume     a suspended program is not ended where it sleeps or queues

Two calls that follow each other owe different things, so each call of the agenda has its own
lemma, for what it pays and what it owes instead. A worker that has taken the mutex to
dispatch has no strand (`Dispatchers`, by itself inductive): otherwise the strand it takes
could be its second one. `DeadlinesKept` follows from the effects of the steps: the generation of a strand
that goes on sleeping stays the same (`SleepsOn`), and a scan takes a timer that is not stale
only from a strand that it wakes.

### Channel

`ChannelProofs` proves about `Channel`, for any callers, slots and capacity, and any number of
sends and resets:

* `ChannelTypes`: `Spec => []TypeOK`
* `ChannelOrder`: `Spec => []ValuesInOrder`
* `ChannelAnswers`: `Spec => []AnswersTrue`
* `ChannelSlots`: `Spec => []SlotsOwned`
* `ChannelImplementsFifo`: `Spec => ImplementsFifo`, the refinement of `FifoChannel`

The inductive invariant is `TypeOK /\ LineOrdered /\ Books(Taken, ToSet(pending), sent, slot, call)`.
`LineOrdered` says that the values that were received, those in the buffer and those of senders
that wait are one ascending line. The books are what three places know of a send:

    Lined     its state says where in the line it is, or that it has left it
    Awaited   a send without an answer is the one its caller waits for, and conversely
    Carried   what it carries is not newer than its slot, and is what is in the slot if
              it can still be committed
    Owned     a slot is Moved exactly if what was in it is in the buffer or was received,
              and no content is there twice
    Held      a reservation has one holder: a call about to send, or a pending send

Books are a predicate on any values of the variables, because one critical section of the code
moves several values: a receive takes one, and promotes as many pending senders as there is
room for. `LeaveBooks` is about them after the
first n senders have left the queue, some with their values taken, some of them failed. What the
promotions deliver is a recursive function over the queue of senders;
that it is well defined (`ValuesExist`) and what it returns is proved by counting
up the queue (`CountingUp`), since the induction theorems of the library cannot
be instantiated.

For the refinement one more thing must be known of every state: `FullIfPending`, that nobody
waits to send to an open channel while its buffer has room. With it each action is followed by
what it does to fates, line and room (`Moved`, one lemma per action): the loop of promotions
ends only when the queue is empty or the room is used up (`LeavingFills`), and what it delivers
goes behind what is in the buffer, whether or not the first value is received
(`StreamMoves`, `HeadMoves`). `MovedIsFifo` puts that together with the books before and after
the step: they say that the line is what was accepted, in order, and comes before those who wait.
`ValuesInOrder` is no property of a run of its own, since `ImplementsFifo` says as much of
what is received.

### Objects that callers share

`SyncProofs` proves about `Sync`, for any finite set of callers, any scopes, plans of
`scatter_map` (with any number of items and of workers) and bounds:

* `ObjectsKeepTheirTypes`: `Spec => []TypeOK`
* `BarriersCountArrivals`: `Spec => []ArrivalsCounted`
* `AwaitablesHaveOneResult`: `Spec => []OneResult`
* `UpdatesAreKept`: `Spec => []NoUpdateLost`
* `FlowsAnswerForAllItems`: `Spec => []FlowAnswersTrue`
* `LocksAreGrantedInTurn`: `Spec => GrantedInTurn`, the half of `MutexServesInTurn` that
  is an action property

Each object has an inductive invariant of its own (`MutexInv`, `BarrierInv`, `AwaitInv`,
`AtomicInv`, `FlowInv`), and their conjunction `SyncInv` is inductive because a step of one object
changes no call of another one (`LeavesCalls`): `StepCases` says of every step
that it is a step of the object or leaves the object and its calls alone.
`ArrivalsCounted` needs that nobody waits for a generation that has not begun; otherwise
the barrier that passes would meet callers who are not counted and yet wait for the next
generation. `GrantedInTurn` needs that the queue holds the callers in `lock`, and each of them
once: `Without` takes one entry out of it, and a caller who is in it twice would be granted
the mutex after it left.

`FlowAnswersTrue` is about the end of a call; what leads to it is in `FlowInv`:

    FlowPhases     one call gathers, once; parts are cancelled only when it leaves
    PartKinds      which states a part may have: a task of one item ends with it, a part
                   of several looks for the next
    TasksRun       a task of one item has run it unless it was not begun, and the recorded
                   results are those that gather took
    SharesRun      chunks and stride: the items of its share that a part has run are those
                   before its place
    DrawsRun       atomic: the items that were run are those below next_index; it passes
                   the last one at most once for each part
    RecordsKept    an item that was run is recorded, once, or a part has it in flight,
                   until a failure under First stops the parts or the call ends
    OneFails       under First the part that sets stop_requested is the only one that
                   records a failure, and without it nothing stops
    AnswersSettle  FlowAnswersTrue, and an answer about all items finds all parts ended

`RecordsKept` and `OneFails` are about the time in which the call has not answered: later the
parts read `options` through a dangling reference, and nothing said about them holds. That every
item is run under chunks and stride needs that the shares cover the items and do not
overlap, for any number of items and workers (`MineCovers`, `MineDisjoint`), from the quotients of
`ChunkSize`. `AllEnded` draws the conclusion when all results were taken.

### Module loader

`LoaderProofs` proves about `ModuleLoader`, for any finite set of modules and any
bytecode (graphs of dependencies, exports, refused modules):

* `InitializedAtMostOnce`: `Spec => []TypeOK`, with `runs` in 0..1
* `InitializedInOrder`: `Spec => []DependenciesFirst`
* `FailuresHaveCauses`: `Spec => []FailuresExplained`
* `ReadyModulesExport`: `Spec => []ExportsAvailable`

None of the first three is inductive: that a module comes after its dependencies follows from what
the frame of its call has looked at, and that a module marked as part of a cycle depends on
itself from what the frames above it are. The inductive invariant `LoaderInv` adds

    RunsOnce        a module that ran its initialiser is Ready
    LoadedTogether  during a call the dependencies of loaded modules are loaded
    StackInv        the frames are for different modules under initialisation; each waits
                    for the one above it (FramesWait), all that it looked at before is
                    Ready (FramesLooked), and it depends on all above it (FramesPath)
    FailedBelow     while a failure unwinds, the frame on top has a failed dependency

`DependsOn(m)` is the smallest set that is closed under dependencies; `DirectDependency`
and `DependencyOfDependency` are what the proof uses of it. Each step of the search is an
extension of the stack (`BeginKeeps`) or leaves a beginning of it
(`ReturnsTrueKeeps`, `ReturnsFalseKeeps`).

`Resolved` is a recursive function of a cell and the cells that its chain has seen. A chain
sees each cell once and the cells are finitely many (`NamesFinite`), so it is well defined
(`ResolvedUnfolds`) and never undefined at its end (`ChainsEnd`), both by counting up the cells
that are left (`CountingUp`, `AheadFalls`). `ExportsAvailable` then rests on two facts: the
chain of an initialised module meets initialised modules only, by `DependenciesFirst`
(`ResolvedReady`), and what was linked can be resolved (`ExportsKnown`), which is kept because
modules are loaded and never unloaded (`ResolvedStays`, `NextResolves`).

### Reactor

`ReactorProofs` proves about `Reactor`, for any callers, descriptors, waits and
sets of features:

* `ReactorKeepsTypes`: `Spec => []TypeOK`
* `NoWakeIsLost`: `Spec => []SleepersAreWatched`
* `CompletionsAreNotStray`: `Spec => []NoStrayCompletion`

`SleepersAreWatched` alone is not inductive: a completion may run before the worker
lets its strand sleep. The inductive invariant `ReactorInv` is about what is `Due` to a
caller, a wait in the table or a completion that was taken from it:

    Watched   a strand that is parked or sleeps in an operation has something due, or,
              while it is parked, a wake that the worker will find
    Single    a strand whom only the reactor wakes has at most one thing due, only while
              it is parked or sleeps in that operation, and none once the wake is pending
    WaiterOK, CallerOK, CollectsAfterCompletions
              which phases, operations and waits go together; the reactor begins a scan
              with no completion left

Most steps change neither what is due nor the phase of a caller, and keep its part of the
invariant by `ViewKeeps`; `CallerStepKeeps` and `QuietStepKeeps` lift that to the whole for
a step of one caller and for one of the reactor.

### Heap

`HeapProofs` proves about `Heap`, for any programs, native threads, workers and scopes, and
any finite set of objects:

* `HeapKeepsTypes`: `Spec => []TypeOK`
* `CountsAreExact`: `Spec => []LiveCountsExact`

and, for any of them with one program (`SingleProgram`; with two TLC has a
counterexample, see [findings](#findings)):

* `EdgesAreRemembered`: `Spec => []EdgesRemembered`
* `CollectionsKeepNeeded`: `Spec => NeededIsKept`

The inductive invariant `HeapInv` has next to the types and the counts

    BlankIsAbsent, TombstonesEmpty   what records that are not live still say
    NothingDangles   what is referenced has a record, and no worker is about to free it
    TeardownHeld     a program holds what it tears down

`FreeFromKeeps` is the argument for every step that frees (a release by the owner, a
drain, a safepoint, the end of a teardown), `HoldersMove` for those that leave the objects
alone. `decrement_live_locked` hides an underflow by stopping at zero: the count is exact
because only live objects are subtracted, and they are a part of those that are counted
(`LiveWithoutCounts`).

`EdgesRemembered` also needs `TeardownFresh`: the object that a program tears down has
not been deallocated, because the end of a `destroy!` would take it from Deallocated back
to Destroyed, and give its edges back without a barrier. A collection keeps the edges because
one that promotes leaves no young object that is live and not deallocated
(`CollectEdges`). For `NeededIsKept` the objects that are not live or were marked are
closed under fields and hold all frames and pins (`CollectKeepsNeeded`, from `MarkedCloses`).

### Unwinding

`UnwindingProofs` proves about `Unwinding`, for any set of programs (nests of any depth, with
any acts in them):

* `FramesKeepTheirTypes`: `Spec => []TypeOK`
* `ScopesAreOfFrames`: `Spec => []ScopesMatchFrames`
* `ProgramsEndAsWritten`: `Spec => []AsWritten`

The inductive invariant `Inv` says how frames and VMs lie on each other:

    FrameGood   a clause stays at its construct, a body is past its procedure; only an
                ensure clause has something pending; a scope is held by the body of a `with`
    FramesGood  a body lies on the frame that calls it, a clause on one that has left its
                construct (Carries); bodies are those of ever deeper procedures
    ParentGood  the VM below another one waits in the call of its block, or unwinds with
                what escaped from it
    Inside      the frames of a block VM are of procedures inside of those that called it
    TaskGood    a parked program is one VM that stands at an act; one that has ended has no
                frames

Most steps change only the VM in control, and `CallBlock`, `BlockReturns`, `BlockEscapes` and
`ReleaseBlockVm` open or close one. A step of the former kind keeps the invariant
by `MovesKeep` (`SetVmKeeps`), and what is left to show of each action is what it makes of the frames of one
VM (`CallFollows`, `ReplacedFollow`, `ClauseFollows`, `BelowFollows`).

`ScopesMatchFrames` is the part `ContextInv`. `pop_scope` refuses a scope that is not the last,
and its answer is dropped, so that each step must close the last one: `ScopesAre` says that the
scopes of the context are a given set of tokens, ascending, each with the binding before it, and
`PushScope` and `PopScope` what a push and a pop do to that. The scopes that
`unwind_all_frame_scopes` closes are a recursive function of the number of frames it has passed
(`AllPoppedUnfolds`), and `AllPoppedIs` counts up. Without `ScopesEntangled` only one
VM has scopes (`ScopesAbove`), so that a VM that is left closes all of them or none.

`AsWritten` says that the machine ends with what `Meaning` computes from the program alone. Two
more parts of the invariant connect the two at every step:

    CodeInv   what the frames that wait say of the program: no procedure between a body's
              own and the place it is at, no tag lost on the way in, a clause only on code
              that has just left its construct
    ToldInv   what the frame in control has come to (VmTells, TopTells). On the way in
              nothing has been said (Silent). After a construct, or when it is being left,
              the way, the log, the suppressed exceptions and the tags that are lost are
              those that the meaning gives to this construct (Tells); within a clause they
              are what the meaning has so far (RescueTells, EnsureTells). When the task has
              ended it is AsWritten

A level `k` of a cancelled sleep is one that is still to come, so `ToldInv` is stated for all
`k` up to the level in control; only a fault fixes one. `MeaningNext` has one lemma for each
action. Their common parts follow the two ways a construct can be passed: `PassesDown` and
`PassesToEnd` for handlers that are not there, `ConstructIs`, `EnsureTold`, `RescueTold`,
`CatchTold` and `CallComesBack` for what a construct does. `BodiesAround`, `Covered` and `BoundAt` show
that the binding a clause sees, which the machine takes from the context, is that of the innermost
`with` around it. Of the recursive function only its unfolding is used (`MeansUnfolds`): a
range of levels is passed by a greatest one up to which it holds (`GreatestNatural`), so that
no induction theorem is needed. Tags are compared only for the catches of the frame's own
procedure, and the suppressed exceptions as a set: an exception that is raised in an ensure
has the replaced one appended twice (see the observations), which `EnsureTells` carries as
`Replaces` from the raise to the frame's end.

The proof needed the cancelled level: with one flag for all sleeps of a program, `AsWritten` is
false of one that sleeps twice and is cancelled in the second, and the programs checked before did
not have two. It also asked for `Accepts` and, in `Reactor`, `Verdict` to be written with
`IF`, since the arms of a `CASE` that overlap are not in order.

### Only model-checked

Liveness, for which no prover of `ENABLED` and fairness is at hand: `FlowEnds`, the part
`FreeMutexIsTaken` of `MutexServesInTurn`, and the other properties with `~>` or `<>`. Every invariant and action property that a run checks
is a theorem.

## Findings

* **A wake can be lost** (`lost_wake`). `wake_strand` and `spawn` call `cv_.notify_one`, and
  the thread it wakes may be one in `wait_until_idle` or `join_task`, which waits again;
  the strand stays runnable with all workers asleep (2592, 2934).
* **A throw skips an ensure** (`ensure_skipped`). A `try` that has a rescue gets one handler entry, for
  its rescue (`emitter.cpp` 3821-3835), and a throw looks for `catch` and ensure entries
  (`vm.cpp` 12584): the ensure of such a `try` does not run. `amber_unified_final_spec.md` 1767
  wants it on every exit.

Two more have no run of their own, but TLC finds them with other constants:

* **gather may wait for ever.** It takes a task for unfinished when the name of
  its error is TaskNotDoneError (3961-3964), which is also the name of what the task itself
  may have failed with (vm.cpp 22107-22120). `MCSync` with `Procs <- OnlyP1`, `Timeouts = {"never"}`,
  `ObjectSets <- OnlyFlow`, `FlowPlans <- ProbingPlan` violates `FlowEnds`.
* **A collection frees what another program holds.** The programs of a
  runtime share the heap, and a safepoint collects with the frames of its own program as
  roots (`vm.cpp` 3506-3540), against `amber_runtime_project_design.md` 3653-3655. `MCHeap` with
  `Programs <- TwoPrograms`, `Natives <- NoNative`, `Workers <- OneWorker`, `Objects <- TwoObjects`,
  `Scopes <- OnlyLists` violates `NeededIsKept`.

## Observations

Seen while modelling, without a run of their own. Most are in the model, which allows
what the code does.

Scheduler and tasks:
* The cancellation of a task that has failed and waits for its children replaces the
  failure (3078-3086, 3133), against `amber_unified_final_spec.md` 2834-2838.
* `join_task` blocks the worker thread (2698), so tasks that join can occupy the pool.
* `cancel()` of a task already cancelled answers true; the specification, 17127-17128,
  wants false.
* A resumable program that is cancelled ends Failed, because its driver rethrows the
  CancelledError as a failure (`vm.cpp` 13263). A body that throws after `park_current`
  is parked, and its failure is dropped (3347).
* A cancelled strand leaves its queue entry, and dropping it notifies nobody in
  `wait_until_idle` (3390).
* Under CancelScope the failure of a child sets the flag of the parent, but does not
  wake a parent that is parked (3222).

Channel and Select:
* A send with timeout 0 on a rendezvous channel is refused although a receiver waits
  (1541), so a send arm of `select` (1817, 1820) cannot fire there; compare the
  specification, 17442.

Sync and Flow:
* One cancelled awaiter cancels the awaitable for all. The branch of `refresh_native_wait`
  for a cancelled poll is unreachable, and a native wait is only attached before the
  awaitable is shared.
* `Barrier.wait` reports `generation_ - 1` when it wakes (2398), which is a later generation
  if that one has ended too.
* Nothing releases a mutex that is held by a task that ends. A value of an atomic that
  was changed and changed back passes the comparison, harmlessly.
* The tasks of `scatter_map_partitioned` hold references to local variables of the call
  (4162-4221), and gather returns on a timeout or a cancellation while they run
  (3938-3953).
* A function of a flow that calls the same flow occupies a worker of the pool while it polls;
  as many nested calls as there are workers wait for each other.

Reactor:
* epoll forgets a closed descriptor and `registered_` does not: `sync` then changes an
  interest that is not there, and the new waiter is told Closed (252-256, 552-556;
  `reactor.h` 42-43).
* A wait registered between `notify_closed` and the close of the descriptor misses the
  notification (`io.cpp` 1963); `WaitsEnd` says who is still told.
* A reactor that was stopped runs the completion of `wait_async` under its mutex (390-394),
  against its own comment (485-489), and leaves the waiters it has unresolved.
* After an explicit resume the old wait stays, and its completion may cut a later
  `task.sleep` short. A cancellation between the check of the sleep (`vm.cpp` 22003) and
  `park_current` is noticed only when the timer fires.

Heap:
* The stores of elements have no write barrier (the calls of it are `vm.cpp` 10855 and
  28668), against `amber_runtime_project_design.md` 3641-3647. Marking starts from all
  frames in every cycle, also a young one, so an element of a list that the program can reach is
  kept all the same; `EdgesRemembered` speaks of instances only.
* Marking copies child values under the mutex (`heap.cpp` 346-350); `Destroying` is never
  set, so `vm.cpp` 2506 is dead and a destructor may run twice; a pin may come between
  the check and the end of a teardown (2515-2527).
* A later request replaces a stronger pending one (408-421). Frees queued for a worker that
  never runs a program again stay queued. Values in temporaries of native code are no
  roots. The branch that raises IsolationError is not reached by the stores of `vm.cpp`.

Module loader:
* Modules that import each other can never be initialised (656-672), whether or not one reads
  an export early; `amber_unified_final_spec.md` 1070 says that the state `initializing` is then
  observed, and the tests follow the code (`tests/module_loader_tests.cpp` 259).
* One failed module makes every later `link`, initialisation and `read_import_alias` fail, also
  of modules that are ready (569-574, 752). A member of a cycle not visited before the
  cycle is found stays Linked. The branch "not linked" (674-684) is unreachable. A re-export
  of a module that is not a declared dependency may not be ready.

Unwinding (all of these are what the compiled programs do):
* A fault that is no exception, like the CancelledError of a cancelled sleep, runs no ensure
  (13250-13253, quirk `"fault"`); the specification, 1767, wants it for cancellation too. So the
  resumption of a parked program that is cancelled, which `ParkedProgramsUnwind` asserts,
  closes its scopes and frees its VM, and runs none of its clauses.
* After a rescue or ensure clause that an exception ran, the catches around it may have lost their
  tags: the clause's registers are merged into the procedure (`vm.cpp` 12701-12728),
  and only a throw saves the tags first (12991-12996). A later throw to such a catch is then uncaught
  (quirk `"tags"`).
* With a scope of `TaskLocal.with` in a block within a scope, an exception that is caught below both
  closes the outer scope first (12748), while the lease still holds the VM of the
  block. `pop_scope` refuses that, nobody looks at its answer, and the outer value stays in force
  (`DESIGN-task-local-context-2026-07-14.md` 96-97 says that it is restored).
* An exception that an ensure clause raises has the one it replaces appended twice to its
  suppressed exceptions when its handler is below the clause (12893, 12753); the design,
  `amber_runtime_project_design.md` 7997, says that it is appended.
* Registers above 4095 do not fit a handler entry (`format.h` 229) and are cut without a
  diagnostic: a `try` late in a procedure of some thousand statements finds another register.

## What is not modelled

* Statistics that no decision reads, messages and error texts.
* The values of tasks and channels, and whether they are shareable: the refusal of a
  value changes no state.
* Task-local bindings but for scopes. Watch cells: counters and
  callbacks of one program. World: class tables, epochs and hot update, a large
  sequential data structure. They are planned below.
* In Heap: opaque handles, buffer views, the registry of native waits (`Awaitable` has them as
  it sees them). In Select: the rotation of the arms and the pauses. In Flow: the order of
  results and the operations of threaded collections, which are functions of them.
* The rest of the interpreter, that is its instructions, loops, patterns and dispatch of methods;
  the values, the standard library, I/O and networking wrappers,
  and the compiler: sequential code over large data, where a state machine would say
  little. `PROJECT.json` gives the reason for each. They are by far the most of the
  implementation's lines (`vm.cpp`, the compiler driver, the bytecode format, the parser and
  the emitter alone are some 70,000 of 147,000), so the share of all lines that
  the modules cover is small, while nearly all the code in which two actors meet is covered.

## Plan

1. Done: `Scheduler`, `TaskLifecycle`, `SchedulerProofs`; `Channel`; the Sync family with
   `Flow`; `Reactor`; `Heap`; `ModuleLoader`; `Unwinding`.
2. Loops with `break` in `Unwinding`, and its composition with the parks of `Scheduler`.
   `World`: epochs and hot update beside a collection.
3. Proofs: all invariants are proved, and both refinements. Next: abstract specifications of
   the mutex and the barrier, and a module for the lemmas that `SyncProofs`, `ChannelProofs`
   and `UnwindingProofs` have in common.
