--------------------------------- MODULE Flow ---------------------------------
(***************************************************************************)
(* RuntimeFlowModule: a call of scatter_map spawns parts on a pool of its  *)
(* own, which share the items out, and gathers their results by polling.   *)
(* It may leave while parts still run: when its deadline passed, when the  *)
(* task that makes it was cancelled, or at the first failure of a part.    *)
(*                                                                         *)
(* Values are abstracted to the items they were computed from, so that     *)
(* results are sets of items: their order is left out, and with it what    *)
(* distinguishes the policies Collect and Ignore.  Parts are spawned in    *)
(* one step, since one that starts early does nothing that it could not do *)
(* later.  A result that is not shareable counts as a failure.             *)
(***************************************************************************)
EXTENDS SyncCalls

CONSTANT FlowPlans   \* the calls that are made

Policies == {"items", "chunks", "stride", "atomic"}

\* The options of a call after normalize_options, its number of items, and whether
\* the function asks another task for its result before it is done, which throws
\* TaskNotDoneError.
PlanRecord ==
  {pl \in [policy : Policies, first : BOOLEAN, probes : BOOLEAN, items : Nat,
           workers : Nat \ {0}] : pl.workers <= pl.items}

ASSUME PlansKnown == FlowPlans \subseteq PlanRecord

VARIABLES
  plan,       \* the call
  part,       \* its worker tasks: what each does, with which item
  nextItem,   \* next_index
  halted,     \* stop_requested
  asked,      \* the parts whose cancellation was requested
  completed,  \* the items whose value is recorded
  failures,   \* the items whose failure is recorded
  runs,       \* how often the function was called with each item
  seen,       \* done: the parts whose result was taken
  cursor,     \* the part that gather looks at next
  answer      \* what the caller was told

flowVars ==
  <<plan, part, nextItem, halted, asked, completed, failures, runs, seen, cursor,
    answer>>

\* Everything but the results and the progress of the parts.
gatherVars == <<plan, asked, seen, cursor, answer, callVars>>
-----------------------------------------------------------------------------
PerItem == plan.policy = "items"

PartsOf(pl) == 0..((IF pl.policy = "items" THEN pl.items ELSE pl.workers) - 1)

Parts == PartsOf(plan)

Items == 0..(plan.items - 1)

PartStates ==
  {"new", "queued", "looks", "runs", "fails", "done", "failed", "probed", "cancelled"}

FlowAnswers == {"none", "ok", "failed", "timeout", "cancelled"}

FlowTypeOK ==
  /\ plan \in FlowPlans
  /\ part \in [Parts -> [pc : PartStates, index : 0..(plan.items + plan.workers)]]
  /\ nextItem \in 0..(plan.items + plan.workers)
  /\ halted \in BOOLEAN
  /\ asked \subseteq Parts /\ seen \subseteq Parts
  /\ completed \subseteq Items /\ failures \subseteq Items
  /\ runs \in [Items -> 0..1]
  /\ cursor \in 0..Cardinality(Parts)
  /\ answer \in FlowAnswers

ChunkSize == (plan.items + plan.workers - 1) \div plan.workers

\* The quotient is rounded down.
BugShare(w) ==
  [from |-> w * (plan.items \div plan.workers),
   upto |-> (w + 1) * (plan.items \div plan.workers), by |-> 1]

\* The items that part w takes, unless the parts draw them from next_index.
Share(w) ==
  CASE plan.policy = "chunks" ->
         [from |-> w * ChunkSize, upto |-> Min({(w + 1) * ChunkSize, plan.items}),
          by |-> 1]
    [] plan.policy = "stride" ->
         [from |-> w, upto |-> plan.items, by |-> plan.workers]
    [] OTHER -> [from |-> w, upto |-> plan.items, by |-> 1]

FlowInit ==
  /\ plan \in FlowPlans
  /\ part = [w \in Parts |-> [pc |-> "new", index |-> 0]]
  /\ nextItem = 0
  /\ halted = FALSE
  /\ asked = {} /\ completed = {} /\ failures = {} /\ seen = {}
  /\ runs = [i \in Items |-> 0]
  /\ cursor = Cardinality(Parts)
  /\ answer = "none"
-----------------------------------------------------------------------------
Ended(w) == part[w].pc \in {"done", "failed", "probed", "cancelled"}

\* A part that failed is not taken for one that has ended.
BugHasResult(w) == part[w].pc \in {"done", "cancelled"}

\* gather takes a task for unfinished if the name of its error is TaskNotDoneError,
\* also when it is the error the task failed with.
HasResult(w) == Ended(w) /\ part[w].pc # "probed"

Moves(w, pc) == part' = [part EXCEPT ![w].pc = pc]

Calls(w, i) ==
  /\ part' = [part EXCEPT ![w] = [pc |-> "runs", index |-> i]]
  /\ runs' = [runs EXCEPT ![i] = @ + 1]

\* A worker of the pool begins the task.
Begin(w) ==
  /\ part[w].pc = "queued"
  /\ IF PerItem
       THEN Calls(w, w)
       ELSE /\ part' = [part EXCEPT ![w] = [pc |-> "looks", index |-> Share(w).from]]
            /\ UNCHANGED runs
  /\ UNCHANGED <<gatherVars, nextItem, halted, completed, failures>>

Draws == plan.policy = "atomic"

Exhausted(w) == ~Draws /\ part[w].index >= Share(w).upto

\* The part has no more to do, or another has failed.
Quit(w) ==
  /\ part[w].pc = "looks"
  /\ halted \/ Exhausted(w)
  /\ Moves(w, "done")
  /\ UNCHANGED <<gatherVars, nextItem, halted, completed, failures, runs>>

\* throw_if_runtime_task_cancelled
Notice(w) ==
  /\ part[w].pc = "looks"
  /\ ~halted /\ ~Exhausted(w)
  /\ w \in asked
  /\ Moves(w, "cancelled")
  /\ UNCHANGED <<gatherVars, nextItem, halted, completed, failures, runs>>

TakeItem(w) ==
  /\ part[w].pc = "looks"
  /\ ~halted /\ ~Exhausted(w)
  /\ w \notin asked
  /\ IF ~Draws
       THEN Calls(w, part[w].index) /\ UNCHANGED nextItem
       ELSE /\ nextItem' = nextItem + 1
            /\ IF nextItem < plan.items
                 THEN Calls(w, nextItem)
                 ELSE Moves(w, "done") /\ UNCHANGED runs
  /\ UNCHANGED <<gatherVars, halted, completed, failures>>

GoesOn(w) ==
  part' = [part EXCEPT ![w] = [pc |-> "looks", index |-> @.index + Share(w).by]]

\* The function ends; a task of its own per item ends with it.
ItemEnds(w) ==
  /\ PerItem
  /\ part[w].pc = "runs"
  /\ \E pc \in {"done", "failed", "probed", "cancelled"} :
       /\ pc = "cancelled" => w \in asked
       /\ pc = "probed" => plan.probes
       /\ Moves(w, pc)
  /\ UNCHANGED <<gatherVars, nextItem, halted, completed, failures, runs>>

\* record_success
Succeeds(w) ==
  /\ ~PerItem
  /\ part[w].pc = "runs"
  /\ completed' = completed \cup {part[w].index}
  /\ GoesOn(w)
  /\ UNCHANGED <<gatherVars, nextItem, halted, failures, runs>>

\* options is a reference to a variable of the call, and reads anything once
\* the call has returned.
FailsFirst == IF answer = "none" THEN {plan.first} ELSE BOOLEAN

\* record_failure, up to its lock.
Fails(w) ==
  /\ ~PerItem
  /\ part[w].pc = "runs"
  /\ \E first \in FailsFirst :
       /\ halted' = (halted \/ first)
       /\ IF first /\ halted THEN GoesOn(w) ELSE Moves(w, "fails")
  /\ UNCHANGED <<gatherVars, nextItem, completed, failures, runs>>

\* record_failure, under its lock.
Recorded(w) ==
  /\ part[w].pc = "fails"
  /\ failures' = failures \cup {part[w].index}
  /\ GoesOn(w)
  /\ UNCHANGED <<gatherVars, nextItem, halted, completed, runs>>

\* The function throws the cancellation of its task.
Unwinds(w) ==
  /\ ~PerItem
  /\ part[w].pc = "runs"
  /\ w \in asked
  /\ Moves(w, "cancelled")
  /\ UNCHANGED <<gatherVars, nextItem, halted, completed, failures, runs>>

PartStep(w) ==
  \/ Begin(w) \/ Quit(w) \/ Notice(w) \/ TakeItem(w)
  \/ ItemEnds(w) \/ Succeeds(w) \/ Fails(w) \/ Recorded(w) \/ Unwinds(w)
-----------------------------------------------------------------------------
Scatter(p, timeout) ==
  /\ In(p, "idle")
  /\ \A w \in Parts : part[w].pc = "new"
  /\ part' = [w \in Parts |-> [pc |-> "queued", index |-> 0]]
  /\ call' = [call EXCEPT ![p] =
                [Idle EXCEPT !.pc = "gather", !.timed = timeout # "never"]]
  /\ UNCHANGED <<plan, nextItem, halted, asked, completed, failures, runs, seen,
                 cursor, answer, cancelled>>

AtHead(p) == In(p, "gather") /\ cursor = Cardinality(Parts)

\* All parts have ended and their results were taken.
Gathered(p) ==
  /\ AtHead(p)
  /\ seen = Parts
  /\ answer' = IF plan.first /\ failures # {} THEN "failed" ELSE "ok"
  /\ Returns(p)
  /\ UNCHANGED <<plan, part, nextItem, halted, asked, completed, failures, runs,
                 seen, cursor, cancelled>>

\* cancel_unfinished: a task that waits for a worker ends at once.
CancelUnfinished(done) ==
  /\ asked' = {w \in Parts \ done : ~Ended(w)}
  /\ part' = [w \in Parts |->
                IF w \in asked' /\ part[w].pc = "queued"
                  THEN [part[w] EXCEPT !.pc = "cancelled"] ELSE part[w]]

Abandons(p) ==
  /\ AtHead(p)
  /\ seen # Parts
  /\ GivesUp(p)
  /\ answer' = IF p \in cancelled THEN "cancelled" ELSE "timeout"
  /\ CancelUnfinished(seen)
  /\ Returns(p)
  /\ UNCHANGED <<plan, nextItem, halted, completed, failures, runs, seen, cursor,
                 cancelled>>

LooksAgain(p) ==
  /\ AtHead(p)
  /\ seen # Parts
  /\ p \notin cancelled
  /\ cursor' = 0
  /\ UNCHANGED <<plan, part, nextItem, halted, asked, completed, failures, runs,
                 seen, answer, callVars>>

\* The part at the cursor runs, or its result was taken before.
Passes(p) ==
  /\ In(p, "gather")
  /\ cursor < Cardinality(Parts)
  /\ cursor \in seen \/ ~HasResult(cursor)
  /\ cursor' = cursor + 1
  /\ UNCHANGED <<plan, part, nextItem, halted, asked, completed, failures, runs,
                 seen, answer, callVars>>

\* accept_task_result.  Only a call that leaves cancels parts, so that the parts
\* of several items that are looked at here are done.
Accepts(p) ==
  /\ In(p, "gather")
  /\ cursor < Cardinality(Parts)
  /\ cursor \notin seen /\ HasResult(cursor)
  /\ seen' = seen \cup {cursor}
  /\ LET succeeded == part[cursor].pc = "done"
     IN  /\ completed' = IF PerItem /\ succeeded
                           THEN completed \cup {cursor} ELSE completed
         /\ failures' = IF succeeded THEN failures ELSE failures \cup {cursor}
         /\ IF succeeded \/ ~plan.first
              THEN /\ cursor' = cursor + 1
                   /\ UNCHANGED <<part, asked, answer, call>>
              ELSE /\ answer' = "failed"
                   /\ CancelUnfinished(seen')
                   /\ Returns(p)
                   /\ UNCHANGED cursor
  /\ UNCHANGED <<plan, nextItem, halted, runs, cancelled>>

GatherPoll(p) == Gathered(p) \/ Abandons(p) \/ LooksAgain(p) \/ Passes(p) \/ Accepts(p)

FlowStep(p) == GatherPoll(p) \/ \E timeout \in Timeouts : Scatter(p, timeout)

FlowEnvironment == \E w \in Parts : PartStep(w)
=============================================================================
