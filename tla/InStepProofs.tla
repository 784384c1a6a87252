----------------------------- MODULE InStepProofs -----------------------------
(***************************************************************************)
(* More theorems about RuntimeScheduler, for every set of tasks, workers   *)
(* and hosts: that its queues, timers, workers, counters and families say  *)
(* the same of a strand as its record does.                                *)
(*                                                                         *)
(* They are about the states in which the mutex is free.  The inductive    *)
(* invariant speaks of the others too: there a completion may be recorded  *)
(* that has not taken effect, and what is still to be done is on the       *)
(* agenda.                                                                 *)
(***************************************************************************)
EXTENDS SchedulerProofs

\* A strand is flagged as queued while it can run and nothing has ended it.
CanRun(t) == strand[t].state = "Runnable" /\ strand[t].pending = "New"

FlagsTrue == \A t \in Tasks : strand[t].queued <=> CanRun(t)

\* The places of t in the queues.
Queued(t) == \/ \E i \in DOMAIN globalq : globalq[i] = t
             \/ \E w \in Workers : \E i \in DOMAIN localq[w] : localq[w][i] = t

\* No strand is twice in the queues, and one whose completion is not recorded is
\* there exactly while it can run.  A strand that was ended in a queue stays there.
EntriesUnique ==
  /\ \A i, j \in DOMAIN globalq : globalq[i] = globalq[j] => i = j
  /\ \A v, w \in Workers : \A i \in DOMAIN localq[v], j \in DOMAIN localq[w] :
       localq[v][i] = localq[w][j] => v = w /\ i = j
  /\ \A w \in Workers : \A i \in DOMAIN globalq, j \in DOMAIN localq[w] :
       globalq[i] # localq[w][j]

QueuedCanRun ==
  \A t \in Tasks : strand[t].pending = "New" => (Queued(t) <=> CanRun(t))

QueuesInStep == FlagsTrue /\ EntriesUnique /\ QueuedCanRun

\* A timer that is not stale belongs to a strand that sleeps, or whose sleep a
\* cancellation has ended for good.
MayHaveTimer(t) == \/ strand[t].state \in {"Sleeping"} \cup Terminal
                   \/ strand[t].state = "Waiting" /\ strand[t].pending # "New"

TimersInStep ==
  \A e \in timers :
    /\ e.gen <= strand[e.id].gen
    /\ strand[e.id].gen = e.gen => MayHaveTimer(e.id)

\* A strand that runs or joins, and has not completed, is on a worker.
HasWorker(t) ==
  strand[t].pending = "New" =>
    /\ strand[t].state = "Running" =>
         strand[t].worker \in Workers /\ thread[strand[t].worker].cur = t
    /\ strand[t].state = "Waiting" => \E w \in Workers : thread[w].cur = t

StrandsHaveWorkers == \A t \in Tasks : HasWorker(t)

InBodies == {t \in Tasks : strand[t].state = "Running" /\ strand[t].pending = "New"}
Ended == {t \in Tasks : strand[t].state \in Terminal}

\* Only those whose body has not returned count as running.
Counted == running = Cardinality(InBodies) /\ finished = Cardinality(Ended)

\* A parent that waits for its children has one that is active, or is about to be
\* adopted.
Orphaned(t) ==
  strand[t].state = "Waiting" /\ strand[t].pending # "New" /\ ~HasActiveChildren(t)

ParentsAwaited ==
  \A t \in Tasks : Orphaned(t) => [op |-> "adopt", id |-> t] \in ToSet(agenda)

\* The children of t are to be cancelled.
Condemned(t) == strand[t].cancel \/ strand[t].pending \in {"Failed", "Cancelled"}

\* They are cancelled, or about to be.
ChildrenCondemned ==
  \A t \in Tasks : Condemned(t) =>
    \A c \in ActiveChildren(t) :
      strand[c].cancel \/ [op |-> "cancel", id |-> c] \in ToSet(agenda)

\* A suspended program is never completed where it sleeps or queues.
Resumes(t) ==
  strand[t].pending # "New" /\ strand[t].state \in {"Sleeping", "Runnable"}
    => ~ResumesOnCancel(t)

SuspendedResume == \A t \in Tasks : Resumes(t)

InStep == /\ QueuesInStep /\ TimersInStep /\ StrandsHaveWorkers /\ Counted
          /\ ParentsAwaited /\ ChildrenCondemned /\ SuspendedResume
-----------------------------------------------------------------------------
(* Lists and their members *)

\* An order in which to go through a set of tasks names them all.
LEMMA OrdersAreComplete ==
  ASSUME NEW S \in SUBSET Tasks, NEW order \in SetToSeqs(S)
  PROVE  /\ order \in Seq(S)
         /\ \A i, j \in DOMAIN order : order[i] = order[j] => i = j
         /\ \A x \in S : \E i \in DOMAIN order : order[i] = x
<1> DEFINE D == 1..Cardinality(S)
<1>1. IsFiniteSet(S)
  BY FiniteTasks, FS_Subset
<1>2. Cardinality(S) \in Nat
  BY <1>1, FS_CardinalityType
<1>3. order \in [D -> S] /\ \A i, j \in D : i # j => order[i] # order[j]
  BY DEF SetToSeqs
<1>4. order \in Injection(D, S)
  BY <1>3 DEF Injection, IsInjective
<1>5. Cardinality(D) = Cardinality(S)
  BY <1>2, FS_Interval
<1>6. order \in Surjection(D, S)
  BY <1>1, <1>4, <1>5, FS_Injection
<1>7. \A x \in S : \E i \in D : order[i] = x
  BY <1>6 DEF Surjection
<1>8. order \in Seq(S)
  BY OrdersAreSequences
<1> QED
  BY <1>3, <1>7, <1>8

\* The calls but a dispatch.
OtherCalls == {c \in Call : c.op # "dispatch"}

LEMMA CancelEachCancels ==
  ASSUME NEW S \in SUBSET Tasks, NEW order \in SetToSeqs(S)
  PROVE  /\ CancelEach(order) \in Seq(OtherCalls)
         /\ \A c \in S : [op |-> "cancel", id |-> c] \in ToSet(CancelEach(order))
<1>1. /\ order \in Seq(S)
      /\ \A x \in S : \E i \in DOMAIN order : order[i] = x
  BY OrdersAreComplete
<1>2. DOMAIN CancelEach(order) = DOMAIN order
  BY DEF CancelEach
<1>3. \A i \in DOMAIN order : CancelEach(order)[i] = [op |-> "cancel", id |-> order[i]]
  BY DEF CancelEach
<1>4. \A i \in DOMAIN order : CancelEach(order)[i] \in OtherCalls
  <2>1. \A u \in S : [op |-> "cancel", id |-> u] \in OtherCalls
    BY DEF Call, OtherCalls
  <2>2. \A i \in DOMAIN order : order[i] \in S
    BY <1>1
  <2> QED
    BY <1>3, <2>1, <2>2
<1>5. CancelEach(order) \in Seq(OtherCalls)
  BY <1>1, <1>4 DEF CancelEach
<1> QED
  BY <1>1, <1>2, <1>3, <1>5 DEF ToSet

LEMMA ListMembers ==
  ASSUME NEW S, NEW a \in Seq(S), NEW b \in Seq(S)
  PROVE  ToSet(a) \subseteq ToSet(a \o b) /\ ToSet(b) \subseteq ToSet(a \o b)
<1>1. ASSUME NEW i \in DOMAIN a PROVE a[i] \in ToSet(a \o b)
  <2>1. i \in DOMAIN (a \o b) /\ (a \o b)[i] = a[i]
    OBVIOUS
  <2> QED
    BY <2>1 DEF ToSet
<1>2. ASSUME NEW i \in DOMAIN b PROVE b[i] \in ToSet(a \o b)
  <2>1. Len(a) + i \in DOMAIN (a \o b) /\ (a \o b)[Len(a) + i] = b[i]
    OBVIOUS
  <2> QED
    BY <2>1 DEF ToSet
<1> QED
  BY <1>1, <1>2 DEF ToSet

LEMMA TailMembers ==
  ASSUME NEW S, NEW a \in Seq(S), a # <<>>
  PROVE  ToSet(a) \subseteq ToSet(Tail(a)) \cup {Head(a)}
<1> SUFFICES ASSUME NEW i \in DOMAIN a, i # 1 PROVE a[i] \in ToSet(Tail(a))
  BY DEF ToSet
<1>1. i - 1 \in DOMAIN Tail(a) /\ Tail(a)[i - 1] = a[i]
  OBVIOUS
<1> QED
  BY <1>1 DEF ToSet

\* What a call leaves on the agenda.
Remains(new) ==
  /\ ToSet(agenda) \subseteq ToSet(agenda') \cup {Head(agenda)}
  /\ new \subseteq ToSet(agenda')

LEMMA PopRemains ==
  ASSUME agenda \in Seq(Call), agenda # <<>>, agenda' = Tail(agenda)
  PROVE  Remains({})
BY TailMembers DEF Remains

LEMMA PushRemains ==
  ASSUME agenda \in Seq(Call), agenda # <<>>, NEW new \in Seq(Call),
         agenda' = new \o Tail(agenda)
  PROVE  Remains(ToSet(new))
<1>1. Tail(agenda) \in Seq(Call)
  OBVIOUS
<1>2. ToSet(new) \subseteq ToSet(agenda') /\ ToSet(Tail(agenda)) \subseteq ToSet(agenda')
  BY <1>1, ListMembers
<1> QED
  BY <1>2, TailMembers DEF Remains
-----------------------------------------------------------------------------
(* What the steps do to the records, as far as the invariant can tell. *)

USE DEF queueVars, timerVars, threadVars

\* Nothing.
Same(t) ==
  /\ strand'[t].state = strand[t].state
  /\ strand'[t].pending = strand[t].pending
  /\ strand'[t].queued = strand[t].queued
  /\ strand'[t].worker = strand[t].worker
  /\ strand'[t].gen = strand[t].gen
  /\ strand'[t].cancel = strand[t].cancel
  /\ strand'[t].parent = strand[t].parent
  /\ strand'[t].parkedOnce = strand[t].parkedOnce
  /\ strand'[t].resumable = strand[t].resumable

\* t goes on to state st, with this flag and this generation.
Goes(t, st, flag, g) ==
  /\ strand'[t].state = st
  /\ strand'[t].queued = flag
  /\ strand'[t].gen = g
  /\ strand'[t].pending = strand[t].pending
  /\ strand'[t].cancel = strand[t].cancel
  /\ strand'[t].parent = strand[t].parent
  /\ strand'[t].resumable = strand[t].resumable

Others(S) == \A u \in Tasks \ S : strand'[u] = strand[u]

LEMMA WokenGoes ==
  ASSUME TypeOK, NEW t \in Tasks, Update(t, Woken(t))
  PROVE  Others({t}) /\ Goes(t, "Runnable", TRUE, strand[t].gen + 1)
BY DEF TypeOK, StrandRecord, Update, Woken, Others, Goes

LEMMA ParkedGoes ==
  ASSUME TypeOK, NEW t \in Tasks, Update(t, Parked(strand[t]))
  PROVE  /\ Others({t})
         /\ IF strand[t].parkWake THEN Goes(t, "Runnable", TRUE, strand[t].gen + 1)
                                  ELSE Goes(t, "Sleeping", FALSE, strand[t].gen + 1)
BY DEF TypeOK, StrandRecord, Update, Parked, Unparked, Others, Goes
LEMMA PromotedGoes ==
  ASSUME TypeOK, NEW w \in Workers, Scan(w)
  PROVE  /\ Others(Promoted)
         /\ \A t \in Promoted : Goes(t, "Runnable", TRUE, strand[t].gen)
<1>1. Promoted \subseteq Tasks
  BY PromotedTypes
<1>2. \A t \in Promoted :
        strand'[t] = [strand[t] EXCEPT !.wakePending = TRUE, !.state = "Runnable",
                                       !.queued = TRUE]
  BY <1>1 DEF Scan
<1>3. ASSUME NEW t \in Promoted PROVE Goes(t, "Runnable", TRUE, strand[t].gen)
  <2>1. strand[t] \in StrandRecord
    BY <1>1, FieldTypes
  <2>2. strand'[t] = [strand[t] EXCEPT !.wakePending = TRUE, !.state = "Runnable",
                                       !.queued = TRUE]
    BY <1>2
  <2> QED
    BY <2>1, <2>2 DEF StrandRecord, Goes
<1> QED
  BY <1>3 DEF Scan, Others

LEMMA RunGoes ==
  ASSUME TypeOK, NEW w \in Workers, NEW t \in Tasks, Run(w, t)
  PROVE  /\ Others({t}) /\ Goes(t, "Running", FALSE, strand[t].gen)
         /\ strand'[t].worker = w
BY DEF TypeOK, StrandRecord, Run, Update, Others, Goes

LEMMA ParkSame ==
  ASSUME TypeOK, NEW t \in Tasks, NEW a, NEW b,
         \/ Update(t, [strand[t] EXCEPT !.parkPending = a, !.parkTimed = b])
         \/ Update(t, [strand[t] EXCEPT !.parkWake = a, !.parkTo = b])
  PROVE  \A u \in Tasks : Same(u)
<1>1. CASE Update(t, [strand[t] EXCEPT !.parkPending = a, !.parkTimed = b])
  BY <1>1 DEF TypeOK, StrandRecord, Update, Same
<1>2. CASE Update(t, [strand[t] EXCEPT !.parkWake = a, !.parkTo = b])
  BY <1>2 DEF TypeOK, StrandRecord, Update, Same
<1> QED
  BY <1>1, <1>2

\* The completion of t is recorded.
Completed(t, outcome) ==
  /\ strand'[t].pending = outcome
  /\ strand'[t].queued = FALSE
  /\ strand'[t].state = strand[t].state
  /\ strand'[t].gen = strand[t].gen
  /\ strand'[t].cancel = strand[t].cancel
  /\ strand'[t].parent = strand[t].parent
  /\ strand'[t].parkedOnce = strand[t].parkedOnce
  /\ strand'[t].resumable = strand[t].resumable

LEMMA FinishCompletes ==
  ASSUME TypeOK, NEW t \in Tasks, NEW outcome, NEW rest,
         \/ FinishOrWait(t, strand[t], outcome, rest)
         \/ FinishOrWait(t, [strand[t] EXCEPT !.worker = None], outcome, rest)
  PROVE  Others({t}) /\ Completed(t, outcome)
<1>1. CASE FinishOrWait(t, strand[t], outcome, rest)
  <2>1. Update(t, [strand[t] EXCEPT !.pending = outcome, !.queued = FALSE,
                                    !.wakePending = FALSE])
    BY <1>1 DEF FinishOrWait
  <2> QED
    BY <2>1 DEF TypeOK, StrandRecord, Update, Others, Completed
<1>2. CASE FinishOrWait(t, [strand[t] EXCEPT !.worker = None], outcome, rest)
  <2>1. Update(t, [[strand[t] EXCEPT !.worker = None] EXCEPT
                     !.pending = outcome, !.queued = FALSE, !.wakePending = FALSE])
    BY <1>2 DEF FinishOrWait
  <2> QED
    BY <2>1 DEF TypeOK, StrandRecord, Update, Others, Completed
<1> QED
  BY <1>1, <1>2

LEMMA PlaceGoes ==
  ASSUME TypeOK, NEW t \in Tasks, NEW st, NEW w,
         Update(t, [strand[t] EXCEPT !.state = st, !.worker = w])
  PROVE  /\ Others({t}) /\ Goes(t, st, strand[t].queued, strand[t].gen)
         /\ strand'[t].worker = w
BY DEF TypeOK, StrandRecord, Update, Others, Goes

\* Only the cancel flag of t may change, and is not reset.
Warned(t) ==
  /\ strand'[t].state = strand[t].state
  /\ strand'[t].pending = strand[t].pending
  /\ strand'[t].queued = strand[t].queued
  /\ strand'[t].worker = strand[t].worker
  /\ strand'[t].gen = strand[t].gen
  /\ strand[t].cancel => strand'[t].cancel
  /\ strand'[t].parent = strand[t].parent
  /\ strand'[t].parkedOnce = strand[t].parkedOnce
  /\ strand'[t].resumable = strand[t].resumable

LEMMA CancelWarns ==
  ASSUME TypeOK, NEW t \in Tasks, Update(t, [strand[t] EXCEPT !.cancel = TRUE])
  PROVE  Others({t}) /\ Warned(t) /\ strand'[t].cancel
BY DEF TypeOK, StrandRecord, Update, Others, Warned

\* Others but t and its parent are left alone; the parent is cancelled by its policy only.
LEMMA FinalizeGoes ==
  ASSUME TypeOK, NEW t \in Tasks, Finalize(t), strand[t].parent # t
  PROVE  /\ Goes(t, FinalState(t), FALSE, strand[t].gen)
         /\ \A u \in Tasks \ {t} : strand'[u] = strand[u] \/ (u = strand[t].parent /\ Warned(u))
<1> DEFINE p == strand[t].parent
           gone == [strand[t] EXCEPT !.state = FinalState(t), !.worker = None,
                                     !.queued = FALSE, !.wakePending = FALSE]
<1>0. ASSUME strand'[t] = gone PROVE Goes(t, FinalState(t), FALSE, strand[t].gen)
  <2>1. strand[t] \in StrandRecord
    BY FieldTypes
  <2> DEFINE final == FinalState(t)
  <2> HIDE DEF final
  <2> QED
    BY <1>0, <2>1 DEF StrandRecord, Goes
<1>1. CASE Update(t, gone)
  <2>1. strand'[t] = gone /\ \A u \in Tasks \ {t} : strand'[u] = strand[u]
    BY <1>1 DEF TypeOK, Update
  <2> HIDE DEF gone
  <2> QED
    BY <1>0, <2>1
<1>2. CASE HasLiveParent(t) /\ strand' = [strand EXCEPT ![t] = gone, ![p] = Informed(p, t)]
  <2>1. p \in Tasks /\ p # t
    BY <1>2 DEF TypeOK, StrandRecord, HasLiveParent
  <2>2. /\ strand'[t] = gone /\ strand'[p] = Informed(p, t)
        /\ \A u \in Tasks \ {t, p} : strand'[u] = strand[u]
    BY <1>2, <2>1 DEF TypeOK
  <2>3. Warned(p)
    BY <2>1, <2>2 DEF TypeOK, StrandRecord, Informed, Warned
  <2> HIDE DEF gone
  <2> QED
    BY <1>0, <2>2, <2>3
<1> QED
  BY <1>1, <1>2 DEF Finalize

\* t begins, queued or asleep; it is cancelled if its parent p is.
Born(t, p) ==
  /\ strand[t].state = "New"
  /\ \/ strand'[t].state = "Runnable" /\ strand'[t].queued = TRUE
     \/ strand'[t].state = "Sleeping" /\ strand'[t].queued = FALSE
  /\ strand'[t].pending = "New"
  /\ strand'[t].parent = p
  /\ strand'[t].cancel = IF p = None THEN FALSE ELSE strand[p].cancel

LEMMA SpawnBears ==
  ASSUME TypeOK, NEW t \in Tasks, NEW p \in Tasks \cup {None}, NEW policy, NEW resumable,
         p # t
  PROVE  /\ Spawn(t, p, policy, resumable) =>
              /\ Born(t, p) /\ strand'[t].state = "Runnable" /\ strand'[t].gen = 0
              /\ \A u \in Tasks \ {t} : Same(u)
         /\ SpawnSleeping(t, p, policy, resumable) =>
              /\ Born(t, p) /\ strand'[t].state = "Sleeping" /\ strand'[t].gen = 1
              /\ \A u \in Tasks \ {t} : Same(u)
<1> DEFINE c == IF p = None THEN FALSE ELSE strand[p].cancel
           new == FreshStrand(p, policy, resumable)
           late == [new EXCEPT !.state = "Sleeping", !.queued = FALSE, !.gen = 1]
<1>0. /\ new.state = "Runnable" /\ new.queued = TRUE /\ new.pending = "New"
      /\ new.parent = p /\ new.gen = 0 /\ new.cancel = c
      /\ late.state = "Sleeping" /\ late.queued = FALSE /\ late.pending = "New"
      /\ late.parent = p /\ late.gen = 1 /\ late.cancel = c
  <2> HIDE DEF c
  <2> QED
    BY DEF FreshStrand, NoStrand, c
<1> HIDE DEF new, late
<1>1. ASSUME NEW r, Record(t, p, r)
      PROVE  strand'[t] = r /\ \A u \in Tasks \ {t} : Same(u)
  BY <1>1 DEF TypeOK, StrandRecord, Record, Same
<1>2. ASSUME Spawn(t, p, policy, resumable)
      PROVE  /\ Born(t, p) /\ strand'[t].state = "Runnable" /\ strand'[t].gen = 0
             /\ \A u \in Tasks \ {t} : Same(u)
  <2>1. Record(t, p, new) /\ strand[t].state = "New"
    BY <1>2 DEF Spawn, new
  <2> QED
    BY <1>0, <1>1, <2>1 DEF Born
<1>3. ASSUME SpawnSleeping(t, p, policy, resumable)
      PROVE  /\ Born(t, p) /\ strand'[t].state = "Sleeping" /\ strand'[t].gen = 1
             /\ \A u \in Tasks \ {t} : Same(u)
  <2>1. Record(t, p, late) /\ strand[t].state = "New"
    BY <1>3 DEF SpawnSleeping, late, new
  <2> QED
    BY <1>0, <1>1, <2>1 DEF Born
<1> QED
  BY <1>2, <1>3
-----------------------------------------------------------------------------
(* The queues *)

\* The queues have no reason to tell the new t from the old one.
Unmoved(t) ==
  /\ strand'[t].queued = strand[t].queued
  /\ CanRun(t)' <=> CanRun(t)
  /\ strand'[t].pending = "New" <=> strand[t].pending = "New"

\* A recorded completion takes a strand out of the running, not out of the queue.
Finished(t) == strand'[t].pending # "New" /\ strand'[t].queued = FALSE

LEMMA QueuesStill ==
  ASSUME QueuesInStep, UNCHANGED <<globalq, localq>>,
         \A t \in Tasks : Unmoved(t) \/ Finished(t)
  PROVE  QueuesInStep'
<1>1. FlagsTrue'
  BY DEF QueuesInStep, FlagsTrue, Unmoved, Finished, CanRun
<1>2. EntriesUnique'
  BY DEF QueuesInStep, EntriesUnique
<1>3. QueuedCanRun'
  BY DEF QueuesInStep, QueuedCanRun, Queued, Unmoved, Finished
<1> QED
  BY <1>1, <1>2, <1>3 DEF QueuesInStep

\* A strand that is in no queue is put in one.
LEMMA QueuesGrow ==
  ASSUME TypeOK, QueuesInStep, NEW t \in Tasks, NEW to \in Workers \cup {None},
         Enqueue(t, to), ~Queued(t), CanRun(t)', strand'[t].queued = TRUE,
         \A u \in Tasks \ {t} : Unmoved(u)
  PROVE  QueuesInStep'
<1>1. FlagsTrue'
  BY DEF QueuesInStep, FlagsTrue, Unmoved
<1>2. globalq \in Seq(Tasks) /\ localq \in [Workers -> Seq(Tasks)]
  BY DEF TypeOK
<1>3. CASE to = None
  <2>1. globalq' = Append(globalq, t) /\ localq' = localq
    BY <1>3 DEF Enqueue
  <2>2. /\ DOMAIN globalq' = 1..(Len(globalq) + 1)
        /\ DOMAIN globalq = 1..Len(globalq) /\ Len(globalq) \in Nat
        /\ \A i \in 1..Len(globalq) : globalq'[i] = globalq[i]
        /\ globalq'[Len(globalq) + 1] = t
    BY <1>2, <2>1
  <2>3. EntriesUnique'
    BY <1>2, <2>1, <2>2 DEF QueuesInStep, EntriesUnique, Queued
  <2>4. \A u \in Tasks : Queued(u)' <=> Queued(u) \/ u = t
    BY <2>1, <2>2 DEF Queued
  <2>5. QueuedCanRun'
    BY <2>4 DEF QueuesInStep, QueuedCanRun, Unmoved
  <2> QED
    BY <1>1, <2>3, <2>5 DEF QueuesInStep
<1>4. CASE to # None
  <2>0. to \in Workers
    BY <1>4
  <2>1. localq' = [localq EXCEPT ![to] = Append(@, t)] /\ globalq' = globalq
    BY <1>4 DEF Enqueue
  <2> DEFINE q == localq[to]
             r == localq'[to]
  <2>2. q \in Seq(Tasks) /\ r = Append(q, t)
    BY <1>2, <2>0, <2>1
  <2>3. /\ DOMAIN r = 1..(Len(q) + 1)
        /\ DOMAIN q = 1..Len(q) /\ Len(q) \in Nat
        /\ \A i \in 1..Len(q) : r[i] = q[i]
        /\ r[Len(q) + 1] = t
    BY <2>2
  <2>4. \A w \in Workers \ {to} : localq'[w] = localq[w]
    BY <1>2, <2>1
  <2>5. EntriesUnique'
    BY <2>0, <2>1, <2>3, <2>4 DEF QueuesInStep, EntriesUnique, Queued
  <2>6. \A u \in Tasks : Queued(u)' <=> Queued(u) \/ u = t
    BY <2>0, <2>1, <2>3, <2>4 DEF Queued
  <2>7. QueuedCanRun'
    BY <2>6 DEF QueuesInStep, QueuedCanRun, Unmoved
  <2> QED
    BY <1>1, <2>5, <2>7 DEF QueuesInStep
<1> QED
  BY <1>3, <1>4

\* The expired timers of a scan.
LEMMA QueuesExtend ==
  ASSUME TypeOK, QueuesInStep, NEW w \in Workers, NEW S \in SUBSET Tasks,
         NEW order \in SetToSeqs(S), globalq' = globalq,
         localq' = [localq EXCEPT ![w] = @ \o order],
         \A t \in S : ~Queued(t) /\ CanRun(t)' /\ strand'[t].queued = TRUE,
         \A u \in Tasks \ S : Unmoved(u)
  PROVE  QueuesInStep'
<1>1. FlagsTrue'
  BY DEF QueuesInStep, FlagsTrue, Unmoved
<1>2. localq \in [Workers -> Seq(Tasks)]
  BY DEF TypeOK
<1>3. /\ order \in Seq(S)
      /\ \A i, j \in DOMAIN order : order[i] = order[j] => i = j
      /\ \A x \in S : \E i \in DOMAIN order : order[i] = x
  BY OrdersAreComplete
<1> DEFINE q == localq[w]
           r == localq'[w]
<1>4. q \in Seq(Tasks) /\ r = q \o order /\ order \in Seq(Tasks)
  BY <1>2, <1>3
<1>5. /\ Len(q) \in Nat /\ Len(order) \in Nat
      /\ DOMAIN r = 1..(Len(q) + Len(order))
      /\ DOMAIN q = 1..Len(q) /\ DOMAIN order = 1..Len(order)
      /\ \A i \in 1..Len(q) : r[i] = q[i]
      /\ \A i \in (Len(q) + 1)..(Len(q) + Len(order)) :
           /\ i - Len(q) \in 1..Len(order)
           /\ r[i] = order[i - Len(q)]
      /\ \A i \in 1..Len(order) :
           /\ Len(q) + i \in (Len(q) + 1)..(Len(q) + Len(order))
           /\ r[Len(q) + i] = order[i]
  BY <1>4
<1>6. \A i \in DOMAIN order : order[i] \in S
  BY <1>3
<1>7. \A v \in Workers \ {w} : localq'[v] = localq[v]
  BY <1>2
<1> HIDE DEF q, r
<1>8. \A i \in DOMAIN r : \/ i \in DOMAIN q /\ r[i] = q[i]
                          \/ /\ i - Len(q) \in DOMAIN order /\ r[i] = order[i - Len(q)]
                             /\ r[i] \in S
  BY <1>5, <1>6
<1>9. EntriesUnique'
  <2>1. \A i, j \in DOMAIN globalq' : globalq'[i] = globalq'[j] => i = j
    BY DEF QueuesInStep, EntriesUnique
  <2>2. \A i \in DOMAIN q : q[i] \notin S
    BY DEF Queued, q
  <2>3. \A i, j \in DOMAIN r : r[i] = r[j] => i = j
    <3> SUFFICES ASSUME NEW i \in DOMAIN r, NEW j \in DOMAIN r, r[i] = r[j]
                 PROVE  i = j
      OBVIOUS
    <3>0. \A k, l \in DOMAIN q : q[k] = q[l] => k = l
      BY DEF QueuesInStep, EntriesUnique, q
    <3>1. CASE i \in DOMAIN q /\ j \in DOMAIN q /\ r[i] = q[i] /\ r[j] = q[j]
      BY <3>0, <3>1
    <3>2. CASE /\ i - Len(q) \in DOMAIN order /\ r[i] = order[i - Len(q)]
               /\ j - Len(q) \in DOMAIN order /\ r[j] = order[j - Len(q)]
      <4>1. i - Len(q) = j - Len(q)
        BY <1>3, <3>2
      <4> QED
        BY <1>5, <4>1
    <3> QED
      BY <1>8, <2>2, <3>1, <3>2
  <2>4. \A v \in Workers \ {w} : \A i \in DOMAIN r, j \in DOMAIN localq[v] :
          r[i] # localq[v][j]
    BY <1>8 DEF QueuesInStep, EntriesUnique, Queued, q
  <2>5. \A i \in DOMAIN globalq, j \in DOMAIN r : globalq[i] # r[j]
    BY <1>8 DEF QueuesInStep, EntriesUnique, Queued, q
  <2>6. \A u, v \in Workers : \A i \in DOMAIN localq'[u], j \in DOMAIN localq'[v] :
          localq'[u][i] = localq'[v][j] => u = v /\ i = j
    <3>1. \A u, v \in Workers \ {w} : \A i \in DOMAIN localq[u], j \in DOMAIN localq[v] :
            localq[u][i] = localq[v][j] => u = v /\ i = j
      BY DEF QueuesInStep, EntriesUnique
    <3> QED
      BY <1>7, <2>3, <2>4, <3>1 DEF r
  <2>7. \A v \in Workers : \A i \in DOMAIN globalq', j \in DOMAIN localq'[v] :
          globalq'[i] # localq'[v][j]
    BY <1>7, <2>5 DEF QueuesInStep, EntriesUnique, r
  <2> QED
    BY <2>1, <2>6, <2>7 DEF EntriesUnique
<1>10. \A u \in Tasks : Queued(u)' <=> Queued(u) \/ u \in S
  <2>1. \A u \in Tasks : (\E i \in DOMAIN r : r[i] = u)
                           <=> (\E i \in DOMAIN q : q[i] = u) \/ u \in S
    <3>1. ASSUME NEW u \in Tasks, NEW i \in DOMAIN q, q[i] = u
          PROVE  \E j \in DOMAIN r : r[j] = u
      BY <1>5, <3>1
    <3>2. ASSUME NEW u \in S PROVE \E j \in DOMAIN r : r[j] = u
      <4>1. PICK i \in DOMAIN order : order[i] = u
        BY <1>3
      <4>2. Len(q) + i \in DOMAIN r /\ r[Len(q) + i] = u
        BY <1>5, <4>1
      <4> QED
        BY <4>2
    <3> QED
      BY <1>8, <3>1, <3>2
  <2>2. ASSUME NEW u \in Tasks
        PROVE  (\E v \in Workers : \E i \in DOMAIN localq'[v] : localq'[v][i] = u)
                 <=> \/ \E v \in Workers \ {w} : \E i \in DOMAIN localq[v] : localq[v][i] = u
                     \/ \E i \in DOMAIN r : r[i] = u
    BY <1>7 DEF r
  <2>3. ASSUME NEW u \in Tasks
        PROVE  (\E v \in Workers : \E i \in DOMAIN localq[v] : localq[v][i] = u)
                 <=> \/ \E v \in Workers \ {w} : \E i \in DOMAIN localq[v] : localq[v][i] = u
                     \/ \E i \in DOMAIN q : q[i] = u
    BY DEF q
  <2>4. \A u \in Tasks : (\E i \in DOMAIN globalq' : globalq'[i] = u)
                           <=> (\E i \in DOMAIN globalq : globalq[i] = u)
    OBVIOUS
  <2> QED
    BY <2>1, <2>2, <2>3, <2>4 DEF Queued
<1>11. QueuedCanRun'
  BY <1>10 DEF QueuesInStep, QueuedCanRun, Unmoved
<1> QED
  BY <1>1, <1>9, <1>11 DEF QueuesInStep
\* A worker pops entries: all that it pops is either stale or the strand it runs.
Popped(w, m, n, t) == \/ \E j \in 1..m : localq[w][j] = t
                      \/ \E j \in 1..n : globalq[j] = t

LEMMA QueuesShrink ==
  ASSUME TypeOK, QueuesInStep, NEW w \in Workers, NEW m \in 0..Len(localq[w]),
         NEW n \in 0..Len(globalq),
         localq' = [localq EXCEPT ![w] = Behind(@, m)],
         globalq' = Behind(globalq, n),
         \A t \in Tasks :
           /\ strand'[t].pending = "New" <=> strand[t].pending = "New"
           /\ strand'[t].queued <=> CanRun(t)'
           /\ CanRun(t)' <=> CanRun(t) /\ ~Popped(w, m, n, t)
  PROVE  QueuesInStep'
<1> DEFINE q == localq[w]
           r == localq'[w]
<1>1. globalq \in Seq(Tasks) /\ localq \in [Workers -> Seq(Tasks)] /\ q \in Seq(Tasks)
  BY DEF TypeOK
<1>2. r = Behind(q, m) /\ \A v \in Workers \ {w} : localq'[v] = localq[v]
  BY <1>1
<1>3. ASSUME NEW s \in Seq(Tasks), NEW k \in 0..Len(s)
      PROVE  /\ DOMAIN s = 1..Len(s) /\ Len(s) \in Nat
             /\ DOMAIN Behind(s, k) = 1..(Len(s) - k)
             /\ \A i \in 1..(Len(s) - k) : Behind(s, k)[i] = s[i + k] /\ i + k \in 1..Len(s)
             /\ \A i \in 1..Len(s) : \/ i \in 1..k
                                     \/ i - k \in 1..(Len(s) - k) /\ Behind(s, k)[i - k] = s[i]
  BY DEF Behind
<1>4. /\ DOMAIN q = 1..Len(q) /\ Len(q) \in Nat
      /\ DOMAIN r = 1..(Len(q) - m)
      /\ \A i \in 1..(Len(q) - m) : r[i] = q[i + m] /\ i + m \in 1..Len(q)
      /\ \A i \in 1..Len(q) : \/ i \in 1..m
                              \/ i - m \in 1..(Len(q) - m) /\ r[i - m] = q[i]
  BY <1>1, <1>2, <1>3
<1>5. /\ DOMAIN globalq = 1..Len(globalq) /\ Len(globalq) \in Nat
      /\ DOMAIN globalq' = 1..(Len(globalq) - n)
      /\ \A i \in 1..(Len(globalq) - n) :
           globalq'[i] = globalq[i + n] /\ i + n \in 1..Len(globalq)
      /\ \A i \in 1..Len(globalq) :
           \/ i \in 1..n
           \/ i - n \in 1..(Len(globalq) - n) /\ globalq'[i - n] = globalq[i]
  BY <1>1, <1>3
<1>6. m \in Nat /\ n \in Nat /\ 1..m \subseteq DOMAIN q /\ 1..n \subseteq DOMAIN globalq
  BY <1>4, <1>5
<1>7. FlagsTrue'
  BY DEF FlagsTrue
<1>8. EntriesUnique'
  <2> HIDE DEF r, q
  <2>1. \A i, j \in DOMAIN globalq' : globalq'[i] = globalq'[j] => i = j
    <3> SUFFICES ASSUME NEW i \in DOMAIN globalq', NEW j \in DOMAIN globalq',
                        globalq'[i] = globalq'[j]
                 PROVE  i = j
      OBVIOUS
    <3>0. \A k, l \in DOMAIN globalq : globalq[k] = globalq[l] => k = l
      BY DEF QueuesInStep, EntriesUnique
    <3>1. i + n = j + n
      <4>1. i + n \in DOMAIN globalq /\ j + n \in DOMAIN globalq
            /\ globalq[i + n] = globalq[j + n]
        BY <1>5
      <4> QED
        BY <3>0, <4>1
    <3> QED
      BY <1>5, <1>6, <3>1
  <2>2. \A i, j \in DOMAIN r : r[i] = r[j] => i = j
    <3> SUFFICES ASSUME NEW i \in DOMAIN r, NEW j \in DOMAIN r, r[i] = r[j]
                 PROVE  i = j
      OBVIOUS
    <3>0. \A k, l \in DOMAIN q : q[k] = q[l] => k = l
      BY DEF QueuesInStep, EntriesUnique, q
    <3>1. i + m = j + m
      <4>1. i + m \in DOMAIN q /\ j + m \in DOMAIN q /\ q[i + m] = q[j + m]
        BY <1>4
      <4> QED
        BY <3>0, <4>1
    <3> QED
      BY <1>4, <1>6, <3>1
  <2>3. \A v \in Workers : \A i \in DOMAIN localq'[v] :
          \E k \in DOMAIN localq[v] : localq'[v][i] = localq[v][k]
    BY <1>2, <1>4 DEF q, r
  <2>4. \A i \in DOMAIN globalq' : \E k \in DOMAIN globalq : globalq'[i] = globalq[k]
    BY <1>5
  <2>5. \A u, v \in Workers : \A i \in DOMAIN localq'[u], j \in DOMAIN localq'[v] :
          localq'[u][i] = localq'[v][j] => u = v /\ i = j
    <3> SUFFICES ASSUME NEW u \in Workers, NEW v \in Workers,
                        NEW i \in DOMAIN localq'[u], NEW j \in DOMAIN localq'[v],
                        localq'[u][i] = localq'[v][j]
                 PROVE  u = v /\ i = j
      OBVIOUS
    <3>1. u = v
      BY <2>3 DEF QueuesInStep, EntriesUnique
    <3>2. CASE u = w
      BY <2>2, <3>1, <3>2 DEF r
    <3>3. CASE u # w
      BY <1>2, <3>1, <3>3 DEF QueuesInStep, EntriesUnique
    <3> QED
      BY <3>1, <3>2, <3>3
  <2>6. \A v \in Workers : \A i \in DOMAIN globalq', j \in DOMAIN localq'[v] :
          globalq'[i] # localq'[v][j]
    BY <2>3, <2>4 DEF QueuesInStep, EntriesUnique
  <2> QED
    BY <2>1, <2>5, <2>6 DEF EntriesUnique
<1>9. ASSUME NEW t \in Tasks PROVE Queued(t)' <=> Queued(t) /\ ~Popped(w, m, n, t)
  <2> HIDE DEF r, q
  <2>1. ASSUME NEW i \in DOMAIN globalq', globalq'[i] = t
        PROVE  Queued(t) /\ ~Popped(w, m, n, t)
    <3>1. i + n \in DOMAIN globalq /\ globalq[i + n] = t /\ i + n \notin 1..n
      BY <1>5, <1>6, <2>1
    <3>2. \A j \in 1..n : globalq[j] # t
      BY <1>6, <3>1 DEF QueuesInStep, EntriesUnique
    <3>3. \A j \in 1..m : localq[w][j] # t
      BY <1>6, <3>1 DEF QueuesInStep, EntriesUnique, q
    <3> QED
      BY <3>1, <3>2, <3>3 DEF Queued, Popped
  <2>2. ASSUME NEW i \in DOMAIN r, r[i] = t
        PROVE  Queued(t) /\ ~Popped(w, m, n, t)
    <3>1. i + m \in DOMAIN q /\ q[i + m] = t /\ i + m \notin 1..m
      BY <1>4, <1>6, <2>2
    <3>2. \A j \in 1..m : q[j] # t
      BY <1>6, <3>1 DEF QueuesInStep, EntriesUnique, q
    <3>3. \A j \in 1..n : globalq[j] # t
      BY <1>6, <3>1 DEF QueuesInStep, EntriesUnique, q
    <3> QED
      BY <3>1, <3>2, <3>3 DEF Queued, Popped, q
  <2>3. ASSUME NEW v \in Workers \ {w}, NEW i \in DOMAIN localq[v], localq[v][i] = t
        PROVE  Queued(t) /\ ~Popped(w, m, n, t)
    <3>1. \A j \in 1..m : q[j] # t
      BY <1>6, <2>3 DEF QueuesInStep, EntriesUnique, q
    <3>2. \A j \in 1..n : globalq[j] # t
      BY <1>6, <2>3 DEF QueuesInStep, EntriesUnique
    <3> QED
      BY <2>3, <3>1, <3>2 DEF Queued, Popped, q
  <2>4. ASSUME Queued(t), ~Popped(w, m, n, t) PROVE Queued(t)'
    <3>1. CASE \E i \in DOMAIN globalq : globalq[i] = t
      <4>1. PICK i \in DOMAIN globalq : globalq[i] = t
        BY <3>1
      <4>2. i \notin 1..n
        BY <2>4, <4>1 DEF Popped
      <4>3. i - n \in DOMAIN globalq' /\ globalq'[i - n] = t
        BY <1>5, <4>1, <4>2
      <4> QED
        BY <4>3 DEF Queued
    <3>2. CASE \E i \in DOMAIN q : q[i] = t
      <4>1. PICK i \in DOMAIN q : q[i] = t
        BY <3>2
      <4>2. i \notin 1..m
        BY <2>4, <4>1 DEF Popped, q
      <4>3. i - m \in DOMAIN r /\ r[i - m] = t
        BY <1>4, <4>1, <4>2
      <4> QED
        BY <4>3 DEF Queued, r
    <3>3. CASE \E v \in Workers \ {w} : \E i \in DOMAIN localq[v] : localq[v][i] = t
      BY <1>2, <3>3 DEF Queued
    <3> QED
      BY <2>4, <3>1, <3>2, <3>3 DEF Queued, q
  <2>5. ASSUME Queued(t)' PROVE Queued(t) /\ ~Popped(w, m, n, t)
    <3>1. CASE \E i \in DOMAIN globalq' : globalq'[i] = t
      BY <2>1, <3>1
    <3>2. CASE \E i \in DOMAIN r : r[i] = t
      BY <2>2, <3>2
    <3>3. CASE \E v \in Workers \ {w} : \E i \in DOMAIN localq'[v] : localq'[v][i] = t
      BY <1>2, <2>3, <3>3
    <3> QED
      BY <2>5, <3>1, <3>2, <3>3 DEF Queued, r
  <2> QED
    BY <2>4, <2>5
<1>10. QueuedCanRun'
  BY <1>9 DEF QueuesInStep, QueuedCanRun
<1> QED
  BY <1>7, <1>8, <1>10 DEF QueuesInStep
-----------------------------------------------------------------------------
(* Timers, workers, counters and families *)

\* The timers of t are stale, or as good as before.
TimerSafe(t) ==
  \/ strand'[t].gen > strand[t].gen
  \/ strand'[t].gen = strand[t].gen /\ (MayHaveTimer(t) => MayHaveTimer(t)')

LEMMA TimersKeep ==
  ASSUME TypeOK, TypeOK', TimersInStep, NEW S,
         \A e \in timers' : e \in timers \/ e \in S,
         \A e \in S : e.gen = strand'[e.id].gen /\ MayHaveTimer(e.id)',
         \A t \in Tasks : TimerSafe(t)
  PROVE  TimersInStep'
<1> SUFFICES ASSUME NEW e \in timers'
             PROVE  /\ e.gen <= strand'[e.id].gen
                    /\ strand'[e.id].gen = e.gen => MayHaveTimer(e.id)'
  BY DEF TimersInStep
<1>1. e.id \in Tasks /\ e.gen \in Nat
  BY DEF TypeOK, TimerEntry
<1>2. strand[e.id].gen \in Nat /\ strand'[e.id].gen \in Nat
  BY <1>1 DEF TypeOK, StrandRecord
<1>3. CASE e \in timers
  <2>1. e.gen <= strand[e.id].gen /\ (strand[e.id].gen = e.gen => MayHaveTimer(e.id))
    BY <1>3 DEF TimersInStep
  <2>2. TimerSafe(e.id)
    BY <1>1
  <2>3. CASE strand'[e.id].gen > strand[e.id].gen
    BY <1>1, <1>2, <2>1, <2>3
  <2>4. CASE strand'[e.id].gen = strand[e.id].gen /\ (MayHaveTimer(e.id) => MayHaveTimer(e.id)')
    BY <2>1, <2>4
  <2> QED
    BY <2>2, <2>3, <2>4 DEF TimerSafe
<1>4. CASE e \in S
  BY <1>1, <1>2, <1>4
<1> QED
  BY <1>3, <1>4

\* t is where it was, or on no worker, or done.
PlaceKept(t) ==
  \/ /\ strand'[t].state = strand[t].state
     /\ strand'[t].worker = strand[t].worker
     /\ strand'[t].pending = strand[t].pending
  \/ strand'[t].state \notin {"Running", "Waiting"}
  \/ strand'[t].pending # "New"

LEMMA WorkersKeep ==
  ASSUME StrandsHaveWorkers, \A w \in Workers : thread'[w].cur = thread[w].cur,
         \A t \in Tasks : PlaceKept(t)
  PROVE  StrandsHaveWorkers'
BY DEF StrandsHaveWorkers, HasWorker, PlaceKept

LEMMA SetsFinite ==
  /\ IsFiniteSet(InBodies) /\ IsFiniteSet(Ended)
  /\ Cardinality(InBodies) \in Nat /\ Cardinality(Ended) \in Nat
<1>1. InBodies \in SUBSET Tasks /\ Ended \in SUBSET Tasks
  BY DEF InBodies, Ended
<1>2. IsFiniteSet(InBodies) /\ IsFiniteSet(Ended)
  BY <1>1, FiniteTasks, FS_Subset
<1> QED
  BY <1>2, FS_CardinalityType

\* One strand more, or one less, is in its body.
LEMMA OneMoreRuns ==
  ASSUME Counted, NEW t \in Tasks, t \notin InBodies, InBodies' = InBodies \cup {t},
         running' = running + 1, Ended' = Ended, finished' = finished
  PROVE  Counted'
BY SetsFinite, FS_AddElement DEF Counted

LEMMA OneLessRuns ==
  ASSUME Counted, NEW t \in Tasks, t \in InBodies, InBodies' = InBodies \ {t},
         running' = Decrement(running), Ended' = Ended, finished' = finished
  PROVE  Counted'
<1>1. Cardinality(InBodies) # 0
  BY SetsFinite, FS_EmptySet
<1>2. Cardinality(InBodies \ {t}) = Cardinality(InBodies) - 1
  BY SetsFinite, FS_RemoveElement
<1>3. running \in Nat /\ running > 0
  BY <1>1, SetsFinite DEF Counted
<1> QED
  BY <1>2, <1>3 DEF Counted, Decrement

LEMMA OneMoreEnds ==
  ASSUME Counted, NEW t \in Tasks, t \notin Ended, Ended' = Ended \cup {t},
         finished' = finished + 1, InBodies' = InBodies, running' = running
  PROVE  Counted'
BY SetsFinite, FS_AddElement DEF Counted

\* The relations between the strands stay as they are, and so do the ends.
SameKin(t) ==
  /\ strand'[t].parent = strand[t].parent
  /\ strand'[t].state \in Terminal <=> strand[t].state \in Terminal

LEMMA KinKeepsChildren ==
  ASSUME \A t \in Tasks : SameKin(t)
  PROVE  \A t \in Tasks : /\ ActiveChildren(t)' = ActiveChildren(t)
                          /\ HasActiveChildren(t)' <=> HasActiveChildren(t)
BY DEF SameKin, ActiveChildren, HasActiveChildren, Children, IsTerminal

\* The call that is made leaves the agenda; all others stay.
Stays(h) == ToSet(agenda) \subseteq ToSet(agenda') \cup {h}

\* A call that nobody waits for: the parent it adopts has active children or no
\* need to be adopted, the task it cancels has been cancelled.
Spent(h) ==
  /\ \A t \in Tasks : h = [op |-> "adopt", id |-> t] => ~Orphaned(t)
  /\ \A t \in Tasks : h = [op |-> "cancel", id |-> t] =>
       strand'[t].cancel \/ strand[t].state \in Terminal

LEMMA FamiliesKeep ==
  ASSUME ParentsAwaited, ChildrenCondemned, NEW h, Stays(h), Spent(h),
         \A t \in Tasks :
           /\ SameKin(t)
           /\ strand[t].cancel => strand'[t].cancel
           /\ Orphaned(t)' => Orphaned(t)
           /\ Condemned(t)' => \/ Condemned(t)
                               \/ \A c \in ActiveChildren(t) :
                                    [op |-> "cancel", id |-> c] \in ToSet(agenda')
  PROVE  ParentsAwaited' /\ ChildrenCondemned'
<1>1. ParentsAwaited'
  <2> SUFFICES ASSUME NEW t \in Tasks, Orphaned(t)'
               PROVE  [op |-> "adopt", id |-> t] \in ToSet(agenda')
    BY DEF ParentsAwaited
  <2>1. Orphaned(t) /\ [op |-> "adopt", id |-> t] \in ToSet(agenda)
    BY DEF ParentsAwaited
  <2>2. [op |-> "adopt", id |-> t] # h
    BY <2>1 DEF Spent
  <2> QED
    BY <2>1, <2>2 DEF Stays
<1>2. ChildrenCondemned'
  <2> SUFFICES ASSUME NEW t \in Tasks, Condemned(t)', NEW c \in ActiveChildren(t)'
               PROVE  strand'[c].cancel \/ [op |-> "cancel", id |-> c] \in ToSet(agenda')
    BY DEF ChildrenCondemned
  <2>1. c \in ActiveChildren(t)
    BY KinKeepsChildren
  <2>1a. c \in Tasks /\ strand[c].state \notin Terminal
    BY <2>1 DEF ActiveChildren, Children, IsTerminal
  <2>2. CASE Condemned(t)
    <3>1. strand[c].cancel \/ [op |-> "cancel", id |-> c] \in ToSet(agenda)
      BY <2>1, <2>2 DEF ChildrenCondemned
    <3>2. CASE strand[c].cancel
      BY <2>1a, <3>2
    <3>3. CASE [op |-> "cancel", id |-> c] \in ToSet(agenda)
      BY <2>1a, <3>3 DEF Stays, Spent
    <3> QED
      BY <3>1, <3>2, <3>3
  <2>3. CASE \A d \in ActiveChildren(t) : [op |-> "cancel", id |-> d] \in ToSet(agenda')
    BY <2>1, <2>3
  <2> QED
    BY <2>2, <2>3
<1> QED
  BY <1>1, <1>2

\* Steps that leave the strands as they are to InStep.
LEMMA SameInStep ==
  ASSUME TypeOK, TypeOK', InStep, QueuesInStep', NEW h, Stays(h), Spent(h),
         \A t \in Tasks : Same(t),
         \A w \in Workers : thread'[w].cur = thread[w].cur,
         UNCHANGED <<timers, running, finished>>
  PROVE  InStep'
<1>1. \A t \in Tasks : TimerSafe(t)
  BY DEF TimerSafe, MayHaveTimer, Same
<1>2. TimersInStep'
  <2> DEFINE none == {}
  <2>1. \A e \in none : e.gen = strand'[e.id].gen /\ MayHaveTimer(e.id)'
    OBVIOUS
  <2>2. \A e \in timers' : e \in timers \/ e \in none
    OBVIOUS
  <2> HIDE DEF none
  <2> QED
    BY <1>1, <2>1, <2>2, TimersKeep DEF InStep
<1>3. StrandsHaveWorkers'
  BY WorkersKeep DEF InStep, PlaceKept, Same
<1>4. InBodies' = InBodies /\ Ended' = Ended
  BY DEF InBodies, Ended, Same
<1>5. Counted'
  BY <1>4 DEF InStep, Counted
<1>6. \A t \in Tasks : SameKin(t)
  BY DEF SameKin, Same
<1>7. \A t \in Tasks : (Orphaned(t)' <=> Orphaned(t)) /\ (Condemned(t)' <=> Condemned(t))
  BY <1>6, KinKeepsChildren DEF Orphaned, Condemned, Same
<1>8. ParentsAwaited' /\ ChildrenCondemned'
  BY <1>6, <1>7, FamiliesKeep DEF InStep, Same
<1>9. SuspendedResume'
  BY DEF InStep, SuspendedResume, Resumes, ResumesOnCancel, Same
<1> QED
  BY <1>2, <1>3, <1>5, <1>8, <1>9 DEF InStep
-----------------------------------------------------------------------------
(* The steps that leave the strands as they are, or nearly *)

Dummy == [op |-> "none", id |-> None]

LEMMA DummySpent == Spent(Dummy)
BY DEF Spent, Dummy

LEMMA FreeAgendaStays ==
  ASSUME agenda' = agenda \/ agenda = <<>>
  PROVE  Stays(Dummy)
BY DEF Stays, ToSet

LEMMA StillInStep ==
  ASSUME Inv, Inv', InStep, UNCHANGED <<globalq, localq>>,
         agenda' = agenda \/ agenda = <<>>,
         \A t \in Tasks : Same(t),
         \A w \in Workers : thread'[w].cur = thread[w].cur,
         UNCHANGED <<timers, running, finished>>
  PROVE  InStep'
<1>1. QueuesInStep'
  <2>1. \A t \in Tasks : Unmoved(t)
    BY DEF Unmoved, CanRun, Same
  <2> QED
    BY <2>1, QueuesStill DEF InStep
<1> QED
  BY <1>1, DummySpent, FreeAgendaStays, SameInStep DEF Inv

LEMMA UnchangedSame == ASSUME UNCHANGED strand PROVE \A t \in Tasks : Same(t)
BY DEF Same

LEMMA HostSteps ==
  ASSUME Inv, Inv', InStep, NEW h \in Hosts, HostStep(h) PROVE InStep'
<1>1. \A w \in Workers : w # h
  BY ThreadsDistinct
<1>2. UNCHANGED <<strand, globalq, localq, timers, running, finished, agenda>>
  BY DEF HostStep, HostJoin, HostIdle, IdleWake, IdleTimeout, Shutdown, ShutdownNotify,
    ShutdownJoined
<1>3. \A w \in Workers : thread'[w] = thread[w]
  <2>1. \E r : thread' = [thread EXCEPT ![h] = r]
    <3>1. CASE \E target \in Tasks, timed \in BOOLEAN : HostJoin(h, target, timed)
      BY <3>1 DEF HostJoin, Joining
    <3>2. CASE HostIdle(h) \/ IdleWake(h) \/ IdleTimeout(h)
      BY <3>2 DEF HostIdle, IdleWake, IdleTimeout
    <3>3. CASE Shutdown(h) \/ ShutdownNotify(h) \/ ShutdownJoined(h)
      BY <3>3 DEF Shutdown, ShutdownNotify, ShutdownJoined
    <3> QED
      BY <3>1, <3>2, <3>3 DEF HostStep
  <2> QED
    BY <1>1, <2>1 DEF Inv, TypeOK, Threads
<1> QED
  BY <1>2, <1>3, StillInStep, UnchangedSame

LEMMA QuietSteps ==
  ASSUME Inv, Inv', InStep,
         \/ \E w \in Workers : Exit(w) \/ NotifyAfter(w)
         \/ \E w \in Workers, target \in Tasks : TaskJoinAtOnce(w, target)
         \/ \E th \in Threads : WakeUp(th)
         \/ \E e \in timers : Expire(e)
         \/ \E t \in Tasks : CancelTask(t)
         \/ UNCHANGED vars
  PROVE  InStep'
<1>1. /\ UNCHANGED <<strand, globalq, localq, timers, running, finished>>
      /\ agenda' = agenda \/ agenda = <<>>
  BY DEF Exit, NotifyAfter, TaskJoinAtOnce, WakeUp, Expire, CancelTask, MutexFree, vars
<1>2. \A w \in Workers : thread'[w].cur = thread[w].cur
  <2>1. ASSUME NEW w \in Workers, Exit(w) \/ NotifyAfter(w)
        PROVE  \A v \in Workers : thread'[v].cur = thread[v].cur
    <3>1. thread \in [Threads -> ThreadRecord] /\ \A v \in Workers : v \in Threads
      BY DEF Inv, TypeOK, Threads
    <3>2. \E pc : thread' = [thread EXCEPT ![w].pc = pc]
      BY <2>1 DEF Exit, NotifyAfter
    <3> QED
      BY <3>1, <3>2 DEF ThreadRecord
  <2>2. CASE UNCHANGED thread
    BY <2>2
  <2> QED
    BY <2>1, <2>2 DEF TaskJoinAtOnce, WakeUp, Expire, CancelTask, vars
<1> QED
  BY <1>1, <1>2, StillInStep, UnchangedSame

\* The strand of a worker in a body.
LEMMA BodyStrand ==
  ASSUME Inv, NEW w \in Workers, thread[w].pc = "body"
  PROVE  /\ thread[w].cur \in Tasks /\ strand[thread[w].cur].state = "Running"
         /\ strand[thread[w].cur].pending = "New"
BY DEF Inv, WorkersHoldStrands

LEMMA ParkSteps ==
  ASSUME Inv, Inv', InStep,
         \/ \E w \in Workers, timed \in BOOLEAN : ParkCurrent(w, timed)
         \/ \E t \in Tasks, to \in WakeTargets : WakeParking(t, to)
  PROVE  InStep'
<1>1. UNCHANGED <<globalq, localq, timers, running, finished, agenda, thread>>
  BY DEF ParkCurrent, WakeParking
<1>2. \A t \in Tasks : Same(t)
  <2>1. ASSUME NEW w \in Workers, NEW timed \in BOOLEAN, ParkCurrent(w, timed)
        PROVE  \A t \in Tasks : Same(t)
    <3>1. thread[w].pc = "body"
      BY <2>1 DEF ParkCurrent, InBody
    <3>2. thread[w].cur \in Tasks
      BY <3>1, BodyStrand
    <3>3. Update(thread[w].cur, [strand[thread[w].cur] EXCEPT !.parkPending = TRUE,
                                                              !.parkTimed = timed])
      BY <2>1 DEF ParkCurrent
    <3> QED
      BY <3>2, <3>3, ParkSame DEF Inv
  <2>2. ASSUME NEW t \in Tasks, NEW to \in WakeTargets, WakeParking(t, to)
        PROVE  \A u \in Tasks : Same(u)
    <3>1. Update(t, [strand[t] EXCEPT !.parkWake = TRUE, !.parkTo = to])
      BY <2>2 DEF WakeParking
    <3> QED
      BY <3>1, ParkSame DEF Inv
  <2> QED
    BY <2>1, <2>2
<1> QED
  BY <1>1, <1>2, StillInStep

\* The call at the head of the agenda is made, and nothing but it is lost.
LEMMA CallStays ==
  ASSUME Inv, NEW op \in {"cancel", "cancel_rest", "settle", "adopt"}, NEW t \in Tasks,
         Calling(op, t)
  PROVE  /\ agenda \in Seq(Call) /\ agenda # <<>> /\ Head(agenda) = [op |-> op, id |-> t]
         /\ Tail(agenda) \in Seq(Call)
         /\ agenda' = Tail(agenda) => Stays([op |-> op, id |-> t])
         /\ \A new \in Seq(Call) : agenda' = new \o Tail(agenda) =>
              Stays([op |-> op, id |-> t]) /\ ToSet(new) \subseteq ToSet(agenda')
<1>1. /\ agenda \in Seq(Call) /\ agenda # <<>> /\ Head(agenda) = [op |-> op, id |-> t]
  BY DEF Calling, Inv, TypeOK
<1>2. Tail(agenda) \in Seq(Call)
  BY <1>1
<1>3. agenda' = Tail(agenda) => Stays([op |-> op, id |-> t])
  BY <1>1, PopRemains DEF Remains, Stays
<1>4. ASSUME NEW new \in Seq(Call), agenda' = new \o Tail(agenda)
      PROVE  Stays([op |-> op, id |-> t]) /\ ToSet(new) \subseteq ToSet(agenda')
  BY <1>1, <1>4, PushRemains DEF Remains, Stays
<1> QED
  BY <1>1, <1>2, <1>3, <1>4

LEMMA CancelNotifyStep ==
  ASSUME Inv, Inv', InStep, CancelNotify PROVE InStep'
<1>1. \A t \in Tasks : Same(t) /\ Unmoved(t)
  BY DEF CancelNotify, Same, Unmoved, CanRun
<1>2. QueuesInStep'
  BY <1>1, QueuesStill DEF InStep, CancelNotify
<1>3. agenda \in Seq(Call) /\ agenda # <<>> /\ agenda' = Tail(agenda)
      /\ Head(agenda) = [op |-> "notify_all", id |-> None]
  BY DEF CancelNotify, Calling, Inv, TypeOK
<1>4. Stays([op |-> "notify_all", id |-> None])
  BY <1>3, PopRemains DEF Remains, Stays
<1>5. Spent([op |-> "notify_all", id |-> None])
  BY DEF Spent
<1> QED
  BY <1>1, <1>2, <1>4, <1>5, SameInStep DEF CancelNotify, Inv

\* A call that changes no strand.
LEMMA IdleCall ==
  ASSUME Inv, Inv', InStep, NEW op \in {"cancel", "cancel_rest", "settle", "adopt"},
         NEW t \in Tasks, Calling(op, t), agenda' = Tail(agenda),
         \A u \in Tasks : Same(u), Spent([op |-> op, id |-> t]),
         UNCHANGED <<globalq, localq, timers, running, finished, thread>>
  PROVE  InStep'
<1>1. \A u \in Tasks : Unmoved(u)
  BY DEF Same, Unmoved, CanRun
<1>2. QueuesInStep'
  BY <1>1, QueuesStill DEF InStep
<1> QED
  BY <1>2, CallStays, SameInStep DEF Inv
-----------------------------------------------------------------------------
(* Waking *)

\* While the mutex is free, only those that wait or have ended have completed.
LEMMA FreePending ==
  ASSUME Inv, MutexFree, NEW t \in Tasks, strand[t].state \notin Terminal \cup {"Waiting"}
  PROVE  strand[t].pending = "New"
<1>1. ~Settling(t)
  BY FreeSettlesNone
<1> QED
  BY <1>1 DEF Inv, PendingSettles, Unsettled

\* The strands of S are woken.
Wakes(S) ==
  /\ Others(S)
  /\ \A t \in S : /\ strand[t].state = "Sleeping" /\ strand[t].pending = "New"
                  /\ \E g : Goes(t, "Runnable", TRUE, g)

LEMMA WakesUnmoved ==
  ASSUME QueuesInStep, NEW S \in SUBSET Tasks, Wakes(S)
  PROVE  /\ \A t \in S : ~Queued(t) /\ CanRun(t)' /\ strand'[t].queued = TRUE
         /\ \A u \in Tasks \ S : Unmoved(u)
<1>1. ASSUME NEW t \in S PROVE ~Queued(t) /\ CanRun(t)' /\ strand'[t].queued = TRUE
  BY DEF Wakes, Goes, QueuesInStep, QueuedCanRun, CanRun
<1>2. ASSUME NEW u \in Tasks \ S PROVE Unmoved(u)
  BY DEF Wakes, Others, Unmoved, CanRun
<1> QED
  BY <1>1, <1>2

LEMMA WakesKeep ==
  ASSUME InStep, QueuesInStep', TimersInStep', NEW S \in SUBSET Tasks, Wakes(S),
         NEW h, Stays(h), Spent(h),
         \A w \in Workers : thread'[w].cur = thread[w].cur,
         UNCHANGED <<running, finished>>
  PROVE  InStep'
<1>1. \A t \in Tasks \ S : strand'[t] = strand[t]
  BY DEF Wakes, Others
<1>2. \A t \in S : /\ strand[t].state = "Sleeping" /\ strand[t].pending = "New"
                   /\ strand'[t].state = "Runnable" /\ strand'[t].pending = "New"
                   /\ strand'[t].cancel = strand[t].cancel
                   /\ strand'[t].parent = strand[t].parent
  BY DEF Wakes, Goes
<1>3. StrandsHaveWorkers'
  <2>1. \A t \in Tasks : PlaceKept(t)
    BY <1>1, <1>2 DEF PlaceKept
  <2> QED
    BY <2>1, WorkersKeep DEF InStep
<1>4. Counted'
  <2>1. InBodies' = InBodies /\ Ended' = Ended
    BY <1>1, <1>2 DEF InBodies, Ended, Terminal
  <2> QED
    BY <2>1 DEF InStep, Counted
<1>5. ParentsAwaited' /\ ChildrenCondemned'
  <2>1. \A t \in Tasks : SameKin(t)
    BY <1>1, <1>2 DEF SameKin, Terminal
  <2>2. ASSUME NEW t \in Tasks PROVE Orphaned(t)' => Orphaned(t)
    BY <1>1, <1>2, <2>1, KinKeepsChildren DEF Orphaned
  <2>3. ASSUME NEW t \in Tasks PROVE Condemned(t)' => Condemned(t)
    BY <1>1, <1>2 DEF Condemned
  <2>4. \A t \in Tasks : strand[t].cancel => strand'[t].cancel
    BY <1>1, <1>2
  <2> QED
    BY <2>1, <2>2, <2>3, <2>4, FamiliesKeep DEF InStep
<1>6. SuspendedResume'
  BY <1>1, <1>2 DEF InStep, SuspendedResume, Resumes, ResumesOnCancel
<1> QED
  BY <1>3, <1>4, <1>5, <1>6 DEF InStep

\* A strand that is woken explicitly leaves its timer behind.
LEMMA WokenWakes ==
  ASSUME TypeOK, TypeOK', InStep, NEW t \in Tasks, strand[t].state = "Sleeping",
         strand[t].pending = "New", Update(t, Woken(t)), UNCHANGED timers,
         NEW to \in Workers \cup {None}, Enqueue(t, to)
  PROVE  Wakes({t}) /\ QueuesInStep' /\ TimersInStep'
<1>1. Others({t}) /\ Goes(t, "Runnable", TRUE, strand[t].gen + 1)
  BY WokenGoes
<1>2. Wakes({t})
  BY <1>1 DEF Wakes
<1>3. QueuesInStep'
  BY <1>2, WakesUnmoved, QueuesGrow DEF InStep
<1>4. \A u \in Tasks : TimerSafe(u)
  <2>1. strand[t].gen \in Nat
    BY FieldTypes
  <2>2. TimerSafe(t)
    BY <1>1, <2>1 DEF Goes, TimerSafe
  <2>3. \A u \in Tasks \ {t} : TimerSafe(u)
    BY <1>1 DEF Others, TimerSafe, MayHaveTimer
  <2> QED
    BY <2>2, <2>3
<1>5. TimersInStep'
  <2> DEFINE none == {}
  <2>1. \A e \in none : e.gen = strand'[e.id].gen /\ MayHaveTimer(e.id)'
    OBVIOUS
  <2>2. \A e \in timers' : e \in timers \/ e \in none
    OBVIOUS
  <2> HIDE DEF none
  <2> QED
    BY <1>4, <2>1, <2>2, TimersKeep DEF InStep
<1> QED
  BY <1>2, <1>3, <1>5

LEMMA WakeSleepingStep ==
  ASSUME Inv, Inv', InStep, NEW t \in Tasks, NEW to \in WakeTargets, WakeSleeping(t, to)
  PROVE  InStep'
<1>1. /\ MutexFree /\ strand[t].state = "Sleeping" /\ Update(t, Woken(t))
      /\ Enqueue(t, to) /\ UNCHANGED <<timers, running, finished, thread, agenda>>
  BY DEF WakeSleeping
<1>2. strand[t].pending = "New"
  BY <1>1, FreePending DEF Terminal
<1>3. to \in Workers \cup {None}
  BY WakeTargetType
<1>4. Wakes({t}) /\ QueuesInStep' /\ TimersInStep'
  BY <1>1, <1>2, <1>3, WokenWakes DEF Inv
<1>5. {t} \in SUBSET Tasks
  OBVIOUS
<1> QED
  BY <1>1, <1>4, <1>5, WakesKeep, DummySpent, FreeAgendaStays

\* The timers of the promoted strands are gone, the others are as good as before.
LEMMA ScanStep ==
  ASSUME Inv, Inv', InStep, NEW w \in Workers, Scan(w) PROVE InStep'
<1>1. Promoted \in SUBSET Tasks
  BY PromotedTypes DEF Inv
<1>2. Others(Promoted) /\ \A t \in Promoted : Goes(t, "Runnable", TRUE, strand[t].gen)
  BY PromotedGoes DEF Inv
<1>3. \A t \in Promoted : strand[t].state = "Sleeping"
  BY DEF Promoted
<1>4. MutexFree
  BY DEF Scan
<1>5. Wakes(Promoted)
  <2>1. \A t \in Promoted : strand[t].pending = "New"
    BY <1>1, <1>3, <1>4, FreePending DEF Terminal
  <2> QED
    BY <1>2, <1>3, <2>1 DEF Wakes
<1>6. QueuesInStep'
  <2>1. PICK order \in SetToSeqs(Promoted) : localq' = [localq EXCEPT ![w] = @ \o order]
    BY DEF Scan
  <2>2. globalq' = globalq
    BY DEF Scan
  <2>3. /\ \A t \in Promoted : ~Queued(t) /\ CanRun(t)' /\ strand'[t].queued = TRUE
        /\ \A u \in Tasks \ Promoted : Unmoved(u)
    BY <1>1, <1>5, WakesUnmoved DEF InStep
  <2> DEFINE S == Promoted
  <2>4. S \in SUBSET Tasks /\ order \in SetToSeqs(S)
    BY <1>1
  <2>5. /\ \A t \in S : ~Queued(t) /\ CanRun(t)' /\ strand'[t].queued = TRUE
        /\ \A u \in Tasks \ S : Unmoved(u)
    BY <2>3
  <2> HIDE DEF S
  <2> QED
    BY <2>1, <2>2, <2>4, <2>5, QueuesExtend DEF InStep, Inv
<1>7. TimersInStep'
  <2> SUFFICES ASSUME NEW e \in timers'
               PROVE  /\ e.gen <= strand'[e.id].gen
                      /\ strand'[e.id].gen = e.gen => MayHaveTimer(e.id)'
    BY DEF TimersInStep
  <2>1. e \in timers /\ e \notin due
    BY DEF Scan
  <2>2. /\ e.gen <= strand[e.id].gen
        /\ strand[e.id].gen = e.gen => MayHaveTimer(e.id)
    BY <2>1 DEF InStep, TimersInStep
  <2>3. e.id \in Tasks /\ e \in TimerEntry
    BY <2>1 DEF Inv, TypeOK, TimerEntry
  <2>4. CASE e.id \in Promoted
    <3>1. PICK d \in due : d.id = e.id /\ strand[d.id].gen = d.gen
      BY <2>4 DEF Promoted
    <3>2. d \in TimerEntry
      BY DEF Inv, TypeOK
    <3>3. d.gen # e.gen
      BY <2>1, <2>3, <3>1, <3>2 DEF TimerEntry
    <3>4. strand'[e.id].gen = strand[e.id].gen
      BY <1>2, <2>4 DEF Goes
    <3> QED
      BY <2>2, <3>1, <3>3, <3>4
  <2>5. CASE e.id \notin Promoted
    BY <1>2, <2>2, <2>3, <2>5 DEF Others, MayHaveTimer
  <2> QED
    BY <2>4, <2>5
<1>8. Stays(Dummy)
  BY <1>4, FreeAgendaStays DEF MutexFree
<1>9. UNCHANGED <<running, finished, thread>>
  BY DEF Scan
<1> QED
  BY <1>1, <1>5, <1>6, <1>7, <1>8, <1>9, WakesKeep, DummySpent
-----------------------------------------------------------------------------
(* What the calls put on the agenda *)

Pushes(new, rest) == new \in Seq(OtherCalls) /\ agenda' = new \o rest

CancelsAll(S, new) == \A c \in S : [op |-> "cancel", id |-> c] \in ToSet(new)

LEMMA CancelsThen ==
  ASSUME NEW S \in SUBSET Tasks, NEW order \in SetToSeqs(S), NEW c \in OtherCalls,
         NEW T, NEW rest \in Seq(T)
  PROVE  /\ CancelEach(order) \o <<c>> \in Seq(OtherCalls)
         /\ CancelsAll(S, CancelEach(order) \o <<c>>)
         /\ c \in ToSet(CancelEach(order) \o <<c>>)
         /\ CancelEach(order) \o (<<c>> \o rest) = (CancelEach(order) \o <<c>>) \o rest
<1> DEFINE list == CancelEach(order)
<1>1. /\ list \in Seq(OtherCalls)
      /\ \A x \in S : [op |-> "cancel", id |-> x] \in ToSet(list)
  BY CancelEachCancels
<1> HIDE DEF list
<1>2. <<c>> \in Seq(OtherCalls) /\ c \in ToSet(<<c>>)
  BY DEF ToSet
<1>3. ToSet(list) \subseteq ToSet(list \o <<c>>) /\ ToSet(<<c>>) \subseteq ToSet(list \o <<c>>)
  BY <1>1, <1>2, ListMembers
<1>4. CancelsAll(S, list \o <<c>>) /\ c \in ToSet(list \o <<c>>)
  BY <1>1, <1>2, <1>3 DEF CancelsAll
<1>5. list \o <<c>> \in Seq(OtherCalls)
  BY <1>1, <1>2
<1>6. list \o (<<c>> \o rest) = (list \o <<c>>) \o rest
  BY <1>1, <1>2, ConcatAssociates
<1> QED
  BY <1>4, <1>5, <1>6 DEF list

LEMMA ChildrenAreTasks ==
  ASSUME NEW t PROVE ActiveChildren(t) \in SUBSET Tasks
BY DEF ActiveChildren, Children

LEMMA CancelPushes ==
  ASSUME Inv, NEW t \in Tasks, CallCancel(t), ~IsTerminal(t)
  PROVE  \E new : Pushes(new, Tail(agenda)) /\ CancelsAll(ActiveChildren(t), new)
<1> DEFINE rest == [op |-> "cancel_rest", id |-> t]
<1>1. PICK order \in SetToSeqs(ActiveChildren(t)) :
        agenda' = CancelEach(order) \o <<rest>> \o Tail(agenda)
  BY DEF CallCancel
<1>2. rest \in OtherCalls
  BY DEF OtherCalls, Call
<1> HIDE DEF rest
<1>3. Tail(agenda) \in Seq(Call)
  BY CallStays DEF CallCancel
<1>4. /\ CancelEach(order) \o <<rest>> \in Seq(OtherCalls)
      /\ CancelsAll(ActiveChildren(t), CancelEach(order) \o <<rest>>)
  BY <1>2, <1>3, ChildrenAreTasks, CancelsThen
<1> QED
  BY <1>1, <1>4 DEF Pushes

LEMMA FinishPushes ==
  ASSUME NEW t \in Tasks, NEW s, NEW outcome, NEW rest \in Seq(Call),
         FinishOrWait(t, s, outcome, rest)
  PROVE  \E new : /\ Pushes(new, rest)
                  /\ outcome # "Done" => CancelsAll(ActiveChildren(t), new)
<1> DEFINE settle == [op |-> "settle", id |-> t]
<1>1. settle \in OtherCalls
  BY DEF OtherCalls, Call
<1>2. CASE outcome = "Done"
  <2>1. agenda' = <<settle>> \o rest
    BY <1>2 DEF FinishOrWait
  <2> HIDE DEF settle
  <2>2. <<settle>> \in Seq(OtherCalls)
    BY <1>1
  <2> QED
    BY <1>2, <2>1, <2>2 DEF Pushes
<1>3. CASE outcome # "Done"
  <2>1. PICK order \in SetToSeqs(ActiveChildren(t)) :
          agenda' = CancelEach(order) \o <<settle>> \o rest
    BY <1>3 DEF FinishOrWait
  <2> HIDE DEF settle
  <2>2. /\ CancelEach(order) \o <<settle>> \in Seq(OtherCalls)
        /\ CancelsAll(ActiveChildren(t), CancelEach(order) \o <<settle>>)
    BY <1>1, ChildrenAreTasks, CancelsThen
  <2> QED
    BY <2>1, <2>2 DEF Pushes
<1> QED
  BY <1>2, <1>3

\* A parent that is told of a first failure cancels whom its policy says.
LEMMA FinalizePushes ==
  ASSUME Inv, NEW t \in Tasks, NEW op \in {"settle", "adopt"}, Calling(op, t), Finalize(t),
         strand[t].parent # t
  PROVE  LET p == strand[t].parent IN
         \/ ~HasLiveParent(t) /\ agenda' = Tail(agenda) /\ Others({t})
         \/ /\ HasLiveParent(t) /\ p \in Tasks
            /\ \E new : /\ Pushes(new, Tail(agenda))
                        /\ [op |-> "adopt", id |-> p] \in ToSet(new)
                        /\ \/ strand'[p].cancel = strand[p].cancel
                           \/ CancelsAll(ActiveChildren(p) \ {t}, new)
<1> DEFINE p == strand[t].parent
           adopt == [op |-> "adopt", id |-> p]
<1>0. Tail(agenda) \in Seq(Call)
  BY CallStays
<1>1. CASE ~HasLiveParent(t) /\ agenda' = Tail(agenda) /\ \E r : Update(t, r)
  <2>1. Others({t})
    BY <1>1 DEF Update, Inv, TypeOK, Others
  <2> QED
    BY <1>1, <2>1
<1>2. ASSUME HasLiveParent(t) PROVE p \in Tasks /\ adopt \in OtherCalls
  <2>1. p \in Tasks
    BY <1>2, FieldTypes DEF HasLiveParent, Inv
  <2> QED
    BY <2>1 DEF OtherCalls, Call
<1>3. CASE /\ HasLiveParent(t) /\ agenda' = <<adopt>> \o Tail(agenda)
           /\ \A u \in Tasks \ {t} : strand'[u] = strand[u]
  <2>1. p \in Tasks /\ adopt \in OtherCalls
    BY <1>2, <1>3
  <2> HIDE DEF adopt
  <2>2. Pushes(<<adopt>>, Tail(agenda)) /\ adopt \in ToSet(<<adopt>>)
    BY <1>3, <2>1 DEF Pushes, ToSet
  <2>3. strand'[p].cancel = strand[p].cancel
    BY <1>3, <2>1
  <2> QED
    BY <1>3, <2>1, <2>2, <2>3 DEF adopt
<1>4. CASE /\ HasLiveParent(t)
           /\ strand'[p] = Informed(p, t)
           /\ \E order \in SupervisionOrders(p, t) :
                agenda' = CancelEach(order) \o (<<adopt>> \o Tail(agenda))
  <2>1. p \in Tasks /\ adopt \in OtherCalls
    BY <1>2, <1>4
  <2>2. PICK order \in SetToSeqs(Supervised(p, t)) :
          agenda' = CancelEach(order) \o (<<adopt>> \o Tail(agenda))
    BY <1>4 DEF SupervisionOrders
  <2>3. Supervised(p, t) \in SUBSET Tasks
    <3>1. strand[p].policy \in PolicyNames
      BY <2>1, FieldTypes DEF Inv, StrandRecord
    <3>2. ActiveChildren(p) \in SUBSET Tasks
      BY ChildrenAreTasks
    <3> QED
      BY <3>1, <3>2 DEF Supervised, PolicyNames
  <2> DEFINE new == CancelEach(order) \o <<adopt>>
  <2> HIDE DEF adopt
  <2>4. /\ new \in Seq(OtherCalls) /\ adopt \in ToSet(new)
        /\ CancelsAll(Supervised(p, t), new) /\ agenda' = new \o Tail(agenda)
    BY <1>0, <2>1, <2>2, <2>3, CancelsThen
  <2>5. \/ strand'[p].cancel = strand[p].cancel
        \/ CancelsAll(ActiveChildren(p) \ {t}, new)
    <3>1. CASE strand[p].policy = "CancelScope"
      BY <2>4, <3>1 DEF Supervised
    <3>2. CASE strand[p].policy # "CancelScope"
      <4>1. strand[p] \in StrandRecord
        BY <2>1, FieldTypes DEF Inv
      <4>2. Informed(p, t).cancel = (strand[p].cancel \/ strand[p].policy = "CancelScope")
        BY <4>1 DEF Informed, StrandRecord
      <4>3. strand[p].cancel \in BOOLEAN
        BY <4>1 DEF StrandRecord
      <4> QED
        BY <1>4, <3>2, <4>2, <4>3
    <3> QED
      BY <3>1, <3>2
  <2> QED
    BY <1>4, <2>1, <2>4, <2>5 DEF Pushes, adopt
<1>5. CASE /\ HasLiveParent(t) /\ agenda' = <<adopt>> \o Tail(agenda)
           /\ \E r : Update(t, r)
  <2>1. \A u \in Tasks \ {t} : strand'[u] = strand[u]
    BY <1>5 DEF Update, Inv, TypeOK
  <2> QED
    BY <1>3, <1>5, <2>1
<1>6. CASE /\ HasLiveParent(t)
           /\ \E r : strand' = [strand EXCEPT ![t] = r, ![p] = Informed(p, t)]
           /\ \E order \in SupervisionOrders(p, t) :
                agenda' = CancelEach(order) \o (<<adopt>> \o Tail(agenda))
  <2>1. strand'[p] = Informed(p, t)
    BY <1>2, <1>6 DEF Inv, TypeOK
  <2> QED
    BY <1>4, <1>6, <2>1
<1> QED
  BY <1>1, <1>5, <1>6 DEF Finalize
-----------------------------------------------------------------------------
(* Dispatching *)

\* A worker that is about to be given a strand has none.
Dispatchers ==
  \A w \in Workers : [op |-> "dispatch", id |-> w] \in ToSet(agenda) => thread[w].cur = None

LEMMA NoDispatch == ASSUME agenda' \in Seq(OtherCalls) PROVE Dispatchers'
<1>1. \A i \in DOMAIN agenda' : agenda'[i] \in OtherCalls
  OBVIOUS
<1> QED
  BY <1>1 DEF Dispatchers, ToSet, OtherCalls

LEMMA ListsJoin ==
  ASSUME NEW S, NEW a \in Seq(S), NEW b \in Seq(S) PROVE a \o b \in Seq(S)
OBVIOUS

LEMMA CallsPushOthers ==
  ASSUME Inv, NEW op \in {"cancel", "cancel_rest", "settle", "adopt"}, NEW t \in Tasks,
         Calling(op, t), agenda' = Tail(agenda) \/ \E new : Pushes(new, Tail(agenda))
  PROVE  Dispatchers'
<1>1. Tail(agenda) \in Seq(ValidCalls)
  BY CallFacts
<1>2. Tail(agenda) \in Seq(OtherCalls)
  <2>1. ValidCalls \subseteq OtherCalls
    BY DEF ValidCalls, OtherCalls
  <2> HIDE DEF OtherCalls, ValidCalls
  <2> QED
    BY <1>1, <2>1, SeqOfMore
<1>3. agenda' \in Seq(OtherCalls)
  <2>1. ASSUME NEW new, Pushes(new, Tail(agenda)) PROVE agenda' \in Seq(OtherCalls)
    BY <1>2, <2>1, ListsJoin DEF Pushes
  <2> QED
    BY <1>2, <2>1
<1> QED
  BY <1>3, NoDispatch

LEMMA NotOwnParent ==
  ASSUME NEW t \in Tasks, ~HasActiveChildren(t), ~IsTerminal(t) PROVE strand[t].parent # t
BY DEF HasActiveChildren, ActiveChildren, Children

LEMMA FinishOthers ==
  ASSUME NEW t \in Tasks, NEW s, NEW outcome, FinishOrWait(t, s, outcome, <<>>)
  PROVE  agenda' \in Seq(OtherCalls)
<1>1. <<>> \in Seq(Call) /\ <<>> \in Seq(OtherCalls)
  OBVIOUS
<1>2. PICK new : Pushes(new, <<>>)
  BY <1>1, FinishPushes
<1> HIDE DEF OtherCalls
<1> QED
  BY <1>1, <1>2 DEF Pushes

LEMMA DispatchersNext == Inv /\ Dispatchers /\ [Next]_vars => Dispatchers'
<1> SUFFICES ASSUME Inv, Dispatchers, [Next]_vars PROVE Dispatchers'
  OBVIOUS
<1>0. <<>> \in Seq(OtherCalls)
  OBVIOUS
<1>1. CASE agenda' = <<>>
  BY <1>0, <1>1, NoDispatch
<1>2. CASE UNCHANGED <<agenda, thread>>
  BY <1>2 DEF Dispatchers
<1>3. ASSUME NEW w \in Workers, RunLocal(w) \/ RunGlobal(w) \/ Block(w) PROVE Dispatchers'
  BY <1>1, <1>3, DispatchTail DEF RunLocal, RunGlobal, Block, Inv
<1>4. ASSUME NEW t \in Tasks, CallCancel(t) \/ CancelRest(t) \/ Settle(t) \/ Adopt(t)
      PROVE  Dispatchers'
  <2>1. CASE CallCancel(t)
    <3>1. agenda' = Tail(agenda) \/ \E new : Pushes(new, Tail(agenda))
      BY <2>1, CancelPushes DEF CallCancel
    <3> QED
      BY <2>1, <3>1, CallsPushOthers DEF CallCancel
  <2>2. CASE CancelRest(t)
    <3>1. Calling("cancel_rest", t)
      BY <2>2 DEF CancelRest
    <3>2. Tail(agenda) \in Seq(Call)
      BY <3>1, CallStays
    <3>3. agenda' = Tail(agenda) \/ \E new : Pushes(new, Tail(agenda))
      BY <2>2, <3>2, FinishPushes DEF CancelRest
    <3> QED
      BY <3>1, <3>3, CallsPushOthers
  <2>3. ASSUME NEW op \in {"settle", "adopt"}, Calling(op, t), Finalize(t),
               ~HasActiveChildren(t), ~IsTerminal(t)
        PROVE  Dispatchers'
    <3>1. agenda' = Tail(agenda) \/ \E new : Pushes(new, Tail(agenda))
      BY <2>3, FinalizePushes, NotOwnParent
    <3> QED
      BY <2>3, <3>1, CallsPushOthers
  <2>4. CASE Settle(t)
    BY <2>3, <2>4, CallsPushOthers DEF Settle
  <2>5. CASE Adopt(t)
    <3>1. ChildrenAwaited(t) => ~HasActiveChildren(t) /\ ~IsTerminal(t)
      BY DEF ChildrenAwaited, IsTerminal, Terminal
    <3> QED
      BY <2>3, <2>5, <3>1, CallsPushOthers DEF Adopt
  <2> QED
    BY <1>4, <2>1, <2>2, <2>4, <2>5
<1>5. CASE CancelNotify
  <2>1. agenda \in Seq(ValidCalls) /\ agenda # <<>> /\ agenda' = Tail(agenda)
    BY <1>5 DEF CancelNotify, Calling, Inv, AgendaValid
  <2>2. ValidCalls \subseteq OtherCalls
    BY DEF ValidCalls, OtherCalls
  <2> HIDE DEF OtherCalls, ValidCalls
  <2>3. agenda' \in Seq(ValidCalls)
    BY <2>1
  <2>4. agenda' \in Seq(OtherCalls)
    BY <2>2, <2>3, SeqOfMore
  <2> QED
    BY <2>4, NoDispatch
<1>6. CASE Calls
  BY <1>3, <1>4, <1>5, <1>6 DEF Calls
<1>7. ASSUME NEW w \in Workers, WorkerStep(w) \/ Body(w) PROVE Dispatchers'
  <2>1. CASE Scan(w)
    <3>1. thread' = thread /\ thread[w].cur = None
      BY <2>1 DEF Scan, Inv, WorkersHoldStrands
    <3>2. agenda' = <<[op |-> "dispatch", id |-> w]>>
      BY <2>1 DEF Scan
    <3>3. \A v \in Workers : [op |-> "dispatch", id |-> v] \in ToSet(agenda') => v = w
      BY <3>2 DEF ToSet
    <3> QED
      BY <3>1, <3>3 DEF Dispatchers
  <2>2. CASE \E outcome \in Terminal : ReturnFinished(w, outcome)
    <3>1. thread[w].cur \in Tasks
      BY <2>2 DEF ReturnFinished, Inv, WorkersHoldStrands
    <3> QED
      BY <2>2, <3>1, FinishOthers, NoDispatch DEF ReturnFinished
  <2>3. CASE Exit(w) \/ ReturnParked(w) \/ NotifyAfter(w) \/ Body(w)
    <3>1. CASE Exit(w) \/ ReturnParked(w) \/ NotifyAfter(w)
      BY <1>1, <3>1 DEF Exit, ReturnParked, NotifyAfter, MutexFree
    <3>2. CASE Body(w)
      BY <1>1, <3>2 DEF Body, TaskSpawn, SpawnAny, Spawn, SpawnSleeping, ParkCurrent,
        TaskJoinAtOnce, TaskJoin, CanJoin, InBody, MutexFree
    <3> QED
      BY <2>3, <3>1, <3>2
  <2> QED
    BY <1>7, <2>1, <2>2, <2>3 DEF WorkerStep
<1>8. CASE \E h \in Hosts : HostStep(h)
  BY <1>1, <1>8 DEF HostStep, HostJoin, HostIdle, IdleWake, IdleTimeout, Shutdown,
    ShutdownNotify, ShutdownJoined, MutexFree
<1>9. CASE \E th \in Threads : JoinWake(th) \/ JoinTimeout(th) \/ WakeUp(th)
  BY <1>1, <1>9 DEF JoinWake, JoinTimeout, JoinReturn, WakeUp, MutexFree
<1>10. CASE HostSpawn
  BY <1>1, <1>10 DEF HostSpawn, SpawnAny, Spawn, SpawnSleeping, MutexFree
<1>11. CASE \E t \in Tasks, to \in WakeTargets : WakeParking(t, to) \/ WakeSleeping(t, to)
  BY <1>1, <1>11 DEF WakeParking, WakeSleeping, MutexFree
<1>12. ASSUME NEW t \in Tasks, CancelTask(t) PROVE Dispatchers'
  <2>1. agenda' = <<[op |-> "cancel", id |-> t], [op |-> "notify_all", id |-> None]>>
    BY <1>12 DEF CancelTask
  <2>2. [op |-> "cancel", id |-> t] \in OtherCalls /\ [op |-> "notify_all", id |-> None] \in OtherCalls
    BY DEF OtherCalls, Call
  <2>3. agenda' \in Seq(OtherCalls)
    BY <2>1, <2>2
  <2> QED
    BY <2>3, NoDispatch
<1>13. CASE \E e \in timers : Expire(e)
  BY <1>1, <1>13 DEF Expire, MutexFree
<1>14. CASE UNCHANGED vars
  BY <1>2, <1>14 DEF vars
<1> QED
  BY <1>6, <1>7, <1>8, <1>9, <1>10, <1>11, <1>12, <1>13, <1>14 DEF Next

LEMMA AlwaysDispatchers == Spec => []Dispatchers
<1>1. Init => Dispatchers
  BY DEF Init, Dispatchers, ToSet
<1> QED
  BY <1>1, DispatchersNext, AlwaysInv, PTL DEF Spec

\* A worker gets a strand that can run.
LEMMA RunStep ==
  ASSUME Inv, Inv', InStep, Dispatchers, QueuesInStep', NEW w \in Workers, NEW t \in Tasks,
         Dispatching(w), Run(w, t), strand[t].state = "Runnable"
  PROVE  InStep'
<1>1. Others({t}) /\ Goes(t, "Running", FALSE, strand[t].gen) /\ strand'[t].worker = w
  BY RunGoes DEF Inv
<1>2. agenda = <<[op |-> "dispatch", id |-> w]>> /\ agenda' = <<>>
  BY DispatchTail DEF Inv
<1>3. strand[t].pending = "New"
  <2>1. \A i \in DOMAIN agenda : agenda[i].op = "dispatch"
    BY <1>2
  <2>2. ~Settling(t)
    BY <2>1 DEF Settling
  <2> QED
    BY <2>2 DEF Inv, PendingSettles, Unsettled, Terminal
<1>4. thread[w].cur = None
  BY <1>2 DEF Dispatchers, ToSet
<1>5. \A u \in Tasks \ {t} : strand'[u] = strand[u]
  BY <1>1 DEF Others
<1>6. /\ strand'[t].state = "Running" /\ strand'[t].pending = "New"
      /\ strand'[t].gen = strand[t].gen /\ strand'[t].cancel = strand[t].cancel
      /\ strand'[t].parent = strand[t].parent
  BY <1>1, <1>3 DEF Goes
<1>7. TimersInStep'
  <2>1. \A u \in Tasks : TimerSafe(u)
    BY <1>5, <1>6 DEF TimerSafe, MayHaveTimer, Terminal
  <2> DEFINE none == {}
  <2>2. \A e \in none : e.gen = strand'[e.id].gen /\ MayHaveTimer(e.id)'
    OBVIOUS
  <2>3. \A e \in timers' : e \in timers \/ e \in none
    BY DEF Run
  <2> HIDE DEF none
  <2> QED
    BY <2>1, <2>2, <2>3, TimersKeep DEF InStep, Inv
<1>8. StrandsHaveWorkers'
  <2>0. thread \in [Threads -> ThreadRecord] /\ w \in Threads /\ Workers \subseteq Threads
    BY DEF Inv, TypeOK, Threads
  <2>1. thread'[w].cur = t /\ \A v \in Threads \ {w} : thread'[v] = thread[v]
    BY <2>0 DEF Run, ThreadRecord
  <2>2. HasWorker(t)'
    BY <1>1, <1>6, <2>1 DEF HasWorker
  <2>3. ASSUME NEW u \in Tasks \ {t} PROVE HasWorker(u)'
    <3>1. HasWorker(u) /\ u # None
      BY NoneIsNoTask DEF InStep, StrandsHaveWorkers
    <3> QED
      BY <1>4, <1>5, <2>0, <2>1, <3>1 DEF HasWorker
  <2> QED
    BY <2>2, <2>3 DEF StrandsHaveWorkers
<1>9. Counted'
  <2>1. InBodies' = InBodies \cup {t} /\ t \notin InBodies /\ Ended' = Ended
    BY <1>5, <1>6 DEF InBodies, Ended, Terminal
  <2> QED
    BY <2>1, OneMoreRuns DEF Run, InStep
<1>10. ParentsAwaited' /\ ChildrenCondemned'
  <2>1. Stays([op |-> "dispatch", id |-> w]) /\ Spent([op |-> "dispatch", id |-> w])
    BY <1>2 DEF Stays, Spent, ToSet
  <2>2. \A u \in Tasks : SameKin(u)
    BY <1>5, <1>6 DEF SameKin, Terminal
  <2>3. ASSUME NEW u \in Tasks PROVE Orphaned(u)' => Orphaned(u)
    BY <1>5, <1>6, <2>2, KinKeepsChildren DEF Orphaned
  <2>4. ASSUME NEW u \in Tasks PROVE Condemned(u)' => Condemned(u)
    BY <1>3, <1>5, <1>6 DEF Condemned
  <2>5. \A u \in Tasks : strand[u].cancel => strand'[u].cancel
    BY <1>5, <1>6
  <2> QED
    BY <2>1, <2>2, <2>3, <2>4, <2>5, FamiliesKeep DEF InStep
<1>11. SuspendedResume'
  BY <1>5, <1>6 DEF InStep, SuspendedResume, Resumes, ResumesOnCancel
<1> QED
  BY <1>7, <1>8, <1>9, <1>10, <1>11 DEF InStep
LEMMA BehindEnds ==
  ASSUME NEW q \in Seq(Tasks) PROVE Behind(q, 0) = q /\ Behind(q, Len(q)) = <<>>
BY DEF Behind

\* The first entry that can run is popped, with those before it.
LEMMA RunQueues ==
  ASSUME Inv, QueuesInStep, NEW w \in Workers, NEW t \in Tasks, Run(w, t),
         strand[t].state = "Runnable", strand[t].pending = "New",
         NEW m \in 0..Len(localq[w]), NEW n \in 0..Len(globalq),
         Popped(w, m, n, t),
         \A u \in Tasks \ {t} : Popped(w, m, n, u) => strand[u].state # "Runnable",
         localq' = [localq EXCEPT ![w] = Behind(@, m)],
         globalq' = Behind(globalq, n)
  PROVE  QueuesInStep'
<1>1. Others({t}) /\ Goes(t, "Running", FALSE, strand[t].gen)
  BY RunGoes DEF Inv
<1>2. /\ strand'[t].pending = "New" <=> strand[t].pending = "New"
      /\ strand'[t].queued <=> CanRun(t)'
      /\ CanRun(t)' <=> CanRun(t) /\ ~Popped(w, m, n, t)
  BY <1>1 DEF Goes, CanRun
<1>3. ASSUME NEW u \in Tasks \ {t}
      PROVE  /\ strand'[u].pending = "New" <=> strand[u].pending = "New"
             /\ strand'[u].queued <=> CanRun(u)'
             /\ CanRun(u)' <=> CanRun(u) /\ ~Popped(w, m, n, u)
  <2>1. strand'[u] = strand[u]
    BY <1>1 DEF Others
  <2>2. strand[u].queued <=> CanRun(u)
    BY DEF QueuesInStep, FlagsTrue
  <2> QED
    BY <2>1, <2>2 DEF CanRun
<1>4. TypeOK
  BY DEF Inv
<1> QED
  BY <1>2, <1>3, <1>4, QueuesShrink

LEMMA DispatchPending ==
  ASSUME Inv, NEW w \in Workers, Dispatching(w), NEW t \in Tasks, strand[t].state = "Runnable"
  PROVE  strand[t].pending = "New"
<1>1. agenda = <<[op |-> "dispatch", id |-> w]>>
  BY DispatchTail DEF Inv
<1>2. \A i \in DOMAIN agenda : agenda[i].op = "dispatch"
  BY <1>1
<1>3. ~Settling(t)
  BY <1>2 DEF Settling
<1> QED
  BY <1>3 DEF Inv, PendingSettles, Unsettled, Terminal

LEMMA RunLocalStep ==
  ASSUME Inv, Inv', InStep, Dispatchers, NEW w \in Workers, RunLocal(w) PROVE InStep'
<1> DEFINE q == localq[w]
<1>1. PICK i \in DOMAIN q : /\ FirstRunnable(q, i) /\ Run(w, q[i])
                            /\ localq' = [localq EXCEPT ![w] = Behind(@, i)]
  BY DEF RunLocal
<1>2. globalq \in Seq(Tasks) /\ q \in Seq(Tasks)
  BY DEF Inv, TypeOK
<1>3. i \in 0..Len(q) /\ 0 \in 0..Len(globalq) /\ i \in 1..i
  BY <1>2
<1>4. q[i] \in Tasks /\ strand[q[i]].state = "Runnable"
  BY <1>1, <1>2 DEF FirstRunnable
<1>5. Popped(w, i, 0, q[i])
  BY <1>3 DEF Popped
<1>6. ASSUME NEW u \in Tasks \ {q[i]}, Popped(w, i, 0, u) PROVE strand[u].state # "Runnable"
  <2>1. PICK j \in 1..i : q[j] = u
    BY <1>6 DEF Popped
  <2>2. j \in 1..(i - 1)
    BY <1>3, <2>1
  <2> QED
    BY <1>1, <2>1, <2>2 DEF FirstRunnable
<1>7. globalq' = Behind(globalq, 0)
  BY <1>2, BehindEnds DEF RunLocal
<1>8. Dispatching(w)
  BY DEF RunLocal
<1>9. QueuesInStep'
  <2> DEFINE t == q[i]
  <2>1. t \in Tasks /\ Run(w, t) /\ strand[t].state = "Runnable" /\ Popped(w, i, 0, t)
        /\ \A u \in Tasks \ {t} : Popped(w, i, 0, u) => strand[u].state # "Runnable"
    BY <1>1, <1>4, <1>5, <1>6
  <2> HIDE DEF t
  <2> QED
    BY <1>1, <1>3, <1>7, <1>8, <2>1, DispatchPending, RunQueues DEF InStep
<1> QED
  BY <1>1, <1>4, <1>8, <1>9, RunStep

LEMMA RunGlobalStep ==
  ASSUME Inv, Inv', InStep, Dispatchers, NEW w \in Workers, RunGlobal(w) PROVE InStep'
<1> DEFINE q == localq[w]
           m == Len(q)
<1>1. PICK i \in DOMAIN globalq : /\ FirstRunnable(globalq, i) /\ Run(w, globalq[i])
                                  /\ globalq' = Behind(globalq, i)
  BY DEF RunGlobal
<1>2. globalq \in Seq(Tasks) /\ q \in Seq(Tasks)
  BY DEF Inv, TypeOK
<1>3. i \in 0..Len(globalq) /\ m \in 0..m /\ i \in 1..i /\ DOMAIN q = 1..m
  BY <1>2
<1>4. globalq[i] \in Tasks /\ strand[globalq[i]].state = "Runnable"
  BY <1>1, <1>2 DEF FirstRunnable
<1>5. Popped(w, m, i, globalq[i])
  BY <1>3 DEF Popped
<1>6. ASSUME NEW u \in Tasks \ {globalq[i]}, Popped(w, m, i, u)
      PROVE  strand[u].state # "Runnable"
  <2>1. CASE \E j \in 1..m : q[j] = u
    BY <1>3, <2>1 DEF RunGlobal, NoneRunnable
  <2>2. ASSUME NEW j \in 1..i, globalq[j] = u PROVE strand[u].state # "Runnable"
    <3>1. j \in 1..(i - 1)
      BY <1>3, <2>2, <1>6
    <3> QED
      BY <1>1, <2>2, <3>1 DEF FirstRunnable
  <2> QED
    BY <1>6, <2>1, <2>2 DEF Popped
<1>7. localq' = [localq EXCEPT ![w] = Behind(@, m)]
  BY <1>2, BehindEnds DEF RunGlobal
<1>8. Dispatching(w)
  BY DEF RunGlobal
<1>9. QueuesInStep'
  <2> DEFINE t == globalq[i]
  <2>1. t \in Tasks /\ Run(w, t) /\ strand[t].state = "Runnable" /\ Popped(w, m, i, t)
        /\ \A u \in Tasks \ {t} : Popped(w, m, i, u) => strand[u].state # "Runnable"
    BY <1>1, <1>4, <1>5, <1>6
  <2>2. m \in 0..Len(localq[w])
    BY <1>3
  <2> HIDE DEF t, m
  <2> QED
    BY <1>1, <1>3, <1>7, <1>8, <2>1, <2>2, DispatchPending, RunQueues DEF InStep
<1> QED
  BY <1>1, <1>4, <1>8, <1>9, RunStep

LEMMA BlockStep ==
  ASSUME Inv, Inv', InStep, NEW w \in Workers, Block(w) PROVE InStep'
<1> DEFINE q == localq[w]
           m == Len(q)
           n == Len(globalq)
<1>1. globalq \in Seq(Tasks) /\ q \in Seq(Tasks)
  BY DEF Inv, TypeOK
<1>2. m \in 0..Len(q) /\ n \in 0..n /\ DOMAIN q = 1..m /\ DOMAIN globalq = 1..n
  BY <1>1
<1>3. localq' = [localq EXCEPT ![w] = Behind(@, m)] /\ globalq' = Behind(globalq, n)
  BY <1>1, BehindEnds DEF Block
<1>4. \A u \in Tasks : Popped(w, m, n, u) => strand[u].state # "Runnable"
  BY <1>2 DEF Block, NoneRunnable, Popped
<1>5. \A u \in Tasks :
        /\ strand'[u].pending = "New" <=> strand[u].pending = "New"
        /\ strand'[u].queued <=> CanRun(u)'
        /\ CanRun(u)' <=> CanRun(u) /\ ~Popped(w, m, n, u)
  <2>1. strand' = strand
    BY DEF Block
  <2>2. \A u \in Tasks : strand[u].queued <=> CanRun(u)
    BY DEF InStep, QueuesInStep, FlagsTrue
  <2> HIDE DEF m, n
  <2> QED
    BY <1>4, <2>1, <2>2 DEF CanRun
<1>6. QueuesInStep'
  <2>1. m \in 0..Len(localq[w]) /\ n \in 0..Len(globalq)
    BY <1>2
  <2> HIDE DEF m, n
  <2> QED
    BY <1>3, <1>5, <2>1, QueuesShrink DEF InStep, Inv
<1>7. agenda = <<[op |-> "dispatch", id |-> w]>>
  BY DispatchTail DEF Block, Inv
<1>8. Stays([op |-> "dispatch", id |-> w]) /\ Spent([op |-> "dispatch", id |-> w])
  BY <1>7 DEF Stays, Spent, ToSet
<1>9. \A v \in Workers : thread'[v].cur = thread[v].cur
  <2>1. thread \in [Threads -> ThreadRecord] /\ \A v \in Workers : v \in Threads
    BY DEF Inv, TypeOK, Threads
  <2>2. \E timed : thread' = [thread EXCEPT ![w].timed = timed]
    BY DEF Block
  <2> QED
    BY <2>1, <2>2 DEF ThreadRecord
<1>10. \A u \in Tasks : Same(u)
  BY UnchangedSame DEF Block
<1> QED
  BY <1>6, <1>8, <1>9, <1>10, SameInStep DEF Block, Inv
-----------------------------------------------------------------------------
(* The function of a strand returns *)

LEMMA LeaverKeeps ==
  ASSUME Inv, StrandsHaveWorkers, NEW w \in Workers, NEW t \in Tasks, thread[w].cur = t,
         Leave(w), Others({t}), HasWorker(t)'
  PROVE  StrandsHaveWorkers'
<1>1. thread \in [Threads -> ThreadRecord] /\ w \in Threads /\ Workers \subseteq Threads
  BY DEF Inv, TypeOK, Threads
<1>2. \A v \in Workers \ {w} : thread'[v] = thread[v]
  BY <1>1 DEF Leave
<1>3. ASSUME NEW u \in Tasks \ {t} PROVE HasWorker(u)'
  <2>1. HasWorker(u) /\ strand'[u] = strand[u]
    BY DEF StrandsHaveWorkers, Others
  <2>2. \A v \in Workers : thread[v].cur = u => thread'[v].cur = u
    BY <1>2
  <2> QED
    BY <2>1, <2>2 DEF HasWorker
<1> QED
  BY <1>3 DEF StrandsHaveWorkers

LEMMA ReturnParkedStep ==
  ASSUME Inv, Inv', InStep, NEW w \in Workers, ReturnParked(w) PROVE InStep'
<1>0. PICK t \in Tasks : t = thread[w].cur
  BY BodyStrand DEF ReturnParked
<1> DEFINE entry == [id |-> t, gen |-> strand[t].gen + 1]
<1>1. /\ Update(t, Parked(strand[t])) /\ thread[w].pc = "body" /\ MutexFree
      /\ IF strand[t].parkWake THEN Enqueue(t, strand[t].parkTo) ELSE UNCHANGED queueVars
      /\ timers' = IF ~strand[t].parkWake /\ strand[t].parkTimed
                   THEN timers \cup {entry} ELSE timers
      /\ running' = Decrement(running) /\ Leave(w) /\ UNCHANGED <<finished, agenda>>
  BY <1>0 DEF ReturnParked
<1>2. strand[t].state = "Running" /\ strand[t].pending = "New"
  BY <1>0, <1>1, BodyStrand
<1>2a. strand[t].gen \in Nat /\ strand[t].parkWake \in BOOLEAN
       /\ strand[t].parkTo \in Workers \cup {None}
  BY FieldTypes DEF Inv
<1>3. /\ Others({t})
      /\ IF strand[t].parkWake THEN Goes(t, "Runnable", TRUE, strand[t].gen + 1)
                               ELSE Goes(t, "Sleeping", FALSE, strand[t].gen + 1)
  BY <1>1, <1>2, ParkedGoes DEF Inv
<1>4. \A u \in Tasks \ {t} : strand'[u] = strand[u]
  BY <1>3 DEF Others
<1>5. /\ strand'[t].state \in {"Runnable", "Sleeping"} /\ strand'[t].pending = "New"
      /\ strand'[t].gen = strand[t].gen + 1 /\ strand'[t].cancel = strand[t].cancel
      /\ strand'[t].parent = strand[t].parent
      /\ ~strand[t].parkWake => strand'[t].state = "Sleeping"
  BY <1>2, <1>3 DEF Goes
<1>6. QueuesInStep'
  <2>1. ~CanRun(t) /\ ~Queued(t) /\ strand[t].queued = FALSE
    <3>1. ~CanRun(t) /\ ~Queued(t)
      BY <1>2 DEF InStep, QueuesInStep, QueuedCanRun, CanRun
    <3>2. strand[t].queued \in BOOLEAN
      BY <1>2 DEF Inv, TypeOK, StrandRecord
    <3> QED
      BY <1>2, <3>1, <3>2 DEF InStep, QueuesInStep, FlagsTrue
  <2>2. \A u \in Tasks \ {t} : Unmoved(u)
    BY <1>4 DEF Unmoved, CanRun
  <2>3. CASE strand[t].parkWake
    <3>1. CanRun(t)' /\ strand'[t].queued = TRUE
      BY <1>2, <1>3, <2>3 DEF CanRun, Goes
    <3> QED
      BY <1>1, <1>2, <1>2a, <2>1, <2>2, <2>3, <3>1, QueuesGrow DEF InStep, Inv
  <2>4. CASE ~strand[t].parkWake
    <3>1. Unmoved(t)
      BY <1>2, <1>3, <2>1, <2>4 DEF Unmoved, CanRun, Goes
    <3> QED
      BY <1>1, <2>2, <2>4, <3>1, QueuesStill DEF InStep
  <2> QED
    BY <2>3, <2>4
<1>7. TimersInStep'
  <2> DEFINE new == IF strand[t].parkWake THEN {} ELSE {entry}
  <2>1. \A e \in timers' : e \in timers \/ e \in new
    BY <1>1
  <2>2. \A e \in new : e.gen = strand'[e.id].gen /\ MayHaveTimer(e.id)'
    BY <1>5 DEF MayHaveTimer
  <2>3. \A u \in Tasks : TimerSafe(u)
    BY <1>2a, <1>4, <1>5 DEF TimerSafe, MayHaveTimer
  <2> HIDE DEF new
  <2> QED
    BY <2>1, <2>2, <2>3, TimersKeep DEF InStep, Inv
<1>8. StrandsHaveWorkers'
  <2>1. HasWorker(t)'
    BY <1>5 DEF HasWorker
  <2> QED
    BY <1>0, <1>1, <1>3, <2>1, LeaverKeeps DEF InStep
<1>9. Counted'
  <2>1. InBodies' = InBodies \ {t} /\ t \in InBodies
    BY <1>2, <1>4, <1>5 DEF InBodies
  <2>2. Ended' = Ended
    BY <1>2, <1>4, <1>5 DEF Ended, Terminal
  <2> QED
    BY <1>1, <1>2, <2>1, <2>2, OneLessRuns DEF InStep
<1>10. ParentsAwaited' /\ ChildrenCondemned'
  <2>1. Stays(Dummy)
    BY <1>1, FreeAgendaStays
  <2>2. \A u \in Tasks : SameKin(u)
    BY <1>2, <1>4, <1>5 DEF SameKin, Terminal
  <2>3. ASSUME NEW u \in Tasks PROVE Orphaned(u)' => Orphaned(u)
    BY <1>4, <1>5, <2>2, KinKeepsChildren DEF Orphaned
  <2>4. ASSUME NEW u \in Tasks PROVE Condemned(u)' => Condemned(u)
    BY <1>2, <1>4, <1>5 DEF Condemned
  <2>5. \A u \in Tasks : strand[u].cancel => strand'[u].cancel
    BY <1>4, <1>5
  <2> QED
    BY <2>1, <2>2, <2>3, <2>4, <2>5, DummySpent, FamiliesKeep DEF InStep
<1>11. SuspendedResume'
  BY <1>4, <1>5 DEF InStep, SuspendedResume, Resumes, ResumesOnCancel
<1> QED
  BY <1>6, <1>7, <1>8, <1>9, <1>10, <1>11 DEF InStep

\* What a recorded completion leaves in step, whoever records it.
LEMMA CompletedKeeps ==
  ASSUME Inv, Inv', InStep, NEW t \in Tasks, NEW outcome \in Terminal, Others({t}),
         Completed(t, outcome),
         strand[t].state \notin Terminal,
         strand[t].state = "Waiting" => strand[t].pending # "New",
         strand[t].state \in {"Sleeping", "Runnable"} => ~ResumesOnCancel(t),
         UNCHANGED <<globalq, localq, timers>>,
         NEW h, Stays(h), Spent(h),
         outcome # "Done" =>
           \A c \in ActiveChildren(t) : [op |-> "cancel", id |-> c] \in ToSet(agenda')
  PROVE  /\ QueuesInStep' /\ TimersInStep' /\ ParentsAwaited' /\ ChildrenCondemned'
         /\ SuspendedResume'
<1>1. \A u \in Tasks \ {t} : strand'[u] = strand[u]
  BY DEF Others
<1>2. /\ strand'[t].state = strand[t].state /\ strand'[t].pending = outcome
      /\ outcome # "New" /\ strand'[t].queued = FALSE /\ strand'[t].gen = strand[t].gen
      /\ strand'[t].cancel = strand[t].cancel /\ strand'[t].parent = strand[t].parent
      /\ strand'[t].parkedOnce = strand[t].parkedOnce
      /\ strand'[t].resumable = strand[t].resumable
  BY DEF Completed, Terminal
<1>3. QueuesInStep'
  <2>1. \A u \in Tasks \ {t} : Unmoved(u)
    BY <1>1 DEF Unmoved, CanRun
  <2>2. Finished(t)
    BY <1>2 DEF Finished
  <2> QED
    BY <2>1, <2>2, QueuesStill DEF InStep
<1>4. TimersInStep'
  <2>1. \A u \in Tasks : TimerSafe(u)
    BY <1>1, <1>2 DEF TimerSafe, MayHaveTimer
  <2> DEFINE none == {}
  <2>2. \A e \in none : e.gen = strand'[e.id].gen /\ MayHaveTimer(e.id)'
    OBVIOUS
  <2>3. \A e \in timers' : e \in timers \/ e \in none
    OBVIOUS
  <2> HIDE DEF none
  <2> QED
    BY <2>1, <2>2, <2>3, TimersKeep DEF InStep, Inv
<1>5. ParentsAwaited' /\ ChildrenCondemned'
  <2>1. \A u \in Tasks : SameKin(u)
    BY <1>1, <1>2 DEF SameKin
  <2>2. ASSUME NEW u \in Tasks PROVE Orphaned(u)' => Orphaned(u)
    BY <1>1, <1>2, <2>1, KinKeepsChildren DEF Orphaned
  <2>3. ASSUME NEW u \in Tasks, Condemned(u)'
        PROVE  \/ Condemned(u)
               \/ \A c \in ActiveChildren(u) : [op |-> "cancel", id |-> c] \in ToSet(agenda')
    BY <1>1, <1>2, <2>3 DEF Condemned
  <2>4. \A u \in Tasks : strand[u].cancel => strand'[u].cancel
    BY <1>1, <1>2
  <2> QED
    BY <2>1, <2>2, <2>3, <2>4, FamiliesKeep DEF InStep
<1>6. SuspendedResume'
  <2>1. Resumes(t)'
    BY <1>2 DEF Resumes, ResumesOnCancel
  <2>2. \A u \in Tasks \ {t} : Resumes(u)'
    BY <1>1 DEF InStep, SuspendedResume, Resumes, ResumesOnCancel
  <2> QED
    BY <2>1, <2>2 DEF SuspendedResume
<1> QED
  BY <1>3, <1>4, <1>5, <1>6

LEMMA PushedOn ==
  ASSUME NEW new, NEW rest \in Seq(Call), Pushes(new, rest)
  PROVE  /\ agenda' \in Seq(Call) /\ ToSet(new) \subseteq ToSet(agenda')
         /\ ToSet(rest) \subseteq ToSet(agenda')
<1>1. OtherCalls \subseteq Call
  BY DEF OtherCalls
<1>2. new \in Seq(Call) /\ agenda' = new \o rest
  BY <1>1, SeqOfMore DEF Pushes
<1> QED
  BY <1>2, ListMembers, ListsJoin

LEMMA ReturnFinishedStep ==
  ASSUME Inv, Inv', InStep, NEW w \in Workers, NEW outcome \in Terminal,
         ReturnFinished(w, outcome)
  PROVE  InStep'
<1>0. PICK t \in Tasks : t = thread[w].cur
  BY BodyStrand DEF ReturnFinished
<1> DEFINE s == [strand[t] EXCEPT !.worker = None]
<1>1. /\ MutexFree /\ thread[w].pc = "body" /\ FinishOrWait(t, s, outcome, <<>>)
      /\ running' = Decrement(running) /\ Leave(w)
      /\ UNCHANGED <<globalq, localq, timers, finished>>
  BY <1>0 DEF ReturnFinished
<1>2. strand[t].state = "Running" /\ strand[t].pending = "New"
  BY <1>0, <1>1, BodyStrand
<1>3. Others({t}) /\ Completed(t, outcome)
  BY <1>1, <1>2, FinishCompletes DEF Inv
<1>4. outcome # "Done" =>
        \A c \in ActiveChildren(t) : [op |-> "cancel", id |-> c] \in ToSet(agenda')
  <2>1. <<>> \in Seq(Call)
    OBVIOUS
  <2>2. PICK new : /\ Pushes(new, <<>>)
                   /\ outcome # "Done" => CancelsAll(ActiveChildren(t), new)
    BY <1>1, <1>2, <2>1, FinishPushes
  <2>3. ToSet(new) \subseteq ToSet(agenda')
    BY <2>1, <2>2, PushedOn
  <2> QED
    BY <2>2, <2>3 DEF CancelsAll
<1>5. Stays(Dummy)
  BY <1>1, FreeAgendaStays DEF MutexFree
<1>6. /\ QueuesInStep' /\ TimersInStep' /\ ParentsAwaited' /\ ChildrenCondemned'
      /\ SuspendedResume'
  BY <1>1, <1>2, <1>3, <1>4, <1>5, DummySpent, CompletedKeeps DEF Terminal
<1>7. strand'[t].pending # "New" /\ strand'[t].state = "Running"
  BY <1>2, <1>3 DEF Completed, Terminal
<1>8. StrandsHaveWorkers'
  <2>1. HasWorker(t)'
    BY <1>7 DEF HasWorker
  <2> QED
    BY <1>0, <1>1, <1>3, <2>1, LeaverKeeps DEF InStep
<1>9. Counted'
  <2>1. \A u \in Tasks \ {t} : strand'[u] = strand[u]
    BY <1>3 DEF Others
  <2>2. InBodies' = InBodies \ {t} /\ t \in InBodies
    BY <1>2, <1>7, <2>1 DEF InBodies
  <2>3. Ended' = Ended
    BY <1>2, <1>7, <2>1 DEF Ended, Terminal
  <2> QED
    BY <1>1, <1>2, <2>2, <2>3, OneLessRuns DEF InStep
<1> QED
  BY <1>6, <1>8, <1>9 DEF InStep
-----------------------------------------------------------------------------
(* Cancelling, finishing and propagating *)

LEMMA CallCancelStep ==
  ASSUME Inv, Inv', InStep, NEW t \in Tasks, CallCancel(t) PROVE InStep'
<1> DEFINE h == [op |-> "cancel", id |-> t]
<1>1. /\ Calling("cancel", t)
      /\ UNCHANGED <<globalq, localq, timers, running, finished, thread>>
  BY DEF CallCancel
<1>2. CASE IsTerminal(t)
  <2>1. agenda' = Tail(agenda) /\ UNCHANGED strand
    BY <1>2 DEF CallCancel
  <2>2. Spent(h)
    BY <1>2 DEF Spent, IsTerminal
  <2> QED
    BY <1>1, <2>1, <2>2, UnchangedSame, IdleCall
<1>3. CASE ~IsTerminal(t)
  <2>1. Others({t}) /\ Warned(t) /\ strand'[t].cancel
    BY <1>3, CancelWarns DEF CallCancel, Inv
  <2>2. PICK new : Pushes(new, Tail(agenda)) /\ CancelsAll(ActiveChildren(t), new)
    BY <1>3, CancelPushes
  <2>3. Tail(agenda) \in Seq(Call)
    BY <1>1, CallStays
  <2>4. \A c \in ActiveChildren(t) : [op |-> "cancel", id |-> c] \in ToSet(agenda')
    BY <2>2, <2>3, PushedOn DEF CancelsAll
  <2>5. Stays(h)
    <3>1. ToSet(Tail(agenda)) \subseteq ToSet(agenda')
      BY <2>2, <2>3, PushedOn
    <3>2. ToSet(agenda) \subseteq ToSet(Tail(agenda)) \cup {h}
      BY <1>1, CallStays, TailMembers
    <3> QED
      BY <3>1, <3>2 DEF Stays
  <2>6. Spent(h)
    BY <2>1 DEF Spent
  <2> HIDE DEF h
  <2>7. \A u \in Tasks : Warned(u)
    BY <2>1 DEF Others, Warned
  <2>8. QueuesInStep'
    <3>1. \A u \in Tasks : Unmoved(u)
      BY <2>7 DEF Warned, Unmoved, CanRun
    <3> QED
      BY <1>1, <3>1, QueuesStill DEF InStep
  <2>9. TimersInStep'
    <3>1. \A u \in Tasks : TimerSafe(u)
      BY <2>7 DEF TimerSafe, MayHaveTimer, Warned
    <3> DEFINE none == {}
    <3>2. \A e \in none : e.gen = strand'[e.id].gen /\ MayHaveTimer(e.id)'
      OBVIOUS
    <3>3. \A e \in timers' : e \in timers \/ e \in none
      BY <1>1
    <3> HIDE DEF none
    <3> QED
      BY <3>1, <3>2, <3>3, TimersKeep DEF InStep, Inv
  <2>10. StrandsHaveWorkers'
    BY <1>1, <2>7, WorkersKeep DEF InStep, PlaceKept, Warned
  <2>11. Counted'
    <3>1. InBodies' = InBodies /\ Ended' = Ended
      BY <2>7 DEF InBodies, Ended, Warned
    <3> QED
      BY <1>1, <3>1 DEF InStep, Counted
  <2>12. ParentsAwaited' /\ ChildrenCondemned'
    <3>1. \A u \in Tasks : SameKin(u)
      BY <2>7 DEF SameKin, Warned
    <3>2. ASSUME NEW u \in Tasks PROVE Orphaned(u)' => Orphaned(u)
      BY <2>7, <3>1, KinKeepsChildren DEF Orphaned, Warned
    <3>3. ASSUME NEW u \in Tasks, Condemned(u)'
          PROVE  \/ Condemned(u)
                 \/ \A c \in ActiveChildren(u) : [op |-> "cancel", id |-> c] \in ToSet(agenda')
      BY <2>1, <2>4, <3>3 DEF Condemned, Others
    <3>4. \A u \in Tasks : strand[u].cancel => strand'[u].cancel
      BY <2>7 DEF Warned
    <3> QED
      BY <2>5, <2>6, <3>1, <3>2, <3>3, <3>4, FamiliesKeep DEF InStep
  <2>13. SuspendedResume'
    BY <2>7 DEF InStep, SuspendedResume, Resumes, ResumesOnCancel, Warned
  <2> QED
    BY <2>8, <2>9, <2>10, <2>11, <2>12, <2>13 DEF InStep
<1> QED
  BY <1>2, <1>3

\* What is left of the agenda when a call has pushed others.
LEMMA PushStays ==
  ASSUME Inv, NEW op \in {"cancel", "cancel_rest", "settle", "adopt"}, NEW t \in Tasks,
         Calling(op, t), agenda' = Tail(agenda) \/ \E new : Pushes(new, Tail(agenda))
  PROVE  Stays([op |-> op, id |-> t])
<1>1. Tail(agenda) \in Seq(Call)
  BY CallStays
<1>2. ToSet(Tail(agenda)) \subseteq ToSet(agenda')
  BY <1>1, PushedOn
<1>3. ToSet(agenda) \subseteq ToSet(Tail(agenda)) \cup {[op |-> op, id |-> t]}
  BY CallStays, TailMembers
<1> QED
  BY <1>2, <1>3 DEF Stays

LEMMA CancelRestStep ==
  ASSUME Inv, Inv', InStep, NEW t \in Tasks, CancelRest(t) PROVE InStep'
<1> DEFINE h == [op |-> "cancel_rest", id |-> t]
<1>1. /\ Calling("cancel_rest", t)
      /\ UNCHANGED <<localq, timers, running, finished, thread>>
  BY DEF CancelRest
<1>2. Tail(agenda) \in Seq(Call)
  BY <1>1, CallStays
<1>3. Spent(h)
  BY DEF Spent
<1>4. ASSUME agenda' = Tail(agenda), \A u \in Tasks : Same(u), UNCHANGED globalq
      PROVE  InStep'
  BY <1>1, <1>3, <1>4, IdleCall
<1>5. CASE UNCHANGED <<strand, globalq>> /\ agenda' = Tail(agenda)
  BY <1>4, <1>5, UnchangedSame
<1>6. CASE /\ Update(t, [strand[t] EXCEPT !.parkWake = TRUE, !.parkTo = None])
           /\ agenda' = Tail(agenda) /\ UNCHANGED globalq
  BY <1>4, <1>6, ParkSame DEF Inv
<1>7. CASE /\ ResumesOnCancel(t) /\ strand[t].state = "Sleeping" /\ Update(t, Woken(t))
           /\ globalq' = Append(globalq, t) /\ agenda' = Tail(agenda)
  <2>1. strand[t].pending = "New"
    BY <1>7 DEF InStep, SuspendedResume, Resumes
  <2>2. Enqueue(t, None)
    BY <1>1, <1>7 DEF Enqueue
  <2>3. Wakes({t}) /\ QueuesInStep' /\ TimersInStep'
    <3>1. None \in Workers \cup {None}
      OBVIOUS
    <3> QED
      BY <1>1, <1>7, <2>1, <2>2, <3>1, WokenWakes DEF Inv
  <2>4. Stays(h)
    BY <1>1, <1>7, PushStays
  <2>5. {t} \in SUBSET Tasks
    OBVIOUS
  <2> HIDE DEF h
  <2> QED
    BY <1>1, <1>3, <2>3, <2>4, <2>5, WakesKeep
<1>8. CASE /\ ~IsTerminal(t) /\ ~NoticesCancel(t)
           /\ ~(ResumesOnCancel(t) /\ strand[t].state = "Sleeping")
           /\ FinishOrWait(t, strand[t], "Cancelled", Tail(agenda)) /\ UNCHANGED globalq
  <2>1. Others({t}) /\ Completed(t, "Cancelled")
    BY <1>8, FinishCompletes DEF Inv
  <2>2. PICK new : /\ Pushes(new, Tail(agenda))
                   /\ "Cancelled" # "Done" => CancelsAll(ActiveChildren(t), new)
    BY <1>2, <1>8, FinishPushes
  <2>3. \A c \in ActiveChildren(t) : [op |-> "cancel", id |-> c] \in ToSet(agenda')
    BY <1>2, <2>2, PushedOn DEF CancelsAll
  <2>4. Stays(h)
    BY <1>1, <2>2, PushStays
  <2>5. /\ strand[t].state \notin Terminal \cup {"Running"}
        /\ strand[t].state = "Waiting" => strand[t].pending # "New"
        /\ strand[t].state \in {"Sleeping", "Runnable"} => ~ResumesOnCancel(t)
    BY <1>8 DEF IsTerminal, NoticesCancel
  <2>6. "Cancelled" \in Terminal
    BY DEF Terminal
  <2> HIDE DEF h
  <2>7. /\ QueuesInStep' /\ TimersInStep' /\ ParentsAwaited' /\ ChildrenCondemned'
        /\ SuspendedResume'
    BY <1>1, <1>3, <1>8, <2>1, <2>3, <2>4, <2>5, <2>6, CompletedKeeps
  <2>8. /\ strand'[t].pending = "Cancelled" /\ strand'[t].state = strand[t].state
        /\ \A u \in Tasks \ {t} : strand'[u] = strand[u]
    BY <2>1 DEF Completed, Others
  <2>9. StrandsHaveWorkers'
    <3>1. \A u \in Tasks : PlaceKept(u)
      BY <2>8 DEF PlaceKept
    <3> QED
      BY <1>1, <3>1, WorkersKeep DEF InStep
  <2>10. Counted'
    <3>1. InBodies' = InBodies /\ Ended' = Ended
      BY <2>5, <2>8 DEF InBodies, Ended
    <3> QED
      BY <1>1, <3>1 DEF InStep, Counted
  <2> QED
    BY <2>7, <2>9, <2>10 DEF InStep
<1> QED
  BY <1>5, <1>6, <1>7, <1>8 DEF CancelRest
\* A strand that has completed has no flag that says it is queued.
LEMMA CompletedUnflagged ==
  ASSUME Inv, InStep, NEW t \in Tasks, strand[t].pending # "New"
  PROVE  strand[t].queued = FALSE
<1>1. strand[t].queued \in BOOLEAN
  BY DEF Inv, TypeOK, StrandRecord
<1> QED
  BY <1>1 DEF InStep, QueuesInStep, FlagsTrue, CanRun

\* A task ends.
LEMMA FinalizeStep ==
  ASSUME Inv, Inv', InStep, NEW t \in Tasks, NEW op \in {"settle", "adopt"},
         Calling(op, t), Finalize(t), ~HasActiveChildren(t), ~IsTerminal(t),
         strand[t].pending # "New",
         UNCHANGED <<globalq, localq, timers, running, thread>>
  PROVE  InStep'
<1> DEFINE h == [op |-> op, id |-> t]
<1>0. strand[t].parent # t
  BY NotOwnParent
<1>1. /\ Goes(t, FinalState(t), FALSE, strand[t].gen)
      /\ \A u \in Tasks \ {t} :
           strand'[u] = strand[u] \/ (u = strand[t].parent /\ Warned(u))
  BY <1>0, FinalizeGoes DEF Inv
<1>2. /\ strand'[t].state \in Terminal /\ strand[t].state \notin Terminal
      /\ strand'[t].pending = strand[t].pending /\ strand'[t].queued = FALSE
      /\ strand'[t].gen = strand[t].gen /\ strand'[t].cancel = strand[t].cancel
      /\ strand'[t].parent = strand[t].parent
  BY <1>1, FinalStateType DEF Goes, Inv, IsTerminal
<1>3. \A u \in Tasks \ {t} : Warned(u)
  BY <1>1 DEF Warned
<1>4. Stays(h)
  <2>1. agenda' = Tail(agenda) \/ \E new : Pushes(new, Tail(agenda))
    BY <1>0, FinalizePushes
  <2> QED
    BY <2>1, PushStays
<1>5. QueuesInStep'
  <2>1. Unmoved(t)
    BY <1>2, CompletedUnflagged DEF Unmoved, CanRun
  <2>2. \A u \in Tasks \ {t} : Unmoved(u)
    BY <1>3 DEF Warned, Unmoved, CanRun
  <2> QED
    BY <2>1, <2>2, QueuesStill DEF InStep
<1>6. TimersInStep'
  <2>1. \A u \in Tasks : TimerSafe(u)
    BY <1>2, <1>3 DEF TimerSafe, MayHaveTimer, Warned
  <2> DEFINE none == {}
  <2>2. \A e \in none : e.gen = strand'[e.id].gen /\ MayHaveTimer(e.id)'
    OBVIOUS
  <2>3. \A e \in timers' : e \in timers \/ e \in none
    OBVIOUS
  <2> HIDE DEF none
  <2> QED
    BY <2>1, <2>2, <2>3, TimersKeep DEF InStep, Inv
<1>7. StrandsHaveWorkers'
  <2>1. \A u \in Tasks : PlaceKept(u)
    BY <1>2, <1>3 DEF PlaceKept, Warned
  <2> QED
    BY <2>1, WorkersKeep DEF InStep
<1>8. Counted'
  <2>1. InBodies' = InBodies
    BY <1>2, <1>3 DEF InBodies, Warned
  <2>2. Ended' = Ended \cup {t} /\ t \notin Ended
    BY <1>2, <1>3 DEF Ended, Warned
  <2>3. finished' = finished + 1
    BY DEF Finalize
  <2> QED
    BY <2>1, <2>2, <2>3, OneMoreEnds DEF InStep
<1>9. \A u \in Tasks : ActiveChildren(u)' = ActiveChildren(u) \ {t}
  <2>1. \A c \in Tasks \ {t} : /\ strand'[c].parent = strand[c].parent
                               /\ strand'[c].state = strand[c].state
    BY <1>3 DEF Warned
  <2> QED
    BY <1>2, <2>1 DEF ActiveChildren, Children, IsTerminal
<1>10. ParentsAwaited'
  <2> SUFFICES ASSUME NEW u \in Tasks, Orphaned(u)'
               PROVE  [op |-> "adopt", id |-> u] \in ToSet(agenda')
    BY DEF ParentsAwaited
  <2>1. u # t
    BY <1>2 DEF Orphaned, Terminal
  <2>2. strand[u].state = "Waiting" /\ strand[u].pending # "New"
    BY <1>3, <2>1 DEF Orphaned, Warned
  <2>3. CASE ~HasActiveChildren(u)
    <3>1. [op |-> "adopt", id |-> u] \in ToSet(agenda)
      BY <2>2, <2>3 DEF InStep, ParentsAwaited, Orphaned
    <3>2. [op |-> "adopt", id |-> u] # h
      BY <2>1
    <3> QED
      BY <1>4, <3>1, <3>2 DEF Stays
  <2>4. CASE HasActiveChildren(u)
    <3>1. t \in ActiveChildren(u)
      BY <1>9, <2>4 DEF Orphaned, HasActiveChildren
    <3>2. u = strand[t].parent
      BY <3>1 DEF ActiveChildren, Children
    <3>3. HasLiveParent(t)
      BY <2>2, <3>2, NoneIsNoTask DEF HasLiveParent, IsTerminal, Terminal
    <3>4. PICK new : /\ Pushes(new, Tail(agenda))
                     /\ [op |-> "adopt", id |-> u] \in ToSet(new)
      BY <1>0, <3>2, <3>3, FinalizePushes
    <3>5. Tail(agenda) \in Seq(Call)
      BY CallStays
    <3> QED
      BY <3>4, <3>5, PushedOn
  <2> QED
    BY <2>3, <2>4
<1>11. ChildrenCondemned'
  <2> SUFFICES ASSUME NEW u \in Tasks, Condemned(u)', NEW c \in ActiveChildren(u)'
               PROVE  strand'[c].cancel \/ [op |-> "cancel", id |-> c] \in ToSet(agenda')
    BY DEF ChildrenCondemned
  <2>1. c \in ActiveChildren(u) /\ c # t /\ c \in Tasks
    BY <1>9 DEF ActiveChildren, Children
  <2>2. CASE Condemned(u)
    <3>1. strand[c].cancel \/ [op |-> "cancel", id |-> c] \in ToSet(agenda)
      BY <2>1, <2>2 DEF InStep, ChildrenCondemned
    <3>2. [op |-> "cancel", id |-> c] # h
      BY <2>1
    <3> QED
      BY <1>3, <1>4, <2>1, <3>1, <3>2 DEF Stays, Warned
  <2>3. CASE ~Condemned(u)
    <3>1. u # t
      BY <1>2, <2>3 DEF Condemned
    <3>2. u = strand[t].parent /\ strand'[u].cancel /\ ~strand[u].cancel
      BY <1>1, <2>3, <3>1 DEF Condemned, Warned
    <3>3. HasLiveParent(t)
      <4>1. ~HasLiveParent(t) => Others({t})
        BY <1>0, FinalizePushes
      <4> QED
        BY <3>1, <3>2, <4>1 DEF Others
    <3>4. PICK new : /\ Pushes(new, Tail(agenda))
                     /\ CancelsAll(ActiveChildren(u) \ {t}, new)
      BY <1>0, <3>2, <3>3, FinalizePushes
    <3>5. Tail(agenda) \in Seq(Call)
      BY CallStays
    <3> QED
      BY <2>1, <3>4, <3>5, PushedOn DEF CancelsAll
  <2> QED
    BY <2>2, <2>3
<1>12. SuspendedResume'
  <2>1. Resumes(t)'
    BY <1>2 DEF Resumes, Terminal
  <2>2. \A u \in Tasks \ {t} : Resumes(u)'
    BY <1>3 DEF InStep, SuspendedResume, Resumes, ResumesOnCancel, Warned
  <2> QED
    BY <2>1, <2>2 DEF SuspendedResume
<1> QED
  BY <1>5, <1>6, <1>7, <1>8, <1>10, <1>11, <1>12 DEF InStep

LEMMA SettleStep ==
  ASSUME Inv, Inv', InStep, NEW t \in Tasks, Settle(t) PROVE InStep'
<1> DEFINE h == [op |-> "settle", id |-> t]
<1>1. /\ Calling("settle", t)
      /\ UNCHANGED <<globalq, localq, timers, running, thread>>
  BY DEF Settle
<1>2. strand[t].pending # "New"
  BY <1>1, CallFacts
<1>3. Spent(h)
  BY DEF Spent
<1>4. CASE /\ HasActiveChildren(t)
           /\ Update(t, [strand[t] EXCEPT !.state = "Waiting", !.worker = None])
           /\ agenda' = Tail(agenda) /\ UNCHANGED finished
  <2>1. Others({t}) /\ Goes(t, "Waiting", strand[t].queued, strand[t].gen)
    BY <1>4, PlaceGoes DEF Inv
  <2>2. \A u \in Tasks \ {t} : strand'[u] = strand[u]
    BY <2>1 DEF Others
  <2>3. /\ strand'[t].state = "Waiting" /\ strand'[t].queued = strand[t].queued
        /\ strand'[t].gen = strand[t].gen /\ strand'[t].pending = strand[t].pending
        /\ strand'[t].cancel = strand[t].cancel /\ strand'[t].parent = strand[t].parent
    BY <2>1 DEF Goes
  <2>4. strand[t].state \notin Terminal
    BY <1>4 DEF Inv, ChildrenEndFirst, HasActiveChildren, ActiveChildren, IsTerminal
  <2>5. QueuesInStep'
    <3>1. \A u \in Tasks : Unmoved(u)
      BY <1>2, <2>2, <2>3 DEF Unmoved, CanRun
    <3> QED
      BY <1>1, <3>1, QueuesStill DEF InStep
  <2>6. TimersInStep'
    <3>1. \A u \in Tasks : TimerSafe(u)
      BY <1>2, <2>2, <2>3 DEF TimerSafe, MayHaveTimer
    <3> DEFINE none == {}
    <3>2. \A e \in none : e.gen = strand'[e.id].gen /\ MayHaveTimer(e.id)'
      OBVIOUS
    <3>3. \A e \in timers' : e \in timers \/ e \in none
      BY <1>1
    <3> HIDE DEF none
    <3> QED
      BY <3>1, <3>2, <3>3, TimersKeep DEF InStep, Inv
  <2>7. StrandsHaveWorkers'
    <3>1. \A u \in Tasks : PlaceKept(u)
      BY <1>2, <2>2, <2>3 DEF PlaceKept
    <3> QED
      BY <1>1, <3>1, WorkersKeep DEF InStep
  <2>8. Counted'
    <3>1. InBodies' = InBodies /\ Ended' = Ended
      BY <1>2, <2>2, <2>3, <2>4 DEF InBodies, Ended, Terminal
    <3> QED
      BY <1>1, <1>4, <3>1 DEF InStep, Counted
  <2>9. ParentsAwaited' /\ ChildrenCondemned'
    <3>1. \A u \in Tasks : SameKin(u)
      BY <2>2, <2>3, <2>4 DEF SameKin, Terminal
    <3>2. ASSUME NEW u \in Tasks PROVE Orphaned(u)' => Orphaned(u)
      BY <1>4, <2>2, <3>1, KinKeepsChildren DEF Orphaned
    <3>3. ASSUME NEW u \in Tasks PROVE Condemned(u)' => Condemned(u)
      BY <2>2, <2>3 DEF Condemned
    <3>4. \A u \in Tasks : strand[u].cancel => strand'[u].cancel
      BY <2>2, <2>3
    <3>5. Stays(h)
      BY <1>1, <1>4, PushStays
    <3> HIDE DEF h
    <3> QED
      BY <1>3, <3>1, <3>2, <3>3, <3>4, <3>5, FamiliesKeep DEF InStep
  <2>10. SuspendedResume'
    <3>1. Resumes(t)'
      BY <2>3 DEF Resumes
    <3>2. \A u \in Tasks \ {t} : Resumes(u)'
      BY <2>2 DEF InStep, SuspendedResume, Resumes, ResumesOnCancel
    <3> QED
      BY <3>1, <3>2 DEF SuspendedResume
  <2> QED
    BY <2>5, <2>6, <2>7, <2>8, <2>9, <2>10 DEF InStep
<1>5. CASE agenda' = Tail(agenda) /\ UNCHANGED <<strand, finished>>
  BY <1>1, <1>3, <1>5, UnchangedSame, IdleCall
<1>6. CASE ~HasActiveChildren(t) /\ ~IsTerminal(t) /\ Finalize(t)
  BY <1>1, <1>2, <1>6, FinalizeStep
<1> QED
  BY <1>4, <1>5, <1>6 DEF Settle

LEMMA AdoptStep ==
  ASSUME Inv, Inv', InStep, NEW p \in Tasks, Adopt(p) PROVE InStep'
<1>1. /\ Calling("adopt", p)
      /\ UNCHANGED <<globalq, localq, timers, running, thread>>
  BY DEF Adopt
<1>2. CASE ~ChildrenAwaited(p) /\ agenda' = Tail(agenda) /\ UNCHANGED <<strand, finished>>
  <2>1. Spent([op |-> "adopt", id |-> p])
    BY <1>2 DEF Spent, Orphaned, ChildrenAwaited
  <2> QED
    BY <1>1, <1>2, <2>1, UnchangedSame, IdleCall
<1>3. CASE ChildrenAwaited(p) /\ Finalize(p)
  <2>1. ~HasActiveChildren(p) /\ ~IsTerminal(p) /\ strand[p].pending # "New"
    BY <1>3 DEF ChildrenAwaited, IsTerminal, Terminal
  <2> QED
    BY <1>1, <1>3, <2>1, FinalizeStep
<1> QED
  BY <1>2, <1>3 DEF Adopt
-----------------------------------------------------------------------------
(* Joining *)

\* A strand goes from its body to join_task, or back, on the same worker.
LEMMA SwapStep ==
  ASSUME Inv, Inv', InStep, Counted', NEW w \in Workers, NEW t \in Tasks,
         thread[w].cur = t, strand[t].pending = "New",
         strand[t].state \in {"Running", "Waiting"}, NEW st \in {"Running", "Waiting"},
         Others({t}), Goes(t, st, strand[t].queued, strand[t].gen),
         st = "Running" => strand'[t].worker = w,
         \A v \in Workers : thread'[v].cur = thread[v].cur,
         UNCHANGED <<globalq, localq, timers, agenda>>
  PROVE  InStep'
<1>1. \A u \in Tasks \ {t} : strand'[u] = strand[u]
  BY DEF Others
<1>2. /\ strand'[t].state = st /\ strand'[t].queued = strand[t].queued
      /\ strand'[t].gen = strand[t].gen /\ strand'[t].pending = strand[t].pending
      /\ strand'[t].cancel = strand[t].cancel /\ strand'[t].parent = strand[t].parent
  BY DEF Goes
<1>3. QueuesInStep'
  <2>1. \A u \in Tasks : Unmoved(u)
    BY <1>1, <1>2 DEF Unmoved, CanRun
  <2> QED
    BY <2>1, QueuesStill DEF InStep
<1>4. TimersInStep'
  <2>1. \A u \in Tasks : TimerSafe(u)
    BY <1>1, <1>2 DEF TimerSafe, MayHaveTimer, Terminal
  <2> DEFINE none == {}
  <2>2. \A e \in none : e.gen = strand'[e.id].gen /\ MayHaveTimer(e.id)'
    OBVIOUS
  <2>3. \A e \in timers' : e \in timers \/ e \in none
    OBVIOUS
  <2> HIDE DEF none
  <2> QED
    BY <2>1, <2>2, <2>3, TimersKeep DEF InStep, Inv
<1>5. StrandsHaveWorkers'
  <2>1. HasWorker(t)'
    BY <1>2 DEF HasWorker
  <2>2. ASSUME NEW u \in Tasks \ {t} PROVE HasWorker(u)'
    BY <1>1 DEF InStep, StrandsHaveWorkers, HasWorker
  <2> QED
    BY <2>1, <2>2 DEF StrandsHaveWorkers
<1>6. ParentsAwaited' /\ ChildrenCondemned'
  <2>1. \A u \in Tasks : SameKin(u)
    BY <1>1, <1>2 DEF SameKin, Terminal
  <2>2. ASSUME NEW u \in Tasks PROVE Orphaned(u)' => Orphaned(u)
    BY <1>1, <1>2, <2>1, KinKeepsChildren DEF Orphaned
  <2>3. ASSUME NEW u \in Tasks PROVE Condemned(u)' => Condemned(u)
    BY <1>1, <1>2 DEF Condemned
  <2>4. \A u \in Tasks : strand[u].cancel => strand'[u].cancel
    BY <1>1, <1>2
  <2> QED
    BY <2>1, <2>2, <2>3, <2>4, FreeAgendaStays, DummySpent, FamiliesKeep DEF InStep
<1>7. SuspendedResume'
  <2>1. Resumes(t)'
    BY <1>2 DEF Resumes
  <2>2. \A u \in Tasks \ {t} : Resumes(u)'
    BY <1>1 DEF InStep, SuspendedResume, Resumes, ResumesOnCancel
  <2> QED
    BY <2>1, <2>2 DEF SuspendedResume
<1> QED
  BY <1>3, <1>4, <1>5, <1>6, <1>7 DEF InStep

LEMMA TaskJoinStep ==
  ASSUME Inv, Inv', InStep, NEW w \in Workers, NEW target, NEW timed,
         TaskJoin(w, target, timed)
  PROVE  InStep'
<1>1. PICK t \in Tasks : t = thread[w].cur
  BY BodyStrand DEF TaskJoin, CanJoin, InBody
<1>2. /\ strand[t].state = "Running" /\ strand[t].pending = "New"
      /\ Update(t, [strand[t] EXCEPT !.state = "Waiting", !.worker = None])
      /\ running' = Decrement(running) /\ Joining(w, target, timed)
      /\ UNCHANGED <<globalq, localq, timers, finished, agenda>>
  BY <1>1, BodyStrand DEF TaskJoin, CanJoin, InBody
<1>3. Others({t}) /\ Goes(t, "Waiting", strand[t].queued, strand[t].gen)
  BY <1>2, PlaceGoes DEF Inv
<1>4. Counted'
  <2>1. InBodies' = InBodies \ {t} /\ t \in InBodies /\ Ended' = Ended
    BY <1>2, <1>3 DEF InBodies, Ended, Terminal, Others, Goes
  <2> QED
    BY <1>2, <2>1, OneLessRuns DEF InStep
<1>5. \A v \in Workers : thread'[v].cur = thread[v].cur
  <2>1. thread \in [Threads -> ThreadRecord] /\ \A v \in Workers : v \in Threads
    BY DEF Inv, TypeOK, Threads
  <2> QED
    BY <1>2, <2>1 DEF Joining, ThreadRecord
<1> QED
  BY <1>1, <1>2, <1>3, <1>4, <1>5, SwapStep

LEMMA JoinReturnStep ==
  ASSUME Inv, Inv', InStep, NEW th \in Threads, thread[th].pc = "join", MutexFree,
         JoinReturn(th)
  PROVE  InStep'
<1>1. UNCHANGED <<globalq, localq, timers, finished, agenda>>
  BY DEF JoinReturn
<1>2. \A v \in Workers : thread'[v].cur = thread[v].cur
  <2>1. thread \in [Threads -> ThreadRecord] /\ \A v \in Workers : v \in Threads
    BY DEF Inv, TypeOK, Threads
  <2>2. \E pc : thread' = [thread EXCEPT ![th] = [@ EXCEPT !.pc = pc, !.target = None,
                                                           !.timed = FALSE]]
    BY DEF JoinReturn
  <2> QED
    BY <2>1, <2>2 DEF ThreadRecord
<1>3. CASE th \in Hosts
  <2>1. thread[th].cur = None
    BY <1>3 DEF Inv, WorkersHoldStrands
  <2>2. UNCHANGED <<strand, running>>
    BY <2>1 DEF JoinReturn, Caller
  <2> QED
    BY <1>1, <1>2, <2>2, UnchangedSame, StillInStep
<1>4. CASE th \in Workers
  <2>1. PICK t \in Tasks : t = thread[th].cur
    BY <1>4 DEF Inv, WorkersHoldStrands
  <2>2. strand[t].state = "Waiting" /\ strand[t].pending = "New" /\ t # None
    BY <1>4, <2>1, NoneIsNoTask DEF Inv, WorkersHoldStrands
  <2>3. /\ Update(t, [strand[t] EXCEPT !.state = "Running", !.worker = th])
        /\ running' = running + 1
    BY <2>1, <2>2 DEF JoinReturn, Caller
  <2>4. /\ Others({t}) /\ Goes(t, "Running", strand[t].queued, strand[t].gen)
        /\ strand'[t].worker = th
    BY <2>3, PlaceGoes DEF Inv
  <2>5. Counted'
    <3>1. InBodies' = InBodies \cup {t} /\ t \notin InBodies /\ Ended' = Ended
      BY <2>2, <2>4 DEF InBodies, Ended, Terminal, Others, Goes
    <3> QED
      BY <1>1, <2>3, <3>1, OneMoreRuns DEF InStep
  <2> QED
    BY <1>1, <1>2, <1>4, <2>1, <2>2, <2>4, <2>5, SwapStep
<1> QED
  BY <1>3, <1>4 DEF Threads

LEMMA JoinSteps ==
  ASSUME Inv, Inv', InStep, NEW th \in Threads, JoinWake(th) \/ JoinTimeout(th)
  PROVE  InStep'
<1>1. CASE JoinReturn(th)
  BY <1>1, JoinReturnStep DEF JoinWake, JoinTimeout
<1>2. CASE UNCHANGED <<strand, queueVars, timerVars, running, finished, thread, stopping,
                       agenda>>
  BY <1>2, UnchangedSame, StillInStep
<1> QED
  BY <1>1, <1>2 DEF JoinWake, JoinTimeout
-----------------------------------------------------------------------------
(* Spawning *)

\* A strand that has not been spawned has no timer, no child and no place.
LEMMA UnspawnedHasNone ==
  ASSUME Inv, InStep, NEW t \in Tasks, strand[t].state = "New"
  PROVE  /\ strand[t].pending = "New" /\ strand[t].gen = 0 /\ strand[t].queued = FALSE
         /\ ~Queued(t) /\ ~MayHaveTimer(t)
         /\ \A c \in Tasks : strand[c].parent # t /\ strand[t].parent # c
<1>1. strand[t] = NoStrand
  BY DEF Inv, FamilyExists
<1>2. strand[t].pending = "New" /\ strand[t].gen = 0 /\ strand[t].queued = FALSE
  BY <1>1 DEF NoStrand
<1>3. ~Queued(t)
  BY <1>2 DEF InStep, QueuesInStep, QueuedCanRun, CanRun
<1>4. ~MayHaveTimer(t)
  BY DEF MayHaveTimer, Terminal
<1>5. \A c \in Tasks : strand[c].parent # t /\ strand[t].parent # c
  BY <1>1, NoneIsNoTask DEF Inv, FamilyExists, NoStrand
<1> QED
  BY <1>2, <1>3, <1>4, <1>5

LEMMA SpawnStep ==
  ASSUME Inv, Inv', InStep, NEW t \in Tasks, NEW p \in Tasks \cup {None}, MutexFree,
         p # None => strand[p].state = "Running" /\ strand[p].pending = "New",
         SpawnAny(t, p)
  PROVE  InStep'
<1>1. PICK policy \in Policies, resumable \in Resumable :
        Spawn(t, p, policy, resumable) \/ SpawnSleeping(t, p, policy, resumable)
  BY DEF SpawnAny
<1>2. strand[t].state = "New" /\ p # t
  BY <1>1, NoneIsNoTask DEF Spawn, SpawnSleeping
<1>3. /\ Born(t, p) /\ \A u \in Tasks \ {t} : Same(u)
      /\ \/ /\ Spawn(t, p, policy, resumable) /\ strand'[t].state = "Runnable"
            /\ strand'[t].gen = 0
         \/ /\ SpawnSleeping(t, p, policy, resumable) /\ strand'[t].state = "Sleeping"
            /\ strand'[t].gen = 1
  BY <1>1, <1>2, SpawnBears DEF Inv
<1>4. /\ strand[t].pending = "New" /\ strand[t].gen = 0 /\ strand[t].queued = FALSE
      /\ ~Queued(t) /\ ~MayHaveTimer(t)
      /\ \A c \in Tasks : strand[c].parent # t /\ strand[t].parent # c
  BY <1>2, UnspawnedHasNone
<1>5. /\ strand'[t].state \in {"Runnable", "Sleeping"} /\ strand'[t].pending = "New"
      /\ strand'[t].parent = p
      /\ strand'[t].cancel = IF p = None THEN FALSE ELSE strand[p].cancel
  BY <1>3 DEF Born
<1>6. UNCHANGED <<localq, running, finished, thread, agenda>>
  BY <1>1 DEF Spawn, SpawnSleeping
<1>7. \A u \in Tasks \ {t} : Unmoved(u)
  BY <1>3 DEF Same, Unmoved, CanRun
<1>8. QueuesInStep'
  <2>1. CASE Spawn(t, p, policy, resumable) /\ strand'[t].state = "Runnable"
    <3>1. Enqueue(t, None) /\ None \in Workers \cup {None}
      BY <2>1 DEF Spawn, Enqueue
    <3>2. CanRun(t)' /\ strand'[t].queued = TRUE
      BY <1>3, <2>1 DEF Born, CanRun
    <3> QED
      BY <1>4, <1>7, <3>1, <3>2, QueuesGrow DEF InStep, Inv
  <2>2. CASE SpawnSleeping(t, p, policy, resumable) /\ strand'[t].state = "Sleeping"
    <3>1. Unmoved(t)
      BY <1>2, <1>3, <1>4, <2>2 DEF Born, Unmoved, CanRun
    <3>2. UNCHANGED <<globalq, localq>>
      BY <2>2 DEF SpawnSleeping
    <3> QED
      BY <1>7, <3>1, <3>2, QueuesStill DEF InStep
  <2> QED
    BY <1>3, <2>1, <2>2
<1>9. TimersInStep'
  <2> DEFINE new == IF strand'[t].state = "Sleeping" THEN {[id |-> t, gen |-> 1]} ELSE {}
  <2>1. \A e \in timers' : e \in timers \/ e \in new
    BY <1>3 DEF Spawn, SpawnSleeping
  <2>2. \A e \in new : e.gen = strand'[e.id].gen /\ MayHaveTimer(e.id)'
    BY <1>3 DEF MayHaveTimer
  <2>3. \A u \in Tasks : TimerSafe(u)
    BY <1>3, <1>4 DEF TimerSafe, MayHaveTimer, Same
  <2> HIDE DEF new
  <2> QED
    BY <2>1, <2>2, <2>3, TimersKeep DEF InStep, Inv
<1>10. StrandsHaveWorkers'
  <2>1. \A u \in Tasks : PlaceKept(u)
    BY <1>3, <1>5 DEF PlaceKept, Same
  <2> QED
    BY <1>6, <2>1, WorkersKeep DEF InStep
<1>11. Counted'
  <2>1. InBodies' = InBodies /\ Ended' = Ended
    BY <1>2, <1>3, <1>5 DEF InBodies, Ended, Same, Terminal
  <2> QED
    BY <1>6, <2>1 DEF InStep, Counted
<1>12. \A c \in Tasks \ {t} : /\ strand'[c].parent = strand[c].parent
                              /\ strand'[c].state = strand[c].state
                              /\ strand'[c].cancel = strand[c].cancel
                              /\ strand'[c].pending = strand[c].pending
  BY <1>3 DEF Same
<1>13. ASSUME NEW u \in Tasks, NEW c \in ActiveChildren(u)', c # t
       PROVE  u # t /\ c \in ActiveChildren(u)
  BY <1>4, <1>12, <1>13 DEF ActiveChildren, Children, IsTerminal
<1>14. ParentsAwaited'
  <2> SUFFICES ASSUME NEW u \in Tasks, Orphaned(u)'
               PROVE  [op |-> "adopt", id |-> u] \in ToSet(agenda')
    BY DEF ParentsAwaited
  <2>1. u # t
    BY <1>5 DEF Orphaned
  <2>2. \A c \in ActiveChildren(u) : c \in ActiveChildren(u)'
    BY <1>2, <1>4, <1>12 DEF ActiveChildren, Children, IsTerminal
  <2>3. Orphaned(u)
    BY <1>12, <2>1, <2>2 DEF Orphaned, HasActiveChildren
  <2> QED
    BY <1>6, <2>3 DEF InStep, ParentsAwaited
<1>15. ChildrenCondemned'
  <2> SUFFICES ASSUME NEW u \in Tasks, Condemned(u)', NEW c \in ActiveChildren(u)'
               PROVE  strand'[c].cancel \/ [op |-> "cancel", id |-> c] \in ToSet(agenda')
    BY DEF ChildrenCondemned
  <2>1. CASE c = t
    <3>1. u = p /\ p # None
      BY <1>5, <2>1, NoneIsNoTask DEF ActiveChildren, Children
    <3>2. strand[p].cancel
      BY <1>2, <1>12, <3>1 DEF Condemned
    <3> QED
      BY <1>5, <2>1, <3>1, <3>2
  <2>2. CASE c # t
    <3>1. u # t /\ c \in ActiveChildren(u)
      BY <1>13, <2>2
    <3>2. Condemned(u)
      BY <1>12, <3>1 DEF Condemned
    <3>3. c \in Tasks
      BY <3>1 DEF ActiveChildren, Children
    <3> QED
      BY <1>6, <1>12, <2>2, <3>1, <3>2, <3>3 DEF InStep, ChildrenCondemned
  <2> QED
    BY <2>1, <2>2
<1>16. SuspendedResume'
  <2>1. Resumes(t)'
    BY <1>5 DEF Resumes
  <2>2. \A u \in Tasks \ {t} : Resumes(u)'
    BY <1>3 DEF InStep, SuspendedResume, Resumes, ResumesOnCancel, Same
  <2> QED
    BY <2>1, <2>2 DEF SuspendedResume
<1> QED
  BY <1>8, <1>9, <1>10, <1>11, <1>14, <1>15, <1>16 DEF InStep
-----------------------------------------------------------------------------
(* The theorems *)

LEMMA InitInStep == Init => InStep
<1> SUFFICES ASSUME Init PROVE InStep
  OBVIOUS
<1>1. \A t \in Tasks : /\ strand[t].state = "New" /\ strand[t].pending = "New"
                       /\ strand[t].queued = FALSE /\ strand[t].cancel = FALSE
  BY DEF Init, NoStrand
<1>2. QueuesInStep
  <2>1. FlagsTrue
    BY <1>1 DEF FlagsTrue, CanRun
  <2>2. EntriesUnique
    BY DEF Init, EntriesUnique
  <2>3. QueuedCanRun
    BY <1>1 DEF Init, QueuedCanRun, Queued, CanRun
  <2> QED
    BY <2>1, <2>2, <2>3 DEF QueuesInStep
<1>3. TimersInStep
  BY DEF Init, TimersInStep
<1>4. StrandsHaveWorkers
  BY <1>1 DEF StrandsHaveWorkers, HasWorker
<1>5. Counted
  <2>1. InBodies = {} /\ Ended = {}
    BY <1>1 DEF InBodies, Ended, Terminal
  <2>2. Cardinality({}) = 0
    BY FS_EmptySet
  <2> QED
    BY <2>1, <2>2 DEF Init, Counted
<1>6. ParentsAwaited
  BY <1>1 DEF ParentsAwaited, Orphaned
<1>7. ChildrenCondemned
  BY <1>1 DEF ChildrenCondemned, Condemned
<1>8. SuspendedResume
  BY <1>1 DEF SuspendedResume, Resumes
<1> QED
  BY <1>2, <1>3, <1>4, <1>5, <1>6, <1>7, <1>8 DEF InStep

LEMMA NextInStep == Inv /\ Dispatchers /\ InStep /\ [Next]_vars => InStep'
<1> SUFFICES ASSUME Inv, Dispatchers, InStep, [Next]_vars PROVE InStep'
  OBVIOUS
<1>0. Inv'
  BY NextInv
<1>1. CASE Calls
  BY <1>0, <1>1, RunLocalStep, RunGlobalStep, BlockStep, CallCancelStep, CancelRestStep,
    SettleStep, AdoptStep, CancelNotifyStep DEF Calls
<1>2. ASSUME NEW w \in Workers, WorkerStep(w) PROVE InStep'
  BY <1>0, <1>2, ScanStep, QuietSteps, ReturnParkedStep, ReturnFinishedStep DEF WorkerStep
<1>3. ASSUME NEW w \in Workers, Body(w) PROVE InStep'
  <2>1. CASE TaskSpawn(w)
    <3>1. PICK t \in Tasks : MutexFree /\ SpawnAny(t, thread[w].cur)
      BY <2>1 DEF TaskSpawn, InBody
    <3>2. /\ thread[w].cur \in Tasks /\ strand[thread[w].cur].state = "Running"
          /\ strand[thread[w].cur].pending = "New"
      BY <2>1, BodyStrand DEF TaskSpawn, InBody
    <3> QED
      BY <1>0, <3>1, <3>2, SpawnStep
  <2>2. CASE \E target \in Tasks, timed \in BOOLEAN : TaskJoin(w, target, timed)
    BY <1>0, <2>2, TaskJoinStep
  <2>3. CASE \/ \E timed \in BOOLEAN : ParkCurrent(w, timed)
             \/ \E target \in Tasks : TaskJoinAtOnce(w, target)
    BY <1>0, <2>3, ParkSteps, QuietSteps
  <2> QED
    BY <1>3, <2>1, <2>2, <2>3 DEF Body
<1>4. ASSUME NEW h \in Hosts, HostStep(h) PROVE InStep'
  BY <1>0, <1>4, HostSteps
<1>5. ASSUME NEW th \in Threads, JoinWake(th) \/ JoinTimeout(th) \/ WakeUp(th)
      PROVE  InStep'
  BY <1>0, <1>5, JoinSteps, QuietSteps
<1>6. CASE HostSpawn
  <2>1. PICK t \in Tasks : MutexFree /\ SpawnAny(t, None)
    BY <1>6 DEF HostSpawn
  <2> QED
    BY <1>0, <2>1, SpawnStep
<1>7. ASSUME NEW t \in Tasks, NEW to \in WakeTargets,
             WakeParking(t, to) \/ WakeSleeping(t, to)
      PROVE  InStep'
  BY <1>0, <1>7, ParkSteps, WakeSleepingStep
<1>8. CASE \/ \E t \in Tasks : CancelTask(t)
           \/ \E e \in timers : Expire(e)
           \/ UNCHANGED vars
  BY <1>0, <1>8, QuietSteps
<1> QED
  BY <1>1, <1>2, <1>3, <1>4, <1>5, <1>6, <1>7, <1>8 DEF Next

LEMMA AlwaysInStep == Spec => []InStep
BY InitInStep, NextInStep, AlwaysInv, AlwaysDispatchers, PTL DEF Spec

LEMMA FreeAgendaIsEmpty == ASSUME MutexFree PROVE \A c : c \notin ToSet(agenda)
BY DEF MutexFree, ToSet

\* No parent that waits for its children is forgotten: one of them is still active.
\* And cancellation reaches every active descendant, whoever asked for it and
\* whenever the descendant was spawned: what the re-entrant calls of
\* request_cancel and finalize have not done yet is on the agenda.
THEOREM FamiliesAlwaysInStep == Spec => []FamiliesInStep
<1>1. ASSUME InStep PROVE FamiliesInStep
  <2>1. NoForgottenParent
    BY <1>1, FreeAgendaIsEmpty DEF InStep, ParentsAwaited, Orphaned, NoForgottenParent
  <2>2. CancellationReachesChildren
    BY <1>1, FreeAgendaIsEmpty
    DEF InStep, ChildrenCondemned, Condemned, CancellationReachesChildren
  <2> QED
    BY <2>1, <2>2 DEF FamiliesInStep
<1> QED
  BY <1>1, AlwaysInStep, PTL

\* A strand in the queues is there once.
LEMMA QueuedOnce ==
  ASSUME EntriesUnique, NEW t \in Tasks, Queued(t) PROVE Entries(t) = 1
<1> DEFINE here == Places(globalq, t)
           there == UNION {{w} \X Places(localq[w], t) : w \in Workers}
<1>0. Cardinality({}) = 0 /\ \A x : Cardinality({x}) = 1
  BY FS_EmptySet, FS_Singleton
<1>1. ASSUME NEW i \in DOMAIN globalq, globalq[i] = t
      PROVE  Cardinality(here) = 1 /\ Cardinality(there) = 0
  <2>1. here = {i}
    BY <1>1 DEF EntriesUnique, Places
  <2>2. \A w \in Workers : Places(localq[w], t) = {}
    BY <1>1 DEF EntriesUnique, Places
  <2>3. there = {}
    BY <2>2
  <2> HIDE DEF here, there
  <2> QED
    BY <1>0, <2>1, <2>3
<1>2. ASSUME NEW w \in Workers, NEW i \in DOMAIN localq[w], localq[w][i] = t
      PROVE  Cardinality(here) = 0 /\ Cardinality(there) = 1
  <2>1. here = {}
    BY <1>2 DEF EntriesUnique, Places
  <2>2. Places(localq[w], t) = {i}
    BY <1>2 DEF EntriesUnique, Places
  <2>3. \A v \in Workers \ {w} : Places(localq[v], t) = {}
    BY <1>2 DEF EntriesUnique, Places
  <2>4. there = {<<w, i>>}
    BY <2>2, <2>3
  <2> HIDE DEF here, there
  <2> QED
    BY <1>0, <2>1, <2>4
<1>3. Cardinality(here) + Cardinality(there) = 1
  BY <1>1, <1>2 DEF Queued
<1> QED
  BY <1>3 DEF Entries

\* A strand that can run is in one queue, once, and only such a strand is flagged
\* as queued: whatever wakes, timers, parks and cancellations race for it, it is
\* dispatched once.  And no timer ends another sleep than its own.
THEOREM WakesAlwaysInStep == Spec => []WakesInStep
<1>1. ASSUME Inv, InStep PROVE WakesInStep
  <2>1. RunnableQueuedOnce
    <3> SUFFICES ASSUME MutexFree, NEW t \in Tasks
                 PROVE  /\ (strand[t].state = "Runnable") = strand[t].queued
                        /\ strand[t].queued => Entries(t) = 1
      BY DEF RunnableQueuedOnce
    <3>1. strand[t].state = "Runnable" => strand[t].pending = "New"
      BY <1>1, FreePending DEF Terminal
    <3>2. strand[t].queued \in BOOLEAN
      BY <1>1 DEF Inv, TypeOK, StrandRecord
    <3>3. strand[t].queued <=> CanRun(t)
      BY <1>1 DEF InStep, QueuesInStep, FlagsTrue
    <3>4. (strand[t].state = "Runnable") = strand[t].queued
      BY <3>1, <3>2, <3>3 DEF CanRun
    <3>5. ASSUME strand[t].queued PROVE Entries(t) = 1
      <4>1. Queued(t)
        BY <1>1, <3>3, <3>5 DEF InStep, QueuesInStep, QueuedCanRun, CanRun
      <4> QED
        BY <1>1, <4>1, QueuedOnce DEF InStep, QueuesInStep
    <3> QED
      BY <3>4, <3>5
  <2>2. TimersNotEarly
    BY <1>1 DEF InStep, TimersInStep, MayHaveTimer, TimersNotEarly
  <2> QED
    BY <2>1, <2>2 DEF WakesInStep
<1> QED
  BY <1>1, AlwaysInv, AlwaysInStep, PTL

\* A strand that runs or joins is on exactly one worker, its own, and the counters
\* from which wait_until_idle decides that all work is done are exact.
THEOREM WorkersAlwaysCounted == Spec => []WorkersCounted
<1>1. ASSUME Inv, InStep PROVE WorkersCounted
  <2>1. OneWorkerPerStrand
    <3> SUFFICES ASSUME MutexFree, NEW t \in Tasks
                 PROVE  LET on == {w \in Workers : thread[w].cur = t} IN
                        /\ Cardinality(on) <= 1
                        /\ (on # {}) = \/ strand[t].state = "Running"
                                       \/ strand[t].state = "Waiting" /\ strand[t].pending = "New"
                        /\ strand[t].state = "Running" => on = {strand[t].worker}
      BY DEF OneWorkerPerStrand
    <3> DEFINE on == {w \in Workers : thread[w].cur = t}
               held == \/ strand[t].state = "Running"
                       \/ strand[t].state = "Waiting" /\ strand[t].pending = "New"
    <3>1. \A v, w \in on : v = w
      BY <1>1, NoneIsNoTask DEF Inv, WorkersHoldStrands
    <3>2. on # {} => held
      BY <1>1, HeldStates DEF Inv
    <3>3. strand[t].state = "Running" => strand[t].pending = "New"
      BY <1>1, FreePending DEF Terminal
    <3>4. HasWorker(t)
      BY <1>1 DEF InStep, StrandsHaveWorkers
    <3>5. held => on # {}
      BY <3>3, <3>4 DEF HasWorker
    <3>6. strand[t].state = "Running" => on = {strand[t].worker}
      <4>1. strand[t].state = "Running" => strand[t].worker \in on
        BY <3>3, <3>4 DEF HasWorker
      <4> QED
        BY <3>1, <4>1
    <3>7. Cardinality(on) <= 1
      <4>1. Cardinality({}) = 0 /\ \A x : Cardinality({x}) = 1
        BY FS_EmptySet, FS_Singleton
      <4>2. on = {} \/ \E w : on = {w}
        BY <3>1
      <4>3. Cardinality(on) = 0 \/ Cardinality(on) = 1
        <5> HIDE DEF on
        <5> QED
          BY <4>1, <4>2
      <4> QED
        BY <4>3
    <3>8. (on # {}) = held
      <4> HIDE DEF on
      <4> QED
        BY <3>2, <3>5
    <3> QED
      BY <3>6, <3>7, <3>8
  <2>2. CountersExact
    <3> SUFFICES ASSUME MutexFree PROVE
                   /\ running = Cardinality({t \in Tasks : strand[t].state = "Running"})
                   /\ finished = Cardinality({t \in Tasks : IsTerminal(t)})
      BY DEF CountersExact
    <3>1. InBodies = {t \in Tasks : strand[t].state = "Running"}
      BY <1>1, FreePending DEF InBodies, Terminal
    <3>2. Ended = {t \in Tasks : IsTerminal(t)}
      BY DEF Ended, IsTerminal
    <3> QED
      BY <1>1, <3>1, <3>2 DEF InStep, Counted
  <2> QED
    BY <2>1, <2>2 DEF WorkersCounted
<1> QED
  BY <1>1, AlwaysInv, AlwaysInStep, PTL

\* Only finalize ends a task, and what it ends has completed; a suspended program
\* has not where it sleeps or queues, so cancellation resumes it to unwind.
THEOREM SuspendedProgramsUnwind == Spec => ParkedProgramsUnwind
<1>1. ASSUME Inv, InStep, [Next]_vars
      PROVE  \A t \in Tasks :
               (/\ strand[t].resumable /\ strand[t].parkedOnce
                /\ ~IsTerminal(t) /\ strand'[t].state \in Terminal)
                 => strand[t].state \in {"Running", "Waiting"}
  <2> SUFFICES ASSUME NEW t \in Tasks, strand[t].resumable, strand[t].parkedOnce,
                      ~IsTerminal(t), strand'[t].state \in Terminal
               PROVE  strand[t].state \in {"Running", "Waiting"}
    OBVIOUS
  <2>1. Visible
    BY <1>1, NextInv
  <2>2. ~SameFamilies
    BY DEF SameFamilies, IsTerminal
  <2>3. ~BeginsOne
    BY DEF BeginsOne, Begins, IsTerminal
  <2>4. PICK u \in Tasks : Ends(u)
    BY <2>1, <2>2, <2>3 DEF Visible, EndsOne
  <2>5. u = t
    BY <2>4 DEF Ends, IsTerminal
  <2>6. strand[t].pending # "New" /\ strand[t].state \notin Terminal \cup {"New"}
    BY <2>4, <2>5 DEF Ends
  <2>7. strand[t].state \notin {"Sleeping", "Runnable"}
    BY <1>1, <2>6 DEF InStep, SuspendedResume, Resumes, ResumesOnCancel
  <2>8. strand[t].state \in States
    BY <1>1, FieldTypes DEF Inv
  <2> QED
    BY <2>6, <2>7, <2>8 DEF States
<1> QED
  BY <1>1, AlwaysInv, AlwaysInStep, PTL DEF Spec, ParkedProgramsUnwind
-----------------------------------------------------------------------------
(* Deadlines *)

\* Who sleeps before and after a step sleeps the same sleep.
SleepsOn == \A t \in Tasks :
  strand[t].state = "Sleeping" /\ strand'[t].state = "Sleeping"
    => strand'[t].gen = strand[t].gen

KeepsDeadlines == \A t \in Tasks :
  TimerLive(t) => TimerLive(t)' \/ strand'[t].state # "Sleeping"

LEMMA TimersStay ==
  ASSUME SleepsOn, \A e \in timers : e \in timers' PROVE KeepsDeadlines
BY DEF SleepsOn, TimerLive, KeepsDeadlines

LEMMA UpdateOthers ==
  ASSUME TypeOK, NEW t \in Tasks, NEW r, Update(t, r)
  PROVE  Others({t}) /\ strand'[t] = r
BY DEF TypeOK, Update, Others

LEMMA OneAwake ==
  ASSUME NEW t \in Tasks, Others({t}),
         \/ strand[t].state # "Sleeping" \/ strand'[t].state # "Sleeping"
         \/ strand'[t].gen = strand[t].gen
  PROVE  SleepsOn
BY DEF Others, SleepsOn

LEMMA SameSleepsOn == ASSUME \A t \in Tasks : Same(t) PROVE SleepsOn
BY DEF Same, SleepsOn

LEMMA FinalizeSleepsOn ==
  ASSUME Inv, NEW t \in Tasks, Finalize(t), ~HasActiveChildren(t), ~IsTerminal(t)
  PROVE  SleepsOn
<1>1. strand[t].parent # t
  BY NotOwnParent
<1>2. /\ strand'[t].gen = strand[t].gen
      /\ \A u \in Tasks \ {t} : strand'[u] = strand[u] \/ strand'[u].gen = strand[u].gen
  BY <1>1, FinalizeGoes DEF Goes, Warned, Inv
<1> QED
  BY <1>2 DEF SleepsOn

LEMMA CallsKeepDeadlines == ASSUME Inv, Calls PROVE KeepsDeadlines
<1>1. timers' = timers
  BY DEF Calls, RunLocal, RunGlobal, Run, Block, CallCancel, CancelRest, Settle, Adopt,
    CancelNotify
<1>2. ASSUME NEW w \in Workers, NEW t \in Tasks, strand[t].state = "Runnable", Run(w, t)
      PROVE  SleepsOn
  BY <1>2, RunGoes, OneAwake DEF Inv
<1>3. ASSUME NEW w \in Workers, RunLocal(w) PROVE SleepsOn
  <2>1. PICK i \in DOMAIN localq[w] : FirstRunnable(localq[w], i) /\ Run(w, localq[w][i])
    BY <1>3 DEF RunLocal
  <2>2. localq[w][i] \in Tasks
    BY DEF Inv, TypeOK
  <2> QED
    BY <1>2, <2>1, <2>2 DEF FirstRunnable
<1>4. ASSUME NEW w \in Workers, RunGlobal(w) PROVE SleepsOn
  <2>1. PICK i \in DOMAIN globalq : FirstRunnable(globalq, i) /\ Run(w, globalq[i])
    BY <1>4 DEF RunGlobal
  <2>2. globalq[i] \in Tasks
    BY DEF Inv, TypeOK
  <2> QED
    BY <1>2, <2>1, <2>2 DEF FirstRunnable
<1>5. ASSUME UNCHANGED strand PROVE SleepsOn
  BY <1>5, UnchangedSame, SameSleepsOn
<1>6. ASSUME NEW t \in Tasks, CallCancel(t) PROVE SleepsOn
  <2>1. CASE Update(t, [strand[t] EXCEPT !.cancel = TRUE])
    BY <2>1, CancelWarns, OneAwake DEF Inv, Warned
  <2> QED
    BY <1>5, <1>6, <2>1 DEF CallCancel
<1>7. ASSUME NEW t \in Tasks, CancelRest(t) PROVE SleepsOn
  <2>1. CASE Update(t, [strand[t] EXCEPT !.parkWake = TRUE, !.parkTo = None])
    BY <2>1, ParkSame, SameSleepsOn DEF Inv
  <2>2. CASE Update(t, Woken(t))
    BY <2>2, WokenGoes, OneAwake DEF Inv, Goes
  <2>3. CASE FinishOrWait(t, strand[t], "Cancelled", Tail(agenda))
    BY <2>3, FinishCompletes, OneAwake DEF Inv, Completed
  <2> QED
    BY <1>5, <1>7, <2>1, <2>2, <2>3 DEF CancelRest
<1>8. ASSUME NEW t \in Tasks, Settle(t) PROVE SleepsOn
  <2>1. CASE Update(t, [strand[t] EXCEPT !.state = "Waiting", !.worker = None])
    BY <2>1, PlaceGoes, OneAwake DEF Inv, Goes
  <2> QED
    BY <1>5, <1>8, <2>1, FinalizeSleepsOn DEF Settle
<1>9. ASSUME NEW t \in Tasks, Adopt(t) PROVE SleepsOn
  <2>1. ChildrenAwaited(t) => ~HasActiveChildren(t) /\ ~IsTerminal(t)
    BY DEF ChildrenAwaited, IsTerminal, Terminal
  <2> QED
    BY <1>5, <1>9, <2>1, FinalizeSleepsOn DEF Adopt
<1>10. SleepsOn
  <2>1. CASE (\E w \in Workers : Block(w)) \/ CancelNotify
    BY <1>5, <2>1 DEF Block, CancelNotify
  <2> QED
    BY <1>3, <1>4, <1>6, <1>7, <1>8, <1>9, <2>1 DEF Calls
<1> QED
  BY <1>1, <1>10, TimersStay

\* The timers that a scan drops are stale, or wake their strand.
LEMMA ScanKeepsDeadlines ==
  ASSUME Inv, NEW w \in Workers, Scan(w) PROVE KeepsDeadlines
<1> SUFFICES ASSUME NEW t \in Tasks, TimerLive(t), strand'[t].state = "Sleeping"
             PROVE  TimerLive(t)'
  BY DEF KeepsDeadlines
<1>1. t \notin Promoted
  BY PromotedGoes DEF Inv, Goes
<1>2. strand'[t] = strand[t]
  BY <1>1 DEF Scan
<1>3. [id |-> t, gen |-> strand[t].gen] \notin due
  BY <1>1 DEF Promoted, TimerLive
<1>4. timers' = timers \ due
  BY DEF Scan
<1> QED
  BY <1>2, <1>3, <1>4 DEF TimerLive

LEMMA SpawnKeepsDeadlines ==
  ASSUME Inv, NEW t \in Tasks, NEW p \in Tasks \cup {None}, SpawnAny(t, p)
  PROVE  KeepsDeadlines
<1>1. PICK policy \in Policies, resumable \in Resumable :
        Spawn(t, p, policy, resumable) \/ SpawnSleeping(t, p, policy, resumable)
  BY DEF SpawnAny
<1>2. strand[t].state = "New"
  BY <1>1 DEF Spawn, SpawnSleeping
<1>3. \A u \in Tasks \ {t} : strand'[u].gen = strand[u].gen
  <2>1. \E new : Record(t, p, new)
    BY <1>1 DEF Spawn, SpawnSleeping
  <2> QED
    BY <2>1 DEF Record, Inv, TypeOK, StrandRecord
<1>4. SleepsOn
  BY <1>2, <1>3 DEF SleepsOn
<1>5. \A e \in timers : e \in timers'
  BY <1>1 DEF Spawn, SpawnSleeping
<1> QED
  BY <1>4, <1>5, TimersStay

LEMMA WorkersKeepDeadlines ==
  ASSUME Inv, NEW w \in Workers, WorkerStep(w) \/ Body(w) PROVE KeepsDeadlines
<1>1. CASE Scan(w)
  BY <1>1, ScanKeepsDeadlines
<1>2. CASE Exit(w) \/ NotifyAfter(w) \/ \E target \in Tasks : TaskJoinAtOnce(w, target)
  <2>1. UNCHANGED <<strand, timers>>
    BY <1>2 DEF Exit, NotifyAfter, TaskJoinAtOnce
  <2> QED
    BY <2>1, UnchangedSame, SameSleepsOn, TimersStay
<1>3. ASSUME NEW t \in Tasks, strand[t].state = "Running", \E r : Update(t, r),
             \A e \in timers : e \in timers'
      PROVE  KeepsDeadlines
  <2>1. Others({t})
    BY <1>3, UpdateOthers DEF Inv
  <2>2. SleepsOn
    BY <1>3, <2>1, OneAwake
  <2> QED
    BY <1>3, <2>2, TimersStay
<1>4. CASE \/ ReturnParked(w) \/ \E outcome \in Terminal : ReturnFinished(w, outcome)
           \/ \E timed \in BOOLEAN : ParkCurrent(w, timed)
           \/ \E target \in Tasks, timed \in BOOLEAN : TaskJoin(w, target, timed)
  <2>1. /\ thread[w].pc = "body"
        /\ \A e \in timers : e \in timers'
        /\ \E r : Update(thread[w].cur, r)
    <3>1. CASE ReturnParked(w)
      BY <3>1 DEF ReturnParked, InBody
    <3>2. CASE \E outcome \in Terminal : ReturnFinished(w, outcome)
      BY <3>2 DEF ReturnFinished, FinishOrWait, InBody
    <3>3. CASE \E timed \in BOOLEAN : ParkCurrent(w, timed)
      BY <3>3 DEF ParkCurrent, InBody
    <3>4. CASE \E target \in Tasks, timed \in BOOLEAN : TaskJoin(w, target, timed)
      BY <3>4 DEF TaskJoin, CanJoin, InBody
    <3> QED
      BY <1>4, <3>1, <3>2, <3>3, <3>4
  <2>2. thread[w].cur \in Tasks /\ strand[thread[w].cur].state = "Running"
    BY <2>1, BodyStrand
  <2> QED
    BY <1>3, <2>1, <2>2
<1>5. CASE TaskSpawn(w)
  BY <1>5, SpawnKeepsDeadlines, BodyStrand DEF TaskSpawn, InBody
<1> QED
  BY <1>1, <1>2, <1>4, <1>5 DEF WorkerStep, Body

\* A deadline is never lost: a sleep that has one keeps its timer until it ends.
THEOREM SleepersKeepDeadlines == Spec => DeadlinesKept
<1>1. ASSUME Inv, [Next]_vars PROVE KeepsDeadlines
  <2>1. CASE UNCHANGED <<strand, timers>>
    BY <2>1, UnchangedSame, SameSleepsOn, TimersStay
  <2>2. CASE Calls
    BY <1>1, <2>2, CallsKeepDeadlines
  <2>3. CASE \E w \in Workers : WorkerStep(w) \/ Body(w)
    BY <1>1, <2>3, WorkersKeepDeadlines
  <2>4. CASE \E h \in Hosts : HostStep(h)
    BY <2>1, <2>4 DEF HostStep, HostJoin, HostIdle, IdleWake, IdleTimeout, Shutdown,
      ShutdownNotify, ShutdownJoined
  <2>5. ASSUME NEW th \in Threads, JoinWake(th) \/ JoinTimeout(th) \/ WakeUp(th)
        PROVE  KeepsDeadlines
    <3>1. CASE (JoinWake(th) \/ JoinTimeout(th)) /\ JoinReturn(th)
      <4>1. CASE thread[th].cur \in Tasks /\ strand[thread[th].cur].state = "Waiting"
        <5>1. SleepsOn \/ UNCHANGED strand
          BY <1>1, <3>1, <4>1, UpdateOthers, OneAwake DEF JoinReturn, Caller, Inv
        <5> QED
          BY <3>1, <5>1, UnchangedSame, SameSleepsOn, TimersStay DEF JoinReturn
      <4>2. CASE ~(thread[th].cur # None /\ strand[thread[th].cur].state = "Waiting")
        BY <2>1, <3>1, <4>2 DEF JoinReturn, Caller
      <4>3. thread[th].cur \in Tasks \cup {None}
        BY <1>1 DEF Inv, TypeOK, ThreadRecord
      <4> QED
        BY <4>1, <4>2, <4>3
    <3> QED
      BY <2>1, <2>5, <3>1 DEF JoinWake, JoinTimeout, WakeUp
  <2>6. CASE HostSpawn
    BY <1>1, <2>6, SpawnKeepsDeadlines DEF HostSpawn
  <2>7. ASSUME NEW t \in Tasks, NEW to \in WakeTargets,
               WakeParking(t, to) \/ WakeSleeping(t, to)
        PROVE  KeepsDeadlines
    <3>1. CASE WakeParking(t, to)
      BY <1>1, <3>1, UpdateOthers, OneAwake, TimersStay DEF WakeParking, Inv
    <3>2. CASE WakeSleeping(t, to)
      BY <1>1, <3>2, WokenGoes, OneAwake, TimersStay DEF WakeSleeping, Inv, Goes
    <3> QED
      BY <2>7, <3>1, <3>2
  <2>8. CASE (\E t \in Tasks : CancelTask(t)) \/ (\E e \in timers : Expire(e))
             \/ UNCHANGED vars
    BY <2>1, <2>8 DEF CancelTask, Expire, vars
  <2> QED
    BY <1>1, <2>2, <2>3, <2>4, <2>5, <2>6, <2>7, <2>8 DEF Next
<1> QED
  BY <1>1, AlwaysInv, PTL DEF Spec, DeadlinesKept, KeepsDeadlines
=============================================================================
