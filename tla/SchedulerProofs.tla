--------------------------- MODULE SchedulerProofs ---------------------------
(***************************************************************************)
(* Proofs about RuntimeScheduler for every set of tasks, workers and       *)
(* hosts, every policy and every part of the interface.                    *)
(***************************************************************************)
EXTENDS SchedulerProperties, FiniteSetTheorems, TLAPS

\* A dispatch is alone on the agenda.  The other calls are those of strands that
\* exist, and a strand is settled only after its completion has been recorded.
ValidCalls ==
  {c \in Call :
     /\ c.op # "dispatch"
     /\ c.op \in {"cancel", "cancel_rest", "settle", "adopt"} =>
          strand[c.id].state # "New"
     /\ c.op = "settle" => strand[c.id].pending # "New"}

AgendaValid ==
  \/ agenda \in Seq(ValidCalls)
  \/ \E w \in Workers : agenda = <<[op |-> "dispatch", id |-> w]>>

\* A strand whose completion is recorded waits for its children, or has ended, or
\* is about to be settled.
Settling(t) == \E i \in DOMAIN agenda : agenda[i] = [op |-> "settle", id |-> t]

Unsettled(t) == /\ strand[t].pending # "New"
                /\ strand[t].state \notin Terminal \cup {"Waiting"}

PendingSettles == \A t \in Tasks : Unsettled(t) => Settling(t)

\* A worker in a body runs a strand that is Running and has not completed, a
\* worker in join_task one that is Waiting; no two workers have the same strand.
WorkersHoldStrands ==
  /\ \A w \in Workers :
       /\ thread[w].pc \in WorkerPlaces
       /\ thread[w].pc = "body" =>
            thread[w].cur \in Tasks /\ strand[thread[w].cur].state = "Running"
       /\ thread[w].pc = "join" =>
            thread[w].cur \in Tasks /\ strand[thread[w].cur].state = "Waiting"
       /\ thread[w].pc \notin {"body", "join"} => thread[w].cur = None
       /\ thread[w].cur \in Tasks => strand[thread[w].cur].pending = "New"
  /\ \A v, w \in Workers :
       thread[v].cur = thread[w].cur => v = w \/ thread[v].cur = None
  /\ \A h \in Hosts : thread[h].pc \in HostPlaces /\ thread[h].cur = None

\* Parents exist, and a strand that has not been spawned is as it was at first.
FamilyExists ==
  \A t \in Tasks :
    /\ strand[t].parent # None => strand[strand[t].parent].state # "New"
    /\ strand[t].state = "New" => strand[t] = NoStrand

\* A live parent of a failed task knows of a failure.
FailuresKnown ==
  \A c \in Tasks : LET p == strand[c].parent IN
    p # None /\ strand[c].state = "Failed" /\ ~IsTerminal(p)
      => strand[p].firstError # None

Inv == /\ TypeOK /\ AgendaValid /\ PendingSettles /\ WorkersHoldStrands
       /\ FamilyExists /\ FailuresKnown /\ ChildrenEndFirst /\ ChildFailureReachesParent
-----------------------------------------------------------------------------
\* A list of members of S is a list of members of a larger set.
LEMMA SeqOfMore ==
  ASSUME NEW S, NEW T, S \subseteq T, NEW s \in Seq(S)
  PROVE  s \in Seq(T)
OBVIOUS

\* An order in which to go through a set of tasks is a sequence of its members.
LEMMA OrdersAreSequences ==
  ASSUME NEW S \in SUBSET Tasks, NEW order \in SetToSeqs(S)
  PROVE  order \in Seq(S)
<1>1. IsFiniteSet(S)
  BY FiniteTasks, FS_Subset
<1>2. Cardinality(S) \in Nat
  BY <1>1, FS_CardinalityType
<1> QED
  BY <1>2 DEF SetToSeqs

LEMMA NoStrandType == NoStrand \in StrandRecord
<1>1. <<>> \in Seq(Tasks) /\ 0 \in Nat
  OBVIOUS
<1>2. "New" \in States /\ "New" \in Completions /\ "CancelScope" \in PolicyNames
  BY DEF States, Completions, PolicyNames
<1> QED
  BY <1>1, <1>2 DEF NoStrand, StrandRecord

LEMMA InitInv == Init => Inv
<1> SUFFICES ASSUME Init PROVE Inv
  OBVIOUS
<1>1. TypeOK
  <2>1. strand \in [Tasks -> StrandRecord]
    BY NoStrandType DEF Init
  <2>2. thread \in [Threads -> ThreadRecord]
    BY DEF Init, ThreadRecord, WorkerPlaces, HostPlaces
  <2>3. <<>> \in Seq(Tasks) /\ <<>> \in Seq(Call)
    OBVIOUS
  <2>4. localq \in [Workers -> Seq(Tasks)]
    BY <2>3 DEF Init
  <2> QED
    BY <2>1, <2>2, <2>3, <2>4 DEF Init, TypeOK
<1>2. AgendaValid /\ PendingSettles
  BY DEF Init, AgendaValid, PendingSettles, Unsettled, NoStrand
<1>3. WorkersHoldStrands
  BY ThreadsDistinct, NoneIsNoTask DEF Init, WorkersHoldStrands, WorkerPlaces, HostPlaces, Threads
<1>4. FamilyExists
  BY NoneIsNoTask DEF Init, FamilyExists, NoStrand
<1>5. FailuresKnown /\ ChildrenEndFirst /\ ChildFailureReachesParent
  BY DEF Init, FailuresKnown, ChildrenEndFirst, ChildFailureReachesParent,
    NoStrand, IsTerminal, Terminal
<1> QED
  BY <1>1, <1>2, <1>3, <1>4, <1>5 DEF Inv
-----------------------------------------------------------------------------
(* What a step does to the strands.  Most steps are quiet: they create no   *)
(* task and end none.                                                       *)

USE DEF queueVars, timerVars, threadVars

\* Nothing that exists disappears, and a recorded completion stays recorded.
Grows ==
  \A u \in Tasks :
    /\ strand[u].state # "New" => strand'[u].state # "New"
    /\ strand[u].pending # "New" => strand'[u].pending # "New"

SameFamilies ==
  \A u \in Tasks :
    /\ strand[u].state = "New" => strand'[u] = strand[u]
    /\ strand[u].state # "New" => strand'[u].state # "New"
    /\ IsTerminal(u) \/ strand'[u].state \in Terminal =>
         strand'[u].state = strand[u].state
    /\ strand'[u].parent = strand[u].parent
    /\ strand'[u].firstError = strand[u].firstError

SamePending ==
  \A u \in Tasks :
    /\ strand'[u].pending = strand[u].pending
    /\ Unsettled(u)' => Unsettled(u)

Quiet == SameFamilies /\ SamePending

\* The strands that workers hold are left as they are.
HeldKept ==
  \A w \in Workers : thread[w].cur \in Tasks =>
    /\ strand'[thread[w].cur].state = strand[thread[w].cur].state
    /\ strand'[thread[w].cur].pending = strand[thread[w].cur].pending

\* The invariants of the family tree.
Families == FamilyExists /\ FailuresKnown /\ ChildrenEndFirst
            /\ ChildFailureReachesParent

LEMMA QuietGrows == Quiet => Grows
BY DEF Quiet, SameFamilies, SamePending, Grows

LEMMA GrowsKeepsCalls ==
  ASSUME Grows PROVE ValidCalls \subseteq ValidCalls'
<1> SUFFICES ASSUME NEW c \in ValidCalls PROVE c \in ValidCalls'
  OBVIOUS
<1>1. c \in Call
  BY DEF ValidCalls
<1>2. c.op \in {"cancel", "cancel_rest", "settle", "adopt"} => c.id \in Tasks
  BY <1>1 DEF Call
<1> QED
  BY <1>1, <1>2 DEF ValidCalls, Grows, Call

LEMMA QuietKeepsAgenda ==
  ASSUME AgendaValid, Grows, UNCHANGED agenda PROVE AgendaValid'
<1>1. CASE agenda \in Seq(ValidCalls)
  <2>1. agenda \in Seq(ValidCalls')
    BY <1>1, GrowsKeepsCalls, SeqOfMore
  <2> QED
    BY <2>1 DEF AgendaValid
<1> QED
  BY <1>1 DEF AgendaValid

LEMMA QuietKeepsPending ==
  ASSUME PendingSettles, SamePending, UNCHANGED agenda PROVE PendingSettles'
BY DEF PendingSettles, SamePending, Settling

LEMMA QuietKeepsFamilies ==
  ASSUME TypeOK, Families, SameFamilies PROVE Families'
<1>1. FamilyExists'
  BY NoneIsNoTask DEF Families, FamilyExists, SameFamilies, TypeOK, StrandRecord
<1>2. FailuresKnown'
  <2> SUFFICES ASSUME NEW c \in Tasks, strand'[c].parent # None,
                      strand'[c].state = "Failed",
                      strand'[strand'[c].parent].state \notin Terminal
               PROVE  strand'[strand'[c].parent].firstError # None
    BY DEF FailuresKnown, IsTerminal
  <2> DEFINE p == strand[c].parent
  <2>1. p \in Tasks /\ strand'[c].parent = p
    BY DEF TypeOK, StrandRecord, SameFamilies
  <2>2. strand[c].state = "Failed" /\ ~IsTerminal(p)
    BY <2>1 DEF SameFamilies, IsTerminal, Terminal
  <2> QED
    BY <2>1, <2>2 DEF Families, FailuresKnown, SameFamilies
<1>3. ChildrenEndFirst'
  BY DEF Families, ChildrenEndFirst, Children, SameFamilies, IsTerminal, Terminal
<1>4. ChildFailureReachesParent'
  BY DEF Families, ChildFailureReachesParent, SameFamilies, IsTerminal, Terminal, TypeOK, StrandRecord
<1> QED
  BY <1>1, <1>2, <1>3, <1>4 DEF Families

LEMMA HeldKeptKeepsWorkers ==
  ASSUME WorkersHoldStrands, HeldKept, UNCHANGED thread PROVE WorkersHoldStrands'
BY DEF WorkersHoldStrands, HeldKept

\* The quiet steps that leave the strands, the threads and the agenda alone.
LEMMA StillKeeps ==
  ASSUME Inv, TypeOK', UNCHANGED <<strand, thread, agenda>> PROVE Inv' /\ SameFamilies
<1>1. Quiet /\ HeldKept
  BY DEF Quiet, SameFamilies, SamePending, Unsettled, HeldKept, IsTerminal
<1> QED
  BY <1>1, QuietGrows, QuietKeepsAgenda, QuietKeepsPending, QuietKeepsFamilies,
    HeldKeptKeepsWorkers DEF Inv, Families, Quiet
-----------------------------------------------------------------------------
(* Steps that leave the strands and the agenda alone. *)

LEMMA ThreadsOnly ==
  ASSUME Inv, TypeOK', WorkersHoldStrands', UNCHANGED <<strand, agenda>>
  PROVE  Inv' /\ SameFamilies
<1>1. Quiet
  BY DEF Quiet, SameFamilies, SamePending, Unsettled, IsTerminal
<1> QED
  BY <1>1, QuietGrows, QuietKeepsAgenda, QuietKeepsPending, QuietKeepsFamilies
  DEF Inv, Families, Quiet

LEMMA ExpireInv ==
  ASSUME Inv, NEW e \in timers, Expire(e) PROVE Inv' /\ SameFamilies
<1>1. TypeOK'
  BY DEF Inv, TypeOK, Expire
<1> QED
  BY <1>1, StillKeeps DEF Expire

LEMMA WakeUpInv ==
  ASSUME Inv, NEW th \in Threads, WakeUp(th) PROVE Inv' /\ SameFamilies
<1>1. TypeOK'
  BY DEF Inv, TypeOK, WakeUp
<1> QED
  BY <1>1, StillKeeps DEF WakeUp

LEMMA TaskJoinAtOnceInv ==
  ASSUME Inv, NEW w \in Workers, NEW target \in Tasks, TaskJoinAtOnce(w, target)
  PROVE  Inv' /\ SameFamilies
<1>1. TypeOK'
  BY DEF Inv, TypeOK, TaskJoinAtOnce, NotifyAll
<1> QED
  BY <1>1, StillKeeps DEF TaskJoinAtOnce

\* Threads move on without taking or leaving a strand.
Moves ==
  \A x \in Threads :
    /\ thread'[x].cur = thread[x].cur
    /\ \/ thread'[x].pc = thread[x].pc
       \/ /\ x \in Workers
          /\ thread[x].pc \notin {"body", "join"}
          /\ thread'[x].pc \in WorkerPlaces \ {"body", "join"}
       \/ x \in Hosts /\ thread'[x].pc \in HostPlaces

LEMMA MovesKeepsWorkers ==
  ASSUME WorkersHoldStrands, Moves, HeldKept PROVE WorkersHoldStrands'
BY ThreadsDistinct DEF WorkersHoldStrands, Moves, HeldKept, Threads

LEMMA MovesInv ==
  ASSUME Inv, TypeOK', Moves, UNCHANGED <<strand, agenda>> PROVE Inv' /\ SameFamilies
<1>1. WorkersHoldStrands'
  BY MovesKeepsWorkers DEF Inv, HeldKept
<1> QED
  BY <1>1, ThreadsOnly

LEMMA ExitInv ==
  ASSUME Inv, NEW w \in Workers, Exit(w) PROVE Inv' /\ SameFamilies
<1>0. /\ thread \in [Threads -> ThreadRecord] /\ w \in Threads
      /\ thread' = [thread EXCEPT ![w].pc = "exited"]
  BY DEF Inv, TypeOK, Exit, Threads
<1>1. thread' \in [Threads -> ThreadRecord] /\ Moves
  <2> DEFINE r == [thread[w] EXCEPT !.pc = "exited"]
  <2>1. r \in ThreadRecord /\ r.cur = thread[w].cur /\ r.pc = "exited"
    BY <1>0 DEF ThreadRecord, WorkerPlaces
  <2>2. thread' = [thread EXCEPT ![w] = r]
    BY <1>0
  <2> HIDE DEF r
  <2>3. /\ thread' \in [Threads -> ThreadRecord] /\ thread'[w] = r
        /\ \A x \in Threads : x # w => thread'[x] = thread[x]
    BY <1>0, <2>1, <2>2
  <2>4. thread[w].pc \notin {"body", "join"}
    BY DEF Exit
  <2> QED
    BY <2>1, <2>3, <2>4 DEF Moves, WorkerPlaces
<1>2. TypeOK'
  BY <1>1 DEF Inv, TypeOK, Exit
<1> QED
  BY <1>1, <1>2, MovesInv DEF Exit

LEMMA NotifyAfterInv ==
  ASSUME Inv, NEW w \in Workers, NotifyAfter(w) PROVE Inv' /\ SameFamilies
<1>0. /\ thread \in [Threads -> ThreadRecord] /\ w \in Threads
      /\ thread' = [thread EXCEPT ![w].pc = "scan"]
  BY DEF Inv, TypeOK, NotifyAfter, Threads
<1>1. thread' \in [Threads -> ThreadRecord] /\ Moves
  <2> DEFINE r == [thread[w] EXCEPT !.pc = "scan"]
  <2>1. r \in ThreadRecord /\ r.cur = thread[w].cur /\ r.pc = "scan"
    BY <1>0 DEF ThreadRecord, WorkerPlaces
  <2>2. thread' = [thread EXCEPT ![w] = r]
    BY <1>0
  <2> HIDE DEF r
  <2>3. /\ thread' \in [Threads -> ThreadRecord] /\ thread'[w] = r
        /\ \A x \in Threads : x # w => thread'[x] = thread[x]
    BY <1>0, <2>1, <2>2
  <2>4. thread[w].pc \notin {"body", "join"}
    BY DEF NotifyAfter
  <2> QED
    BY <2>1, <2>3, <2>4 DEF Moves, WorkerPlaces
<1>2. TypeOK'
  BY <1>1 DEF Inv, TypeOK, NotifyAfter, NotifyAll
<1> QED
  BY <1>1, <1>2, MovesInv DEF NotifyAfter

LEMMA HostMoves ==
  ASSUME TypeOK, NEW h \in Hosts, NEW place \in HostPlaces,
         thread' = [thread EXCEPT ![h].pc = place]
  PROVE  thread' \in [Threads -> ThreadRecord] /\ Moves
<1>1. h \in Threads
  BY DEF Threads
<1>2. thread' \in [Threads -> ThreadRecord]
  BY <1>1 DEF TypeOK, ThreadRecord
<1> QED
  BY <1>1, <1>2 DEF TypeOK, ThreadRecord, Moves

LEMMA HostJoins ==
  ASSUME TypeOK, NEW h \in Hosts, NEW target \in Tasks \cup {None},
         NEW timed \in BOOLEAN, Joining(h, target, timed)
  PROVE  thread' \in [Threads -> ThreadRecord] /\ Moves
<1>1. h \in Threads /\ "join" \in HostPlaces
  BY DEF Threads, HostPlaces
<1>2. thread' \in [Threads -> ThreadRecord]
  BY <1>1 DEF TypeOK, ThreadRecord, Joining
<1> QED
  BY <1>1, <1>2 DEF TypeOK, ThreadRecord, Moves, Joining

LEMMA HostInv ==
  ASSUME Inv, NEW h \in Hosts, HostStep(h) PROVE Inv' /\ SameFamilies
<1>0. h \in Threads /\ {"free", "idle", "stop", "reap", "gone"} \subseteq HostPlaces
  BY DEF Threads, HostPlaces
<1>1. ASSUME NEW target \in Tasks, NEW timed \in BOOLEAN, HostJoin(h, target, timed)
      PROVE  Inv' /\ SameFamilies
  <2>1. thread' \in [Threads -> ThreadRecord] /\ Moves
    BY <1>1, HostJoins DEF Inv, HostJoin
  <2>2. TypeOK'
    BY <1>0, <1>1, <2>1 DEF Inv, TypeOK, HostJoin
  <2> QED
    BY <1>1, <2>1, <2>2, MovesInv DEF HostJoin
<1>2. CASE HostIdle(h) \/ IdleWake(h) \/ IdleTimeout(h)
  <2>1. (IF Idle THEN "free" ELSE "idle") \in HostPlaces
    BY <1>0
  <2>2. PICK place \in HostPlaces : thread' = [thread EXCEPT ![h].pc = place]
    BY <1>0, <1>2, <2>1 DEF HostIdle, IdleWake, IdleTimeout
  <2>3. thread' \in [Threads -> ThreadRecord] /\ Moves
    BY <2>2, HostMoves DEF Inv
  <2>4. TypeOK'
    BY <1>0, <1>2, <2>3 DEF Inv, TypeOK, HostIdle, IdleWake, IdleTimeout
  <2> QED
    BY <1>2, <2>3, <2>4, MovesInv DEF HostIdle, IdleWake, IdleTimeout
<1>3. CASE Shutdown(h) \/ ShutdownNotify(h) \/ ShutdownJoined(h)
  <2>1. PICK place \in HostPlaces : thread' = [thread EXCEPT ![h].pc = place]
    BY <1>0, <1>3 DEF Shutdown, ShutdownNotify, ShutdownJoined
  <2>2. thread' \in [Threads -> ThreadRecord] /\ Moves
    BY <2>1, HostMoves DEF Inv
  <2>3. TypeOK'
    BY <1>3, <2>2 DEF Inv, TypeOK, Shutdown, ShutdownNotify, ShutdownJoined, NotifyAll
  <2> QED
    BY <1>3, <2>2, <2>3, MovesInv DEF Shutdown, ShutdownNotify, ShutdownJoined
<1> QED
  BY <1>1, <1>2, <1>3 DEF HostStep
-----------------------------------------------------------------------------
(* Calls under the mutex that end no task, and parking and waking. *)

LEMMA QuietInv ==
  ASSUME Inv, TypeOK', SameFamilies, AgendaValid', PendingSettles',
         WorkersHoldStrands'
  PROVE  Inv' /\ SameFamilies
BY QuietKeepsFamilies DEF Inv, Families

\* The agenda is left alone too.
LEMMA MutexFreeInv ==
  ASSUME Inv, TypeOK', Quiet, WorkersHoldStrands', UNCHANGED agenda PROVE Inv' /\ SameFamilies
BY QuietInv, QuietGrows, QuietKeepsAgenda, QuietKeepsPending DEF Inv, Quiet

\* Only the record of t changes, and nothing in it that Inv speaks of.
SameCore(t) ==
  /\ \A u \in Tasks \ {t} : strand'[u] = strand[u]
  /\ strand[t].state # "New"
  /\ strand'[t].state = strand[t].state
  /\ strand'[t].parent = strand[t].parent
  /\ strand'[t].firstError = strand[t].firstError
  /\ strand'[t].pending = strand[t].pending

LEMMA SameCoreKeeps ==
  ASSUME NEW t \in Tasks, SameCore(t) PROVE Quiet /\ HeldKept
<1>1. SameFamilies
  BY DEF SameCore, SameFamilies, IsTerminal
<1>2. SamePending
  BY DEF SameCore, SamePending, Unsettled
<1> QED
  BY <1>1, <1>2 DEF SameCore, HeldKept, Quiet

\* The strand of a worker is Running or Waiting.
LEMMA HeldStates ==
  ASSUME WorkersHoldStrands, NEW w \in Workers, thread[w].cur \in Tasks
  PROVE  /\ strand[thread[w].cur].state \in {"Running", "Waiting"}
         /\ strand[thread[w].cur].pending = "New"
         /\ thread[w].pc \in {"body", "join"}
BY NoneIsNoTask DEF WorkersHoldStrands

\* A call that is not a dispatch is made, and the agenda loses it.
LEMMA AgendaTail ==
  ASSUME AgendaValid, agenda # <<>>, Head(agenda).op # "dispatch", Grows
  PROVE  /\ agenda \in Seq(ValidCalls) /\ Head(agenda) \in ValidCalls
         /\ Tail(agenda) \in Seq(ValidCalls) /\ Tail(agenda) \in Seq(ValidCalls')
<1>1. agenda \in Seq(ValidCalls)
  BY DEF AgendaValid
<1>2. Head(agenda) \in ValidCalls /\ Tail(agenda) \in Seq(ValidCalls)
  BY <1>1
<1> QED
  BY <1>1, <1>2, GrowsKeepsCalls, SeqOfMore

\* A dispatch leaves the agenda empty.
LEMMA DispatchTail ==
  ASSUME AgendaValid, NEW w \in Workers, Dispatching(w)
  PROVE  agenda = <<[op |-> "dispatch", id |-> w]>> /\ agenda' = <<>>
<1>1. agenda \notin Seq(ValidCalls)
  <2> SUFFICES ASSUME agenda \in Seq(ValidCalls) PROVE FALSE
    OBVIOUS
  <2>1. Head(agenda) \in ValidCalls
    BY DEF Dispatching
  <2> QED
    BY <2>1 DEF Dispatching, ValidCalls
<1>2. PICK v \in Workers : agenda = <<[op |-> "dispatch", id |-> v]>>
  BY <1>1 DEF AgendaValid
<1>3. v = w
  BY <1>2 DEF Dispatching
<1> QED
  BY <1>2, <1>3 DEF Dispatching

\* What is not the call that is made is still on the agenda.
LEMMA SettlingStays ==
  ASSUME NEW S, NEW T, agenda \in Seq(S), agenda # <<>>, NEW t,
         Head(agenda) # [op |-> "settle", id |-> t], Settling(t),
         \/ agenda' = Tail(agenda)
         \/ \E new \in Seq(T) : agenda' = new \o Tail(agenda)
  PROVE  Settling(t)'
<1>1. PICK i \in DOMAIN agenda : agenda[i] = [op |-> "settle", id |-> t]
  BY DEF Settling
<1>2. i # 1
  BY <1>1
<1>3. i - 1 \in DOMAIN Tail(agenda) /\ Tail(agenda)[i - 1] = agenda[i]
  BY <1>2
<1>4. CASE agenda' = Tail(agenda)
  BY <1>1, <1>3, <1>4 DEF Settling
<1>5. ASSUME NEW new \in Seq(T), agenda' = new \o Tail(agenda) PROVE Settling(t)'
  <2>1. Tail(agenda) \in Seq(S)
    OBVIOUS
  <2>2. /\ Len(new) + (i - 1) \in DOMAIN (new \o Tail(agenda))
        /\ (new \o Tail(agenda))[Len(new) + (i - 1)] = Tail(agenda)[i - 1]
    BY <1>3, <2>1
  <2> QED
    BY <1>1, <1>3, <1>5, <2>2 DEF Settling
<1> QED
  BY <1>4, <1>5

\* A call that is not a settle is made: the strands to settle are the same.
LEMMA PopKeepsPending ==
  ASSUME PendingSettles, SamePending, NEW S, NEW T, agenda \in Seq(S), agenda # <<>>,
         Head(agenda).op # "settle",
         \/ agenda' = Tail(agenda)
         \/ \E new \in Seq(T) : agenda' = new \o Tail(agenda)
  PROVE  PendingSettles'
<1> SUFFICES ASSUME NEW t \in Tasks, Unsettled(t)' PROVE Settling(t)'
  BY DEF PendingSettles
<1>1. Settling(t)
  BY DEF PendingSettles, SamePending
<1>2. Head(agenda) # [op |-> "settle", id |-> t]
  OBVIOUS
<1> QED
  BY <1>1, <1>2, SettlingStays

LEMMA AgendaCallTypes == ASSUME AgendaValid' PROVE agenda' \in Seq(Call)
<1>1. ValidCalls' \subseteq Call
  BY DEF ValidCalls, Call
<1>2. \A w \in Workers : [op |-> "dispatch", id |-> w] \in Call
  BY DEF Call
<1>3. CASE agenda' \in Seq(ValidCalls')
  BY <1>1, <1>3, SeqOfMore
<1>4. CASE \E w \in Workers : agenda' = <<[op |-> "dispatch", id |-> w]>>
  BY <1>2, <1>4
<1> QED
  BY <1>3, <1>4 DEF AgendaValid

LEMMA CancelNotifyInv ==
  ASSUME Inv, CancelNotify PROVE Inv' /\ SameFamilies
<1>1. Quiet /\ HeldKept
  BY DEF CancelNotify, Quiet, SameFamilies, SamePending, Unsettled, HeldKept, IsTerminal
<1>2. agenda # <<>> /\ Head(agenda).op = "notify_all" /\ agenda' = Tail(agenda)
  BY DEF CancelNotify, Calling
<1>3. agenda \in Seq(ValidCalls) /\ AgendaValid'
  BY <1>1, <1>2, QuietGrows, AgendaTail DEF Inv, AgendaValid
<1>4. PendingSettles'
  BY <1>1, <1>2, <1>3, PopKeepsPending DEF Inv, Quiet
<1>5. TypeOK'
  BY <1>3, AgendaCallTypes DEF Inv, TypeOK, CancelNotify, NotifyAll
<1> QED
  BY <1>1, <1>3, <1>4, <1>5, QuietInv, HeldKeptKeepsWorkers
  DEF Inv, CancelNotify, Quiet

LEMMA CancelTaskInv ==
  ASSUME Inv, NEW t \in Tasks, CancelTask(t) PROVE Inv' /\ SameFamilies
<1>1. Quiet /\ HeldKept
  BY DEF CancelTask, Quiet, SameFamilies, SamePending, Unsettled, HeldKept, IsTerminal
<1>2. /\ [op |-> "cancel", id |-> t] \in ValidCalls'
      /\ [op |-> "notify_all", id |-> None] \in ValidCalls'
  BY DEF CancelTask, Spawned, ValidCalls, Call
<1>3. AgendaValid'
  BY <1>2 DEF CancelTask, AgendaValid
<1>4. TypeOK'
  BY <1>3, AgendaCallTypes DEF Inv, TypeOK, CancelTask
<1>5. PendingSettles'
  BY <1>1 DEF Inv, PendingSettles, Quiet, SamePending, Settling, CancelTask, MutexFree
<1> QED
  BY <1>1, <1>3, <1>4, <1>5, QuietInv, HeldKeptKeepsWorkers DEF Inv, CancelTask, Quiet

LEMMA DispatchSettles ==
  ASSUME PendingSettles, SamePending, NEW w \in Workers,
         agenda = <<[op |-> "dispatch", id |-> w]>>, agenda' = <<>>
  PROVE  AgendaValid' /\ PendingSettles' /\ \A t \in Tasks : ~Unsettled(t)
<1>1. AgendaValid'
  BY DEF AgendaValid
<1>2. \A t \in Tasks : ~Settling(t)
  BY DEF Settling
<1> QED
  BY <1>1, <1>2 DEF PendingSettles, SamePending

LEMMA BlockInv ==
  ASSUME Inv, NEW w \in Workers, Block(w) PROVE Inv' /\ SameFamilies
<1>1. Quiet /\ HeldKept
  BY DEF Block, Quiet, SameFamilies, SamePending, Unsettled, HeldKept, IsTerminal
<1>2. agenda = <<[op |-> "dispatch", id |-> w]>> /\ agenda' = <<>>
  BY DispatchTail DEF Inv, Block
<1>3. AgendaValid' /\ PendingSettles'
  BY <1>1, <1>2, DispatchSettles DEF Inv, Quiet
<1>4. w \in Threads /\ HasDeadline \in BOOLEAN
  BY DEF Threads, HasDeadline
<1>5. thread' \in [Threads -> ThreadRecord]
  BY <1>4 DEF Inv, TypeOK, Block, ThreadRecord
<1>6. Moves
  BY <1>4 DEF Inv, TypeOK, Block, ThreadRecord, Moves
<1>7. <<>> \in Seq(Tasks)
  OBVIOUS
<1>8. localq' \in [Workers -> Seq(Tasks)]
  BY <1>7 DEF Inv, TypeOK, Block
<1>9. TypeOK'
  BY <1>3, <1>4, <1>5, <1>7, <1>8, AgendaCallTypes DEF Inv, TypeOK, Block
<1> QED
  BY <1>1, <1>3, <1>6, <1>9, QuietInv, MovesKeepsWorkers DEF Inv, Quiet

-----------------------------------------------------------------------------
(* Records: what the updates of a strand keep of it. *)

\* r is s in state st, with the same place in the family.
Becomes(r, s, st) ==
  /\ r \in StrandRecord /\ r.state = st /\ r.parent = s.parent
  /\ r.firstError = s.firstError /\ r.pending = s.pending

LEMMA UpdateEffect ==
  ASSUME TypeOK, NEW t \in Tasks, NEW r \in StrandRecord, Update(t, r)
  PROVE  /\ strand' \in [Tasks -> StrandRecord]
         /\ strand'[t] = r
         /\ \A u \in Tasks \ {t} : strand'[u] = strand[u]
BY DEF TypeOK, Update

LEMMA ParkRecord ==
  ASSUME NEW s \in StrandRecord, NEW a \in BOOLEAN, NEW b \in BOOLEAN
  PROVE  Becomes([s EXCEPT !.parkPending = a, !.parkTimed = b], s, s.state)
BY DEF StrandRecord, Becomes

LEMMA ParkWakeRecord ==
  ASSUME NEW s \in StrandRecord, NEW a \in BOOLEAN, NEW w \in Workers \cup {None}
  PROVE  Becomes([s EXCEPT !.parkWake = a, !.parkTo = w], s, s.state)
BY DEF StrandRecord, Becomes

LEMMA WokenRecord ==
  ASSUME NEW s \in StrandRecord, NEW g \in Nat, NEW a \in BOOLEAN,
         NEW st \in States, NEW b \in BOOLEAN
  PROVE  Becomes([s EXCEPT !.gen = g, !.wakePending = a, !.state = st, !.queued = b], s, st)
BY DEF StrandRecord, Becomes

LEMMA PromotedRecord ==
  ASSUME NEW s \in StrandRecord, NEW a \in BOOLEAN,
         NEW st \in States, NEW b \in BOOLEAN
  PROVE  Becomes([s EXCEPT !.wakePending = a, !.state = st, !.queued = b], s, st)
BY DEF StrandRecord, Becomes

LEMMA RunRecord ==
  ASSUME NEW s \in StrandRecord, NEW st \in States, NEW a \in BOOLEAN,
         NEW b \in BOOLEAN, NEW w \in Workers \cup {None}
  PROVE  Becomes([s EXCEPT !.state = st, !.queued = a, !.wakePending = b, !.worker = w], s, st)
<1> DEFINE r == [s EXCEPT !.state = st, !.queued = a, !.wakePending = b, !.worker = w]
<1>1. r \in StrandRecord
  BY DEF StrandRecord
<1>2. r.parent = s.parent /\ r.firstError = s.firstError /\ r.pending = s.pending
      /\ r.state = st
  BY DEF StrandRecord
<1> QED
  BY <1>1, <1>2 DEF Becomes

LEMMA PlaceRecord ==
  ASSUME NEW s \in StrandRecord, NEW st \in States, NEW w \in Workers \cup {None}
  PROVE  Becomes([s EXCEPT !.state = st, !.worker = w], s, st)
BY DEF StrandRecord, Becomes

LEMMA UnparkedRecord ==
  ASSUME NEW s \in StrandRecord, NEW a \in BOOLEAN, NEW b \in BOOLEAN,
         NEW c \in BOOLEAN, NEW w \in Workers \cup {None}, NEW d \in BOOLEAN
  PROVE  Becomes([s EXCEPT !.parkPending = a, !.parkTimed = b, !.parkWake = c,
                           !.parkTo = w, !.parkedOnce = d], s, s.state)
<1> DEFINE r == [s EXCEPT !.parkPending = a, !.parkTimed = b, !.parkWake = c,
                          !.parkTo = w, !.parkedOnce = d]
<1>1. r \in StrandRecord
  BY DEF StrandRecord
<1>2. r.parent = s.parent /\ r.firstError = s.firstError
  BY DEF StrandRecord
<1>3. r.pending = s.pending /\ r.state = s.state
  BY DEF StrandRecord
<1> QED
  BY <1>1, <1>2, <1>3 DEF Becomes

LEMMA SleepRecord ==
  ASSUME NEW s \in StrandRecord, NEW st \in States, NEW a \in BOOLEAN,
         NEW b \in BOOLEAN, NEW w \in Workers \cup {None}, NEW g \in Nat
  PROVE  Becomes([s EXCEPT !.state = st, !.queued = a, !.wakePending = b,
                           !.worker = w, !.gen = g], s, st)
<1> DEFINE r == [s EXCEPT !.state = st, !.queued = a, !.wakePending = b,
                          !.worker = w, !.gen = g]
<1>1. r \in StrandRecord
  BY DEF StrandRecord
<1>2. r.parent = s.parent /\ r.firstError = s.firstError /\ r.pending = s.pending
      /\ r.state = st
  BY DEF StrandRecord
<1> QED
  BY <1>1, <1>2 DEF Becomes

LEMMA CancelRecord ==
  ASSUME NEW s \in StrandRecord, NEW a \in BOOLEAN
  PROVE  Becomes([s EXCEPT !.cancel = a], s, s.state)
BY DEF StrandRecord, Becomes

\* r is s with pending completion c.
Completes(r, s, c) ==
  /\ r \in StrandRecord /\ r.state = s.state /\ r.parent = s.parent
  /\ r.firstError = s.firstError /\ r.pending = c

LEMMA CompletionRecord ==
  ASSUME NEW s \in StrandRecord, NEW c \in Completions, NEW a \in BOOLEAN,
         NEW b \in BOOLEAN
  PROVE  Completes([s EXCEPT !.pending = c, !.queued = a, !.wakePending = b], s, c)
BY DEF StrandRecord, Completes

\* r is s with first child error c.
Learns(r, s, c) ==
  /\ r \in StrandRecord /\ r.state = s.state /\ r.parent = s.parent
  /\ r.firstError = c /\ r.pending = s.pending

LEMMA InformedRecord ==
  ASSUME NEW s \in StrandRecord, NEW c \in Tasks \cup {None}, NEW a \in BOOLEAN
  PROVE  Learns([s EXCEPT !.firstError = c, !.cancel = a], s, c)
BY DEF StrandRecord, Learns

LEMMA OrderRecord ==
  ASSUME NEW s \in StrandRecord, NEW o \in Seq(Tasks)
  PROVE  Becomes([s EXCEPT !.order = o], s, s.state)
BY DEF StrandRecord, Becomes

LEMMA FieldTypes ==
  ASSUME TypeOK, NEW t \in Tasks
  PROVE  /\ strand[t] \in StrandRecord
         /\ strand[t].state \in States /\ strand[t].worker \in Workers \cup {None}
         /\ strand[t].gen \in Nat /\ strand[t].parkWake \in BOOLEAN
         /\ strand[t].parkTimed \in BOOLEAN /\ strand[t].parkTo \in Workers \cup {None}
         /\ strand[t].parent \in Tasks \cup {None} /\ strand[t].order \in Seq(Tasks)
         /\ strand[t].cancel \in BOOLEAN /\ strand[t].pending \in Completions
         /\ strand[t].firstError \in Tasks \cup {None}
BY DEF TypeOK, StrandRecord

LEMMA Literals ==
  /\ TRUE \in BOOLEAN /\ FALSE \in BOOLEAN /\ None \in Workers \cup {None}
  /\ {"Runnable", "Running", "Sleeping", "Waiting"} \subseteq States
  /\ Terminal \subseteq States /\ Terminal \subseteq Completions
BY DEF States, Completions
-----------------------------------------------------------------------------
(* Parking and waking *)

LEMMA ParkCurrentInv ==
  ASSUME Inv, NEW w \in Workers, NEW timed \in BOOLEAN, ParkCurrent(w, timed)
  PROVE  Inv' /\ SameFamilies
<1> DEFINE t == thread[w].cur
           r == [strand[t] EXCEPT !.parkPending = TRUE, !.parkTimed = timed]
<1>1. t \in Tasks
  BY DEF Inv, WorkersHoldStrands, ParkCurrent, InBody
<1>2. strand[t] \in StrandRecord /\ TRUE \in BOOLEAN
  BY <1>1, FieldTypes, Literals DEF Inv
<1>2a. Becomes(r, strand[t], strand[t].state)
  BY <1>2, ParkRecord, Zenon
<1>3. Update(t, r)
  BY DEF ParkCurrent
<1> HIDE DEF r
<1>4. SameCore(t) /\ strand' \in [Tasks -> StrandRecord]
  BY <1>1, <1>3, <1>2a, UpdateEffect DEF Inv, SameCore, Becomes, ParkCurrent
<1>5. TypeOK'
  BY <1>4 DEF Inv, TypeOK, ParkCurrent
<1> QED
  BY <1>1, <1>4, <1>5, SameCoreKeeps, MutexFreeInv, HeldKeptKeepsWorkers
  DEF Inv, ParkCurrent

LEMMA WakeTargetType == WakeTargets \subseteq Workers \cup {None}
BY DEF WakeTargets

LEMMA WakeParkingInv ==
  ASSUME Inv, NEW t \in Tasks, NEW to \in WakeTargets, WakeParking(t, to)
  PROVE  Inv' /\ SameFamilies
<1> DEFINE r == [strand[t] EXCEPT !.parkWake = TRUE, !.parkTo = to]
<1>1. to \in Workers \cup {None}
  BY WakeTargetType
<1>2. strand[t] \in StrandRecord /\ TRUE \in BOOLEAN
  BY <1>1, FieldTypes, Literals DEF Inv
<1>2a. Becomes(r, strand[t], strand[t].state)
  BY <1>1, <1>2, ParkWakeRecord, Zenon
<1>3. Update(t, r)
  BY DEF WakeParking
<1> HIDE DEF r
<1>4. SameCore(t) /\ strand' \in [Tasks -> StrandRecord]
  BY <1>3, <1>2a, UpdateEffect DEF Inv, SameCore, Becomes, WakeParking
<1>5. TypeOK'
  BY <1>4 DEF Inv, TypeOK, WakeParking
<1> QED
  BY <1>4, <1>5, SameCoreKeeps, MutexFreeInv, HeldKeptKeepsWorkers
  DEF Inv, WakeParking

LEMMA EnqueueTypes ==
  ASSUME TypeOK, NEW t \in Tasks, NEW to \in Workers \cup {None}, Enqueue(t, to)
  PROVE  globalq' \in Seq(Tasks) /\ localq' \in [Workers -> Seq(Tasks)]
<1>1. CASE to = None
  <2>1. Append(globalq, t) \in Seq(Tasks)
    BY DEF TypeOK
  <2>2. globalq' = Append(globalq, t) /\ localq' = localq
    BY <1>1 DEF Enqueue
  <2> QED
    BY <2>1, <2>2 DEF TypeOK
<1>2. CASE to \in Workers /\ to # None
  <2>1. Append(localq[to], t) \in Seq(Tasks)
    BY <1>2 DEF TypeOK
  <2> QED
    BY <1>2, <2>1 DEF TypeOK, Enqueue
<1> QED
  BY <1>1, <1>2

\* A strand that no worker holds moves between states that are not final.
LEMMA MovesStrand ==
  ASSUME Inv, NEW t \in Tasks, NEW r, NEW st, Update(t, r),
         Becomes(r, strand[t], st),
         strand[t].state \notin Terminal \cup {"New", "Running", "Waiting"},
         st \notin Terminal \cup {"New"}
  PROVE  Quiet /\ HeldKept /\ strand' \in [Tasks -> StrandRecord]
<1>1. /\ strand' \in [Tasks -> StrandRecord]
      /\ strand'[t] = r
      /\ \A u \in Tasks \ {t} : strand'[u] = strand[u]
  BY UpdateEffect DEF Inv, Becomes
<1>2. SameFamilies /\ SamePending
  BY <1>1 DEF SameFamilies, SamePending, Unsettled, Becomes, IsTerminal
<1>3. HeldKept
  BY <1>1, HeldStates DEF Inv, HeldKept
<1> QED
  BY <1>1, <1>2, <1>3 DEF Quiet

LEMMA WokenBecomes ==
  ASSUME TypeOK, NEW t \in Tasks PROVE Becomes(Woken(t), strand[t], "Runnable")
<1>1. strand[t] \in StrandRecord /\ strand[t].gen + 1 \in Nat
  BY FieldTypes
<1>2. "Runnable" \in States /\ TRUE \in BOOLEAN
  BY Literals
<1> QED
  BY <1>1, <1>2, WokenRecord, Zenon DEF Woken

LEMMA WakeSleepingInv ==
  ASSUME Inv, NEW t \in Tasks, NEW to \in WakeTargets, WakeSleeping(t, to)
  PROVE  Inv' /\ SameFamilies
<1>1. to \in Workers \cup {None}
  BY WakeTargetType
<1>2. Quiet /\ HeldKept /\ strand' \in [Tasks -> StrandRecord]
  BY WokenBecomes, MovesStrand DEF Inv, WakeSleeping, Terminal
<1>3. TypeOK'
  BY <1>1, <1>2, EnqueueTypes DEF Inv, TypeOK, WakeSleeping, NotifyOne, NotifyAll
<1> QED
  BY <1>2, <1>3, MutexFreeInv, HeldKeptKeepsWorkers DEF Inv, WakeSleeping
-----------------------------------------------------------------------------
(* Dispatching *)

\* Nothing is about to be settled while the mutex is free.
LEMMA FreeSettlesNone == ASSUME MutexFree PROVE \A t \in Tasks : ~Settling(t)
BY DEF MutexFree, Settling

LEMMA PromotedTypes == ASSUME TypeOK PROVE Promoted \subseteq Tasks
BY DEF TypeOK, Promoted, TimerEntry

LEMMA ScanInv ==
  ASSUME Inv, NEW w \in Workers, Scan(w) PROVE Inv' /\ SameFamilies
<1>1. Promoted \in SUBSET Tasks
  BY PromotedTypes DEF Inv
<1>2. localq' \in [Workers -> Seq(Tasks)]
  <2>1. PICK order \in SetToSeqs(Promoted) :
          localq' = [localq EXCEPT ![w] = @ \o order]
    BY DEF Scan
  <2>2. order \in Seq(Tasks) /\ localq[w] \in Seq(Tasks)
    BY <1>1, OrdersAreSequences, SeqOfMore DEF Inv, TypeOK
  <2>3. localq[w] \o order \in Seq(Tasks)
    BY <2>2
  <2> QED
    BY <2>1, <2>3 DEF Inv, TypeOK
<1>3. \A t \in Tasks :
        \/ strand'[t] = strand[t]
        \/ strand[t].state = "Sleeping" /\ Becomes(strand'[t], strand[t], "Runnable")
  <2> SUFFICES ASSUME NEW t \in Promoted
               PROVE  strand[t].state = "Sleeping" /\ Becomes(strand'[t], strand[t], "Runnable")
    BY DEF Scan
  <2>1. strand[t].state = "Sleeping"
    BY DEF Promoted
  <2>2. strand[t] \in StrandRecord /\ TRUE \in BOOLEAN /\ "Runnable" \in States
    BY <1>1, FieldTypes, Literals DEF Inv
  <2>3. Becomes([strand[t] EXCEPT !.wakePending = TRUE, !.state = "Runnable",
                                  !.queued = TRUE], strand[t], "Runnable")
    BY <2>2, PromotedRecord, Zenon
  <2>4. strand'[t] = [strand[t] EXCEPT !.wakePending = TRUE, !.state = "Runnable",
                                      !.queued = TRUE]
    BY <1>1 DEF Scan
  <2> QED
    BY <2>1, <2>3, <2>4
<1>4. \A t \in Tasks : strand'[t] \in StrandRecord
  BY <1>3, FieldTypes DEF Becomes, Inv
<1>5. strand' \in [Tasks -> StrandRecord]
  BY <1>4 DEF Scan
<1>6. Quiet
  BY <1>3 DEF Quiet, SameFamilies, SamePending, Unsettled, Becomes, IsTerminal, Terminal
<1>7. HeldKept
  BY <1>3, HeldStates DEF HeldKept, Inv
<1>8. AgendaValid'
  BY DEF AgendaValid, Scan
<1>9. PendingSettles'
  BY <1>6, FreeSettlesNone DEF Inv, PendingSettles, Quiet, SamePending, Scan
<1>10. TypeOK'
  BY <1>2, <1>5, <1>8, AgendaCallTypes DEF Inv, TypeOK, Scan
<1> QED
  BY <1>6, <1>7, <1>8, <1>9, <1>10, QuietInv, HeldKeptKeepsWorkers DEF Inv, Scan, Quiet

\* A worker takes a strand that no other worker has.
LEMMA TakeKeepsWorkers ==
  ASSUME TypeOK, WorkersHoldStrands, NEW w \in Workers, NEW t \in Tasks,
         strand[t].state = "Runnable", strand'[t].state = "Running",
         strand'[t].pending = "New",
         \A u \in Tasks \ {t} : strand'[u] = strand[u],
         thread' = [thread EXCEPT ![w] = [@ EXCEPT !.pc = "body", !.cur = t]]
  PROVE  WorkersHoldStrands' /\ thread' \in [Threads -> ThreadRecord]
<1>1. w \in Threads /\ "body" \in WorkerPlaces
  BY DEF Threads, WorkerPlaces
<1>2. thread' \in [Threads -> ThreadRecord]
  BY <1>1 DEF TypeOK, ThreadRecord
<1>3. thread'[w].pc = "body" /\ thread'[w].cur = t
  BY <1>1 DEF TypeOK, ThreadRecord
<1>4. \A x \in Threads \ {w} : thread'[x] = thread[x]
  BY DEF TypeOK
<1>5. \A v \in Workers \ {w} : thread[v].cur # t
  BY HeldStates
<1>6. \A v \in Workers \ {w} : thread[v].cur \in Tasks =>
         strand'[thread[v].cur] = strand[thread[v].cur]
  BY <1>5
<1> QED
  BY <1>1, <1>2, <1>3, <1>4, <1>5, <1>6, NoneIsNoTask, ThreadsDistinct
  DEF WorkersHoldStrands, Threads

LEMMA RunInv ==
  ASSUME Inv, NEW w \in Workers, NEW t \in Tasks, Dispatching(w), Run(w, t),
         strand[t].state = "Runnable",
         globalq' \in Seq(Tasks), localq' \in [Workers -> Seq(Tasks)]
  PROVE  Inv' /\ SameFamilies
<1> DEFINE r == [strand[t] EXCEPT !.state = "Running", !.queued = FALSE,
                                  !.wakePending = FALSE, !.worker = w]
<1>1. agenda = <<[op |-> "dispatch", id |-> w]>> /\ agenda' = <<>>
  BY DispatchTail DEF Inv
<1>2. strand[t] \in StrandRecord /\ FALSE \in BOOLEAN /\ "Running" \in States
      /\ w \in Workers \cup {None}
  BY FieldTypes, Literals DEF Inv
<1>3. Becomes(r, strand[t], "Running")
  BY <1>2, RunRecord, Zenon
<1>4. Update(t, r)
  BY DEF Run
<1> HIDE DEF r
<1>5. strand' \in [Tasks -> StrandRecord] /\ strand'[t] = r
      /\ \A u \in Tasks \ {t} : strand'[u] = strand[u]
  BY <1>3, <1>4, UpdateEffect DEF Inv, Becomes
<1>6. strand[t].pending = "New"
  <2>1. ~Settling(t)
    BY <1>1 DEF Settling
  <2> QED
    BY <2>1 DEF Inv, PendingSettles, Unsettled, Terminal
<1>7. Quiet
  BY <1>3, <1>5, <1>6
  DEF Quiet, SameFamilies, SamePending, Unsettled, Becomes, IsTerminal, Terminal
<1>8. AgendaValid' /\ PendingSettles'
  BY <1>1, <1>7, DispatchSettles DEF Inv, Quiet
<1>9. WorkersHoldStrands' /\ thread' \in [Threads -> ThreadRecord]
  BY <1>3, <1>5, <1>6, TakeKeepsWorkers DEF Inv, Run, Becomes
<1>10. running' \in Nat
  BY DEF Inv, TypeOK, Run
<1>11. TypeOK'
  BY <1>5, <1>8, <1>9, <1>10, AgendaCallTypes DEF Inv, TypeOK, Run
<1> QED
  BY <1>7, <1>8, <1>9, <1>11, QuietInv DEF Quiet

LEMMA BehindType ==
  ASSUME NEW q \in Seq(Tasks), NEW i \in DOMAIN q PROVE Behind(q, i) \in Seq(Tasks)
BY DEF Behind

LEMMA RunLocalInv ==
  ASSUME Inv, NEW w \in Workers, RunLocal(w) PROVE Inv' /\ SameFamilies
<1>1. PICK i \in DOMAIN localq[w] :
        /\ FirstRunnable(localq[w], i)
        /\ Run(w, localq[w][i])
        /\ localq' = [localq EXCEPT ![w] = Behind(@, i)]
  BY DEF RunLocal
<1>2. localq[w] \in Seq(Tasks)
  BY DEF Inv, TypeOK
<1>3. localq[w][i] \in Tasks /\ Behind(localq[w], i) \in Seq(Tasks)
  BY <1>2, BehindType
<1>4. globalq' \in Seq(Tasks) /\ localq' \in [Workers -> Seq(Tasks)]
  BY <1>1, <1>3 DEF Inv, TypeOK, RunLocal
<1> QED
  BY <1>1, <1>3, <1>4, RunInv DEF RunLocal, FirstRunnable

LEMMA RunGlobalInv ==
  ASSUME Inv, NEW w \in Workers, RunGlobal(w) PROVE Inv' /\ SameFamilies
<1>1. PICK i \in DOMAIN globalq :
        /\ FirstRunnable(globalq, i)
        /\ Run(w, globalq[i])
        /\ globalq' = Behind(globalq, i)
  BY DEF RunGlobal
<1>2. globalq \in Seq(Tasks) /\ <<>> \in Seq(Tasks)
  BY DEF Inv, TypeOK
<1>3. globalq[i] \in Tasks /\ Behind(globalq, i) \in Seq(Tasks)
  BY <1>2, BehindType
<1>4. globalq' \in Seq(Tasks) /\ localq' \in [Workers -> Seq(Tasks)]
  BY <1>1, <1>2, <1>3 DEF Inv, TypeOK, RunGlobal
<1> QED
  BY <1>1, <1>3, <1>4, RunInv DEF RunGlobal, FirstRunnable
-----------------------------------------------------------------------------
(* The function of a strand returns *)

\* A worker gives up its strand; no other strand that is held changes.
LEMMA LeaveKeepsWorkers ==
  ASSUME TypeOK, WorkersHoldStrands, NEW w \in Workers, Leave(w),
         \A u \in Tasks \ {thread[w].cur} : strand'[u] = strand[u]
  PROVE  WorkersHoldStrands' /\ thread' \in [Threads -> ThreadRecord]
<1>1. w \in Threads /\ "notify" \in WorkerPlaces
  BY DEF Threads, WorkerPlaces
<1>2. thread' \in [Threads -> ThreadRecord]
  BY <1>1 DEF TypeOK, ThreadRecord, Leave
<1>3. thread'[w].pc = "notify" /\ thread'[w].cur = None
  BY <1>1 DEF TypeOK, ThreadRecord, Leave
<1>4. \A x \in Threads \ {w} : thread'[x] = thread[x]
  BY DEF TypeOK, Leave
<1>5. \A v \in Workers \ {w} : thread[v].cur \in Tasks =>
         strand'[thread[v].cur] = strand[thread[v].cur]
  BY NoneIsNoTask DEF WorkersHoldStrands
<1> QED
  BY <1>1, <1>2, <1>3, <1>4, <1>5, NoneIsNoTask, ThreadsDistinct
  DEF WorkersHoldStrands, Threads

LEMMA ParkedBecomes ==
  ASSUME NEW s \in StrandRecord
  PROVE  \/ Becomes(Parked(s), s, "Sleeping")
         \/ Becomes(Parked(s), s, "Runnable")
<1> DEFINE u == Unparked(s)
           st == IF s.parkWake THEN "Runnable" ELSE "Sleeping"
<1>1. /\ s.parkWake \in BOOLEAN /\ s.parkTimed \in BOOLEAN /\ TRUE \in BOOLEAN
      /\ FALSE \in BOOLEAN /\ None \in Workers \cup {None} /\ s.gen \in Nat
  BY DEF StrandRecord
<1>2. (s.parkWake /\ s.parkTimed) \in BOOLEAN
  BY <1>1
<1>3. Becomes(u, s, s.state)
  BY <1>1, <1>2, UnparkedRecord, Zenon DEF Unparked
<1>4. u \in StrandRecord
  BY <1>3 DEF Becomes
<1>5. u.gen + 1 \in Nat
  BY <1>4 DEF StrandRecord
<1>6. st \in States
  BY DEF States
<1>7. Becomes([u EXCEPT !.state = st, !.queued = s.parkWake, !.wakePending = FALSE,
                        !.worker = None, !.gen = u.gen + 1], u, st)
  BY <1>1, <1>4, <1>5, <1>6, SleepRecord, Zenon
<1>8. Parked(s) = [u EXCEPT !.state = st, !.queued = s.parkWake, !.wakePending = FALSE,
                            !.worker = None, !.gen = u.gen + 1]
  BY DEF Parked
<1> HIDE DEF u
<1>9. Becomes(Parked(s), u, st)
  BY <1>7, <1>8
<1> QED
  BY <1>3, <1>9 DEF Becomes

LEMMA ReturnParkedInv ==
  ASSUME Inv, NEW w \in Workers, ReturnParked(w) PROVE Inv' /\ SameFamilies
<1> DEFINE t == thread[w].cur
           s == strand[t]
<1>1. t \in Tasks /\ s.state = "Running" /\ s.pending = "New"
  BY DEF Inv, WorkersHoldStrands, ReturnParked
<1>2. s \in StrandRecord /\ s.gen + 1 \in Nat /\ s.parkTo \in Workers \cup {None}
  BY <1>1, FieldTypes DEF Inv
<1>3. Becomes(Parked(s), s, "Sleeping") \/ Becomes(Parked(s), s, "Runnable")
  BY <1>2, ParkedBecomes
<1>4. Update(t, Parked(s))
  BY DEF ReturnParked
<1>5. /\ strand' \in [Tasks -> StrandRecord]
      /\ strand'[t] = Parked(s)
      /\ \A u \in Tasks \ {t} : strand'[u] = strand[u]
  BY <1>1, <1>3, <1>4, UpdateEffect DEF Inv, Becomes
<1>6. Quiet
  BY <1>1, <1>3, <1>5
  DEF Quiet, SameFamilies, SamePending, Unsettled, Becomes, IsTerminal, Terminal
<1>7. WorkersHoldStrands' /\ thread' \in [Threads -> ThreadRecord]
  BY <1>5, LeaveKeepsWorkers DEF Inv, ReturnParked
<1>8. globalq' \in Seq(Tasks) /\ localq' \in [Workers -> Seq(Tasks)]
  <2>1. CASE s.parkWake
    BY <1>1, <1>2, <2>1, EnqueueTypes DEF ReturnParked, Inv
  <2>2. CASE ~s.parkWake
    BY <2>2 DEF ReturnParked, Inv, TypeOK
  <2> QED
    BY <2>1, <2>2
<1>9. timers' \in SUBSET TimerEntry /\ due' \in SUBSET timers'
  BY <1>1, <1>2 DEF Inv, TypeOK, ReturnParked, TimerEntry
<1>10. running' \in Nat
  BY DEF Inv, TypeOK, ReturnParked, Decrement
<1>11. TypeOK'
  BY <1>5, <1>7, <1>8, <1>9, <1>10 DEF Inv, TypeOK, ReturnParked
<1> QED
  BY <1>6, <1>7, <1>11, MutexFreeInv DEF ReturnParked

\* The calls that cancel a list of tasks that exist.
LEMMA CancelEachValid ==
  ASSUME NEW S \in SUBSET Tasks, NEW order \in SetToSeqs(S),
         \A u \in S : strand'[u].state # "New"
  PROVE  CancelEach(order) \in Seq(ValidCalls')
<1>1. order \in Seq(S)
  BY OrdersAreSequences
<1>2. \A i \in DOMAIN order : order[i] \in S
  BY <1>1
<1>3. \A u \in S : [op |-> "cancel", id |-> u] \in ValidCalls'
  BY DEF ValidCalls, Call
<1> QED
  BY <1>1, <1>2, <1>3 DEF CancelEach

LEMMA ActiveChildrenExist ==
  ASSUME FamilyExists, NEW p \in Tasks
  PROVE  \A c \in ActiveChildren(p) : c \in Tasks /\ strand[c].state # "New"
<1> SUFFICES ASSUME NEW c \in ActiveChildren(p), strand[c].state = "New" PROVE FALSE
  BY DEF ActiveChildren, Children
<1>1. c \in Tasks /\ strand[c].parent = p
  BY DEF ActiveChildren, Children
<1>2. strand[c].parent = None
  BY <1>1 DEF FamilyExists, NoStrand
<1> QED
  BY <1>1, <1>2, NoneIsNoTask

\* What is in a list of calls is in the list of which it is the end.
LEMMA AppendedStays ==
  ASSUME NEW S, NEW T, NEW new \in Seq(S), NEW rest \in Seq(T),
         NEW i \in DOMAIN rest
  PROVE  \E j \in DOMAIN (new \o rest) : (new \o rest)[j] = rest[i]
<1>1. /\ Len(new) + i \in DOMAIN (new \o rest)
      /\ (new \o rest)[Len(new) + i] = rest[i]
  OBVIOUS
<1> QED
  BY <1>1
\* The head of finish_or_wait: the completion is recorded and t is to be settled.
LEMMA FinishOrWaitKeeps ==
  ASSUME Inv, NEW t \in Tasks, NEW s, Becomes(s, strand[t], strand[t].state),
         strand[t].state \notin Terminal \cup {"New"},
         NEW outcome \in Terminal, NEW rest \in Seq(ValidCalls),
         FinishOrWait(t, s, outcome, rest),
         \A u \in Tasks : Settling(u) =>
           \E i \in DOMAIN rest : rest[i] = [op |-> "settle", id |-> u]
  PROVE  /\ SameFamilies /\ AgendaValid' /\ PendingSettles'
         /\ strand' \in [Tasks -> StrandRecord]
         /\ \A u \in Tasks \ {t} : strand'[u] = strand[u]
<1> DEFINE r == [s EXCEPT !.pending = outcome, !.queued = FALSE,
                          !.wakePending = FALSE]
           settle == [op |-> "settle", id |-> t]
<1>1. s \in StrandRecord /\ outcome \in Completions /\ FALSE \in BOOLEAN
  BY Literals DEF Becomes
<1>2. Completes(r, s, outcome)
  BY <1>1, CompletionRecord, Zenon
<1>3. Update(t, r)
  BY DEF FinishOrWait
<1>4. outcome # "New"
  BY DEF Terminal
<1> HIDE DEF r
<1>5. /\ strand' \in [Tasks -> StrandRecord]
      /\ strand'[t] = r
      /\ \A u \in Tasks \ {t} : strand'[u] = strand[u]
  BY <1>2, <1>3, UpdateEffect DEF Inv, Completes
<1>6. SameFamilies
  BY <1>2, <1>5 DEF SameFamilies, Becomes, Completes, IsTerminal, Terminal
<1>7. Grows
  BY <1>2, <1>4, <1>5, <1>6 DEF Grows, SameFamilies, Completes
<1>8. rest \in Seq(ValidCalls')
  BY <1>7, GrowsKeepsCalls, SeqOfMore
<1>9. settle \in ValidCalls'
  BY <1>2, <1>4, <1>5 DEF ValidCalls, Call, Becomes, Completes
<1>10. PICK new \in Seq(ValidCalls') : agenda' = new \o <<settle>> \o rest
  <2>1. CASE outcome = "Done"
    <3>1. agenda' = <<settle>> \o rest
      BY <2>1 DEF FinishOrWait
    <3>2. <<>> \in Seq(ValidCalls') /\ <<>> \o <<settle>> = <<settle>>
      BY <1>9
    <3> QED
      BY <3>1, <3>2
  <2>2. CASE outcome # "Done"
    <3>1. PICK order \in SetToSeqs(ActiveChildren(t)) :
            agenda' = CancelEach(order) \o <<settle>> \o rest
      BY <2>2 DEF FinishOrWait
    <3>2. ActiveChildren(t) \in SUBSET Tasks
      BY DEF ActiveChildren, Children
    <3>3. \A u \in ActiveChildren(t) : strand'[u].state # "New"
      BY <1>6, ActiveChildrenExist DEF Inv, SameFamilies
    <3>4. CancelEach(order) \in Seq(ValidCalls')
      BY <3>2, <3>3, CancelEachValid
    <3> QED
      BY <3>1, <3>4
  <2> QED
    BY <2>1, <2>2
<1> DEFINE before == new \o <<settle>>
<1>11. /\ before \in Seq(ValidCalls')
       /\ Len(new) + 1 \in DOMAIN before /\ before[Len(new) + 1] = settle
  BY <1>9
<1> HIDE DEF before
<1>12. agenda' = before \o rest
  BY <1>10 DEF before
<1>13. before \o rest \in Seq(ValidCalls')
  BY <1>8, <1>11
<1>14. AgendaValid'
  BY <1>12, <1>13 DEF AgendaValid
<1>15. Settling(t)'
  <2>1. /\ Len(new) + 1 \in DOMAIN (before \o rest)
        /\ (before \o rest)[Len(new) + 1] = settle
    BY <1>8, <1>11
  <2> QED
    BY <1>12, <2>1 DEF Settling
<1>16. ASSUME NEW u \in Tasks \ {t}, Unsettled(u)' PROVE Settling(u)'
  <2>1. Settling(u)
    BY <1>5, <1>16 DEF Inv, PendingSettles, Unsettled
  <2>2. PICK i \in DOMAIN rest : rest[i] = [op |-> "settle", id |-> u]
    BY <2>1
  <2>2a. i \in DOMAIN rest
    BY <2>2
  <2>3. \E j \in DOMAIN (before \o rest) : (before \o rest)[j] = rest[i]
    BY <1>8, <1>11, <2>2a, AppendedStays
  <2> QED
    BY <1>12, <2>2, <2>3 DEF Settling
<1>17. PendingSettles'
  BY <1>15, <1>16 DEF PendingSettles
<1> QED
  BY <1>5, <1>6, <1>14, <1>17

LEMMA ReturnFinishedInv ==
  ASSUME Inv, NEW w \in Workers, NEW outcome \in Terminal, ReturnFinished(w, outcome)
  PROVE  Inv' /\ SameFamilies
<1> DEFINE t == thread[w].cur
           s == [strand[t] EXCEPT !.worker = None]
<1>1. t \in Tasks /\ strand[t].state = "Running"
  BY DEF Inv, WorkersHoldStrands, ReturnFinished
<1>2. Becomes(s, strand[t], strand[t].state)
  BY <1>1, FieldTypes DEF Inv, Becomes, StrandRecord
<1>3. FinishOrWait(t, s, outcome, <<>>)
  BY DEF ReturnFinished
<1>4. <<>> \in Seq(ValidCalls) /\ strand[t].state \notin Terminal \cup {"New"}
  BY <1>1 DEF Terminal
<1>5. \A u \in Tasks : ~Settling(u)
  BY FreeSettlesNone DEF ReturnFinished
<1> HIDE DEF s
<1>6. /\ SameFamilies /\ AgendaValid' /\ PendingSettles'
      /\ strand' \in [Tasks -> StrandRecord]
      /\ \A u \in Tasks \ {t} : strand'[u] = strand[u]
  BY <1>1, <1>2, <1>3, <1>4, <1>5, FinishOrWaitKeeps, Zenon
<1>7. WorkersHoldStrands' /\ thread' \in [Threads -> ThreadRecord]
  BY <1>6, LeaveKeepsWorkers DEF Inv, ReturnFinished
<1>8. running' \in Nat
  BY DEF Inv, TypeOK, ReturnFinished, Decrement
<1>9. TypeOK'
  BY <1>6, <1>7, <1>8, AgendaCallTypes DEF Inv, TypeOK, ReturnFinished
<1> QED
  BY <1>6, <1>7, <1>9, QuietInv
-----------------------------------------------------------------------------
(* The calls of a cancellation *)

LEMMA CallFacts ==
  ASSUME Inv, NEW op \in {"cancel", "cancel_rest", "settle", "adopt"},
         NEW t \in Tasks, Calling(op, t)
  PROVE  /\ agenda \in Seq(ValidCalls) /\ agenda # <<>>
         /\ Head(agenda) = [op |-> op, id |-> t]
         /\ Tail(agenda) \in Seq(ValidCalls)
         /\ strand[t].state # "New"
         /\ op = "settle" => strand[t].pending # "New"
<1>1. agenda # <<>> /\ Head(agenda) = [op |-> op, id |-> t]
  BY DEF Calling
<1>2. agenda \in Seq(ValidCalls)
  BY <1>1 DEF Inv, AgendaValid
<1>3. Head(agenda) \in ValidCalls /\ Tail(agenda) \in Seq(ValidCalls)
  BY <1>1, <1>2
<1> QED
  BY <1>1, <1>2, <1>3 DEF ValidCalls

\* The agenda after a call: new calls may come before the rest.
LEMMA CallKeepsAgenda ==
  ASSUME agenda \in Seq(ValidCalls), agenda # <<>>, Grows,
         \/ agenda' = Tail(agenda)
         \/ \E new \in Seq(ValidCalls') : agenda' = new \o Tail(agenda)
  PROVE  AgendaValid'
<1>1. Tail(agenda) \in Seq(ValidCalls)
  OBVIOUS
<1>2. Tail(agenda) \in Seq(ValidCalls')
  BY <1>1, GrowsKeepsCalls, SeqOfMore
<1>3. \A new \in Seq(ValidCalls') : new \o Tail(agenda) \in Seq(ValidCalls')
  BY <1>2
<1> QED
  BY <1>2, <1>3 DEF AgendaValid

\* A call that changes nothing that Inv speaks of but the agenda.
LEMMA CallQuietInv ==
  ASSUME Inv, NEW op \in {"cancel", "cancel_rest", "adopt"},
         NEW t \in Tasks, Calling(op, t), Quiet, HeldKept, UNCHANGED thread,
         agenda' \in Seq(Call) => TypeOK',
         \/ agenda' = Tail(agenda)
         \/ \E new \in Seq(ValidCalls') : agenda' = new \o Tail(agenda)
  PROVE  Inv' /\ SameFamilies
<1>1. /\ agenda \in Seq(ValidCalls) /\ agenda # <<>>
      /\ Head(agenda) = [op |-> op, id |-> t]
  BY CallFacts
<1>2. Head(agenda).op # "settle"
  BY <1>1
<1>3. AgendaValid'
  BY <1>1, CallKeepsAgenda, QuietGrows
<1>4. PendingSettles'
  BY <1>1, <1>2, PopKeepsPending DEF Inv, Quiet
<1>5. TypeOK'
  BY <1>3, AgendaCallTypes
<1> QED
  BY <1>3, <1>4, <1>5, QuietInv, HeldKeptKeepsWorkers DEF Inv, Quiet

LEMMA UnchangedStrands ==
  ASSUME UNCHANGED strand PROVE Quiet /\ HeldKept
BY DEF Quiet, SameFamilies, SamePending, Unsettled, HeldKept, IsTerminal

LEMMA CallCancelInv ==
  ASSUME Inv, NEW t \in Tasks, CallCancel(t) PROVE Inv' /\ SameFamilies
<1>1. Calling("cancel", t) /\ UNCHANGED thread
  BY DEF CallCancel
<1>2. strand[t].state # "New"
  BY <1>1, CallFacts
<1>3. CASE IsTerminal(t)
  <2>1. UNCHANGED strand /\ agenda' = Tail(agenda)
    BY <1>3 DEF CallCancel
  <2>2. agenda' \in Seq(Call) => TypeOK'
    BY <2>1 DEF Inv, TypeOK, CallCancel
  <2> QED
    BY <1>1, <2>1, <2>2, CallQuietInv, UnchangedStrands
<1>4. CASE ~IsTerminal(t)
  <2> DEFINE r == [strand[t] EXCEPT !.cancel = TRUE]
  <2>1. strand[t] \in StrandRecord /\ TRUE \in BOOLEAN
    BY FieldTypes, Literals DEF Inv
  <2>2. Becomes(r, strand[t], strand[t].state)
    BY <2>1, CancelRecord, Zenon
  <2>3. Update(t, r)
    BY <1>4 DEF CallCancel
  <2> HIDE DEF r
  <2>4. SameCore(t) /\ strand' \in [Tasks -> StrandRecord]
    BY <1>2, <2>2, <2>3, UpdateEffect DEF Inv, SameCore, Becomes
  <2>5. Quiet /\ HeldKept
    BY <2>4, SameCoreKeeps
  <2>6. PICK order \in SetToSeqs(ActiveChildren(t)) :
          agenda' = CancelEach(order) \o <<[op |-> "cancel_rest", id |-> t]>>
                    \o Tail(agenda)
    BY <1>4 DEF CallCancel
  <2>7. ActiveChildren(t) \in SUBSET Tasks
    BY DEF ActiveChildren, Children
  <2>8. \A u \in ActiveChildren(t) : strand'[u].state # "New"
    BY <2>5, ActiveChildrenExist DEF Inv, Quiet, SameFamilies
  <2>9. CancelEach(order) \in Seq(ValidCalls')
    BY <2>7, <2>8, CancelEachValid
  <2>10. [op |-> "cancel_rest", id |-> t] \in ValidCalls'
    BY <1>2, <2>5 DEF ValidCalls, Call, Quiet, SameFamilies
  <2>11. CancelEach(order) \o <<[op |-> "cancel_rest", id |-> t]>> \in Seq(ValidCalls')
    BY <2>9, <2>10
  <2>12. agenda' \in Seq(Call) => TypeOK'
    BY <2>4 DEF Inv, TypeOK, CallCancel
  <2> QED
    BY <1>1, <2>5, <2>6, <2>11, <2>12, CallQuietInv
<1> QED
  BY <1>3, <1>4

\* A strand that completes, or whose completion is recorded, is on no worker.
LEMMA NotHeld ==
  ASSUME WorkersHoldStrands, NEW t \in Tasks,
         \/ strand[t].pending # "New"
         \/ strand[t].state \notin {"Running", "Waiting"}
  PROVE  \A w \in Workers : thread[w].cur # t
BY HeldStates

LEMMA NotHeldKept ==
  ASSUME NEW t, \A w \in Workers : thread[w].cur # t,
         \A u \in Tasks \ {t} : strand'[u] = strand[u]
  PROVE  HeldKept
BY DEF HeldKept

LEMMA CancelRestInv ==
  ASSUME Inv, NEW t \in Tasks, CancelRest(t) PROVE Inv' /\ SameFamilies
<1>1. Calling("cancel_rest", t) /\ UNCHANGED thread
  BY DEF CancelRest
<1>2. /\ agenda \in Seq(ValidCalls) /\ agenda # <<>>
      /\ Head(agenda) = [op |-> "cancel_rest", id |-> t]
      /\ Tail(agenda) \in Seq(ValidCalls)
      /\ strand[t].state # "New"
  BY <1>1, CallFacts
<1>3. CASE /\ UNCHANGED <<strand, globalq>> /\ agenda' = Tail(agenda)
  <2>1. agenda' \in Seq(Call) => TypeOK'
    BY <1>3 DEF Inv, TypeOK, CancelRest
  <2> QED
    BY <1>1, <1>3, <2>1, CallQuietInv, UnchangedStrands
<1>4. CASE /\ Update(t, [strand[t] EXCEPT !.parkWake = TRUE, !.parkTo = None])
           /\ agenda' = Tail(agenda) /\ UNCHANGED globalq
  <2> DEFINE r == [strand[t] EXCEPT !.parkWake = TRUE, !.parkTo = None]
  <2>1. /\ strand[t] \in StrandRecord /\ TRUE \in BOOLEAN
        /\ None \in Workers \cup {None}
    BY FieldTypes, Literals DEF Inv
  <2>2. Becomes(r, strand[t], strand[t].state)
    BY <2>1, ParkWakeRecord, Zenon
  <2>3. Update(t, r)
    BY <1>4
  <2> HIDE DEF r
  <2>4. SameCore(t) /\ strand' \in [Tasks -> StrandRecord]
    BY <1>2, <2>2, <2>3, UpdateEffect DEF Inv, SameCore, Becomes
  <2>5. agenda' \in Seq(Call) => TypeOK'
    BY <1>4, <2>4 DEF Inv, TypeOK, CancelRest
  <2> QED
    BY <1>1, <1>4, <2>4, <2>5, SameCoreKeeps, CallQuietInv
<1>5. CASE /\ strand[t].state = "Sleeping" /\ Update(t, Woken(t))
           /\ globalq' = Append(globalq, t) /\ agenda' = Tail(agenda)
  <2>1. Quiet /\ HeldKept /\ strand' \in [Tasks -> StrandRecord]
    BY <1>5, WokenBecomes, MovesStrand DEF Inv, Terminal
  <2>2. globalq' \in Seq(Tasks)
    BY <1>5 DEF Inv, TypeOK
  <2>3. agenda' \in Seq(Call) => TypeOK'
    BY <2>1, <2>2 DEF Inv, TypeOK, CancelRest
  <2> QED
    BY <1>1, <1>5, <2>1, <2>3, CallQuietInv
<1>6. CASE /\ ~IsTerminal(t) /\ ~NoticesCancel(t)
           /\ FinishOrWait(t, strand[t], "Cancelled", Tail(agenda))
           /\ UNCHANGED globalq
  <2>1. Becomes(strand[t], strand[t], strand[t].state)
    BY FieldTypes DEF Inv, Becomes
  <2>2. strand[t].state \notin Terminal \cup {"New"} /\ "Cancelled" \in Terminal
    BY <1>2, <1>6 DEF IsTerminal, Terminal
  <2>3. ASSUME NEW u \in Tasks, Settling(u)
        PROVE  \E i \in DOMAIN Tail(agenda) :
                 Tail(agenda)[i] = [op |-> "settle", id |-> u]
    <3>1. PICK i \in DOMAIN agenda : agenda[i] = [op |-> "settle", id |-> u]
      BY <2>3 DEF Settling
    <3>2. i # 1
      BY <1>2, <3>1
    <3>3. i - 1 \in DOMAIN Tail(agenda) /\ Tail(agenda)[i - 1] = agenda[i]
      BY <1>2, <3>2
    <3> QED
      BY <3>1, <3>3
  <2>4. /\ SameFamilies /\ AgendaValid' /\ PendingSettles'
        /\ strand' \in [Tasks -> StrandRecord]
        /\ \A u \in Tasks \ {t} : strand'[u] = strand[u]
    BY <1>2, <1>6, <2>1, <2>2, <2>3, FinishOrWaitKeeps, Zenon
  <2>5. HeldKept
    BY <1>6, <2>4, NotHeld, NotHeldKept DEF Inv, NoticesCancel
  <2>6. TypeOK'
    BY <1>6, <2>4, AgendaCallTypes DEF Inv, TypeOK, CancelRest
  <2> QED
    BY <1>1, <2>4, <2>5, <2>6, QuietInv, HeldKeptKeepsWorkers DEF Inv
<1> QED
  BY <1>3, <1>4, <1>5, <1>6 DEF CancelRest
-----------------------------------------------------------------------------
(* The end of a task *)

\* What finalize changes: t ends, and its parent may learn of its failure.
Ends(t) ==
  /\ strand[t].state \notin Terminal \cup {"New"} /\ strand[t].pending # "New"
  /\ strand'[t].state = FinalState(t)
  /\ FinalState(t) \in Terminal
  /\ strand' \in [Tasks -> StrandRecord]
  /\ \A u \in Tasks \ {t} : strand'[u].state = strand[u].state
  /\ \A u \in Tasks : /\ strand'[u].parent = strand[u].parent
                      /\ strand'[u].pending = strand[u].pending
                      /\ strand[u].state = "New" => strand'[u] = strand[u]
                      /\ strand[u].firstError # None => strand'[u].firstError # None
  /\ \A p \in Tasks :
       strand[t].parent = p /\ strand'[t].state = "Failed"
         => strand'[p].firstError # None
  /\ strand'[t].firstError = strand[t].firstError

LEMMA ConcatAssociates ==
  ASSUME NEW S, NEW T, NEW a \in Seq(S), NEW b \in Seq(S), NEW c \in Seq(T)
  PROVE  a \o (b \o c) = (a \o b) \o c
OBVIOUS

LEMMA EndRecord ==
  ASSUME NEW s \in StrandRecord, NEW st \in States, NEW w \in Workers \cup {None},
         NEW a \in BOOLEAN, NEW b \in BOOLEAN
  PROVE  Becomes([s EXCEPT !.state = st, !.worker = w, !.queued = a,
                           !.wakePending = b], s, st)
<1> DEFINE r == [s EXCEPT !.state = st, !.worker = w, !.queued = a, !.wakePending = b]
<1>1. r \in StrandRecord
  BY DEF StrandRecord
<1>2. r.parent = s.parent /\ r.firstError = s.firstError /\ r.pending = s.pending
      /\ r.state = st
  BY DEF StrandRecord
<1> QED
  BY <1>1, <1>2 DEF Becomes

LEMMA FinalStateType ==
  ASSUME TypeOK, NEW t \in Tasks, strand[t].pending # "New"
  PROVE  FinalState(t) \in Terminal
<1>1. strand[t].pending \in Completions
  BY FieldTypes
<1>2. strand[t].pending \in Terminal
  BY <1>1 DEF Completions
<1> QED
  BY <1>2 DEF FinalState, Terminal

LEMMA FinalizeEnds ==
  ASSUME Inv, NEW t \in Tasks, Finalize(t), ~HasActiveChildren(t),
         strand[t].state \notin Terminal \cup {"New"}, strand[t].pending # "New",
         Tail(agenda) \in Seq(ValidCalls)
  PROVE  /\ Ends(t)
         /\ \/ agenda' = Tail(agenda)
            \/ \E new \in Seq(ValidCalls') : agenda' = new \o Tail(agenda)
<1> DEFINE p == strand[t].parent
           final == FinalState(t)
           gone == [strand[t] EXCEPT !.state = final, !.worker = None,
                                     !.queued = FALSE, !.wakePending = FALSE]
           adopt == [op |-> "adopt", id |-> p]
<1>1. strand[t] \in StrandRecord /\ FALSE \in BOOLEAN /\ None \in Workers \cup {None}
      /\ p \in Tasks \cup {None}
  BY FieldTypes, Literals DEF Inv
<1>2. final \in Terminal /\ final \in States
  BY FinalStateType, Literals DEF Inv
<1>3. Becomes(gone, strand[t], final)
  BY <1>1, <1>2, EndRecord, Zenon
<1>4. p \in Tasks => p # t /\ strand[p].state \notin Terminal \cup {"New"}
  <2> SUFFICES ASSUME p \in Tasks PROVE p # t /\ strand[p].state \notin Terminal \cup {"New"}
    OBVIOUS
  <2>1. strand[p].state \notin Terminal
    BY DEF Inv, ChildrenEndFirst, Children, IsTerminal
  <2>2. strand[p].state # "New"
    BY NoneIsNoTask DEF Inv, FamilyExists
  <2>3. p # t
    BY DEF HasActiveChildren, ActiveChildren, Children, IsTerminal
  <2> QED
    BY <2>1, <2>2, <2>3
<1>5. HasLiveParent(t) <=> p \in Tasks
  BY <1>1, <1>4, NoneIsNoTask DEF HasLiveParent, IsTerminal
<1>6. ASSUME strand'[t] = gone, \A u \in Tasks \ {t} : strand'[u] = strand[u],
             strand' \in [Tasks -> StrandRecord],
             p \in Tasks /\ final = "Failed" => strand[p].firstError # None
      PROVE  Ends(t)
  <2> HIDE DEF gone
  <2> QED
    BY <1>2, <1>3, <1>4, <1>6 DEF Ends, Becomes
<1>7. ASSUME p \in Tasks, Ends(t)
      PROVE  adopt \in ValidCalls' /\ <<adopt>> \in Seq(ValidCalls')
  <2>1. adopt \in ValidCalls'
    BY <1>4, <1>7 DEF Ends, ValidCalls, Call
  <2> QED
    BY <2>1
<1>8. CASE ~HasLiveParent(t)
  <2>1. Update(t, gone) /\ agenda' = Tail(agenda)
    BY <1>8 DEF Finalize
  <2> HIDE DEF gone
  <2> QED
    BY <1>3, <1>5, <1>6, <1>8, <2>1, UpdateEffect DEF Inv, Becomes
<1>9. CASE HasLiveParent(t) /\ (final # "Failed" \/ strand[p].firstError # None)
  <2>1. Update(t, gone) /\ agenda' = <<adopt>> \o Tail(agenda)
    BY <1>9 DEF Finalize
  <2> HIDE DEF gone
  <2>2. Ends(t)
    BY <1>3, <1>6, <1>9, <2>1, UpdateEffect DEF Inv, Becomes
  <2> QED
    BY <1>5, <1>7, <1>9, <2>1, <2>2
<1>10. CASE HasLiveParent(t) /\ final = "Failed" /\ strand[p].firstError = None
  <2> DEFINE told == Informed(p, t)
  <2>1. p \in Tasks
    BY <1>5, <1>10
  <2>2. /\ strand[p] \in StrandRecord /\ t \in Tasks \cup {None}
        /\ (strand[p].cancel \/ strand[p].policy = "CancelScope") \in BOOLEAN
    BY <2>1, FieldTypes DEF Inv
  <2>3. Learns(told, strand[p], t)
    BY <2>2, InformedRecord, Zenon DEF Informed
  <2>4. strand' = [strand EXCEPT ![t] = gone, ![p] = told]
    BY <1>10 DEF Finalize
  <2> HIDE DEF gone, told
  <2>5. /\ strand'[t] = gone /\ strand'[p] = told
        /\ \A u \in Tasks \ {t, p} : strand'[u] = strand[u]
        /\ strand' \in [Tasks -> StrandRecord]
    BY <1>3, <1>4, <2>1, <2>3, <2>4 DEF Inv, TypeOK, Becomes, Learns
  <2>6. Ends(t)
    BY <1>2, <1>3, <1>4, <2>1, <2>3, <2>5, NoneIsNoTask DEF Ends, Becomes, Learns
  <2>7. PICK order \in SupervisionOrders(p, t) :
          agenda' = CancelEach(order) \o (<<adopt>> \o Tail(agenda))
    BY <1>10 DEF Finalize
  <2>8. Supervised(p, t) \subseteq ActiveChildren(p)
    <3>1. strand[p].policy \in PolicyNames
      BY <2>2 DEF StrandRecord
    <3> QED
      BY <3>1 DEF Supervised, PolicyNames
  <2>9. \A u \in ActiveChildren(p) : u \in Tasks /\ strand[u].state # "New"
    BY <2>1, ActiveChildrenExist DEF Inv
  <2>10. Supervised(p, t) \in SUBSET Tasks /\ order \in SetToSeqs(Supervised(p, t))
    BY <2>7, <2>8, <2>9 DEF SupervisionOrders
  <2>11. \A u \in Supervised(p, t) : strand'[u].state # "New"
    BY <2>6, <2>8, <2>9 DEF Ends, Terminal
  <2>12. CancelEach(order) \in Seq(ValidCalls')
    BY <2>10, <2>11, CancelEachValid
  <2>13. CancelEach(order) \o <<adopt>> \in Seq(ValidCalls')
    BY <1>7, <2>1, <2>6, <2>12
  <2>14. agenda' = (CancelEach(order) \o <<adopt>>) \o Tail(agenda)
    BY <1>7, <2>1, <2>6, <2>7, <2>12, ConcatAssociates
  <2> QED
    BY <2>6, <2>13, <2>14
<1> QED
  BY <1>8, <1>9, <1>10

\* A strand that ends is the one whose completion was recorded.
LEMMA EndsInv ==
  ASSUME Inv, NEW t \in Tasks, NEW op \in {"settle", "adopt"}, Calling(op, t),
         Finalize(t), ~HasActiveChildren(t), ~IsTerminal(t),
         strand[t].pending # "New",
         UNCHANGED <<queueVars, timerVars, running, threadVars>>
  PROVE  Inv' /\ Ends(t)
<1>1. /\ agenda \in Seq(ValidCalls) /\ agenda # <<>>
      /\ Head(agenda) = [op |-> op, id |-> t]
      /\ Tail(agenda) \in Seq(ValidCalls)
      /\ strand[t].state # "New"
  BY CallFacts
<1>2. /\ Ends(t)
      /\ \/ agenda' = Tail(agenda)
         \/ \E new \in Seq(ValidCalls') : agenda' = new \o Tail(agenda)
  BY <1>1, FinalizeEnds DEF IsTerminal
<1>3. Grows
  BY <1>2 DEF Ends, Grows, Terminal
<1>4. AgendaValid'
  BY <1>1, <1>2, <1>3, CallKeepsAgenda
<1>5. PendingSettles'
  <2> SUFFICES ASSUME NEW u \in Tasks, Unsettled(u)' PROVE Settling(u)'
    BY DEF PendingSettles
  <2>1. u # t
    BY <1>2 DEF Ends, Unsettled
  <2>2. Settling(u)
    BY <1>2, <2>1 DEF Inv, PendingSettles, Unsettled, Ends
  <2>3. Head(agenda) # [op |-> "settle", id |-> u]
    BY <1>1, <2>1
  <2> QED
    BY <1>1, <1>2, <2>2, <2>3, SettlingStays
<1>6. WorkersHoldStrands'
  <2>1. \A w \in Workers : thread[w].cur # t
    BY NotHeld DEF Inv
  <2>2. HeldKept
    BY <1>2, <2>1 DEF HeldKept, Ends
  <2> QED
    BY <2>2, HeldKeptKeepsWorkers DEF Inv
<1>7. finished' \in Nat
  BY DEF Inv, TypeOK, Finalize
<1>8. TypeOK'
  BY <1>2, <1>4, <1>7, AgendaCallTypes DEF Inv, TypeOK, Ends
<1>9. FamilyExists'
  <2> SUFFICES ASSUME NEW u \in Tasks
               PROVE  /\ strand'[u].parent # None =>
                           strand'[strand'[u].parent].state # "New"
                      /\ strand'[u].state = "New" => strand'[u] = NoStrand
    BY DEF FamilyExists
  <2>1. strand[u].parent \in Tasks \cup {None}
    BY FieldTypes DEF Inv
  <2> QED
    BY <1>2, <1>3, <2>1 DEF Inv, FamilyExists, Ends, Grows, Terminal
<1>10. FailuresKnown'
  <2> SUFFICES ASSUME NEW c \in Tasks, strand'[c].parent # None,
                      strand'[c].state = "Failed",
                      strand'[strand'[c].parent].state \notin Terminal
               PROVE  strand'[strand'[c].parent].firstError # None
    BY DEF FailuresKnown, IsTerminal
  <2> DEFINE p == strand[c].parent
  <2>1. p \in Tasks /\ strand'[c].parent = p
    BY <1>2, FieldTypes DEF Inv, Ends
  <2>2. p # t /\ strand[p].state \notin Terminal
    BY <1>2, <2>1 DEF Ends
  <2>3. CASE c = t
    BY <1>2, <2>1, <2>3 DEF Ends
  <2>4. CASE c # t
    BY <1>2, <2>1, <2>2, <2>4, NoneIsNoTask DEF Inv, FailuresKnown, Ends, IsTerminal
  <2> QED
    BY <2>3, <2>4
<1>11. ChildrenEndFirst'
  <2> SUFFICES ASSUME NEW u \in Tasks, NEW c \in Tasks, strand'[c].parent = u,
                      strand'[u].state \in Terminal
               PROVE  strand'[c].state \in Terminal
    BY DEF ChildrenEndFirst, Children, IsTerminal
  <2>1. strand[c].parent = u
    BY <1>2 DEF Ends
  <2>2. strand[c].state \in Terminal \/ c = t
    BY <1>2, <2>1 DEF Inv, ChildrenEndFirst, Children, IsTerminal, Ends,
      HasActiveChildren, ActiveChildren
  <2> QED
    BY <1>2, <2>2 DEF Ends
<1>12. ChildFailureReachesParent'
  <2> SUFFICES ASSUME NEW c \in Tasks, NEW p \in Tasks, strand'[c].parent = p,
                      strand'[c].state = "Failed", strand'[p].state \in Terminal
               PROVE  strand'[p].state = "Failed"
    BY <1>2, FieldTypes DEF Inv, Ends, ChildFailureReachesParent, IsTerminal
  <2>1. strand[c].parent = p
    BY <1>2 DEF Ends
  <2>2. CASE p = t
    <3>1. c # t
      BY <2>1, <2>2 DEF HasActiveChildren, ActiveChildren, Children
    <3>2. strand[c].state = "Failed"
      BY <1>2, <3>1 DEF Ends
    <3>3. strand[t].firstError # None
      BY <2>1, <2>2, <3>2, NoneIsNoTask DEF Inv, FailuresKnown
    <3> QED
      BY <1>2, <2>2, <3>3 DEF Ends, FinalState
  <2>3. CASE p # t
    <3>1. strand[p].state \in Terminal /\ strand'[p].state = strand[p].state
      BY <1>2, <2>3 DEF Ends
    <3>2. c # t
      BY <2>1, <3>1 DEF Inv, ChildrenEndFirst, Children, IsTerminal
    <3> QED
      BY <1>2, <2>1, <3>1, <3>2, NoneIsNoTask
      DEF Ends, Inv, ChildFailureReachesParent, IsTerminal
  <2> QED
    BY <2>2, <2>3
<1> QED
  BY <1>2, <1>4, <1>5, <1>6, <1>8, <1>9, <1>10, <1>11, <1>12 DEF Inv

\* What a step is to an observer of the tasks: nothing, the end of a task that
\* has no active child, or the beginning of a task.
EndsOne == \E t \in Tasks : Ends(t) /\ ~HasActiveChildren(t)

LEMMA SettleInv ==
  ASSUME Inv, NEW t \in Tasks, Settle(t)
  PROVE  Inv' /\ (SameFamilies \/ EndsOne)
<1>1. Calling("settle", t)
  BY DEF Settle
<1>2. /\ agenda \in Seq(ValidCalls) /\ agenda # <<>>
      /\ Head(agenda) = [op |-> "settle", id |-> t]
      /\ strand[t].state # "New" /\ strand[t].pending # "New"
  BY <1>1, CallFacts
<1>3. ASSUME Quiet, HeldKept, strand'[t].state \in Terminal \cup {"Waiting"},
             agenda' = Tail(agenda), agenda' \in Seq(Call) => TypeOK',
             UNCHANGED thread
      PROVE  Inv' /\ SameFamilies
  <2>1. AgendaValid'
    BY <1>2, <1>3, CallKeepsAgenda, QuietGrows
  <2>2. PendingSettles'
    <3> SUFFICES ASSUME NEW u \in Tasks, Unsettled(u)' PROVE Settling(u)'
      BY DEF PendingSettles
    <3>1. u # t
      BY <1>3 DEF Unsettled
    <3>2. Settling(u)
      BY <1>3 DEF Inv, PendingSettles, Quiet, SamePending
    <3>3. Head(agenda) # [op |-> "settle", id |-> u]
      BY <1>2, <3>1
    <3> QED
      BY <1>2, <1>3, <3>2, <3>3, SettlingStays
  <2>3. TypeOK'
    BY <1>3, <2>1, AgendaCallTypes
  <2> QED
    BY <1>3, <2>1, <2>2, <2>3, QuietInv, HeldKeptKeepsWorkers DEF Inv, Quiet
<1>4. CASE /\ HasActiveChildren(t)
           /\ Update(t, [strand[t] EXCEPT !.state = "Waiting", !.worker = None])
           /\ agenda' = Tail(agenda) /\ UNCHANGED finished
  <2> DEFINE r == [strand[t] EXCEPT !.state = "Waiting", !.worker = None]
  <2>1. /\ strand[t] \in StrandRecord /\ "Waiting" \in States
        /\ None \in Workers \cup {None}
    BY FieldTypes, Literals DEF Inv
  <2>2. Becomes(r, strand[t], "Waiting")
    BY <2>1, PlaceRecord, Zenon
  <2>3. Update(t, r)
    BY <1>4
  <2> HIDE DEF r
  <2>4. /\ strand' \in [Tasks -> StrandRecord] /\ strand'[t] = r
        /\ \A u \in Tasks \ {t} : strand'[u] = strand[u]
    BY <2>2, <2>3, UpdateEffect DEF Inv, Becomes
  <2>5. strand[t].state \notin Terminal
    BY <1>4 DEF Inv, ChildrenEndFirst, HasActiveChildren, ActiveChildren, IsTerminal
  <2>6. Quiet
    BY <1>2, <2>2, <2>4, <2>5
    DEF Quiet, SameFamilies, SamePending, Unsettled, Becomes, IsTerminal, Terminal
  <2>7. HeldKept
    BY <1>2, <2>4, NotHeld, NotHeldKept DEF Inv
  <2>8. agenda' \in Seq(Call) => TypeOK'
    BY <1>4, <2>4 DEF Inv, TypeOK, Settle
  <2> QED
    BY <1>3, <1>4, <2>2, <2>4, <2>6, <2>7, <2>8 DEF Settle, Becomes
<1>5. CASE IsTerminal(t) /\ agenda' = Tail(agenda) /\ UNCHANGED <<strand, finished>>
  <2>1. agenda' \in Seq(Call) => TypeOK'
    BY <1>5 DEF Inv, TypeOK, Settle
  <2> QED
    BY <1>3, <1>5, <2>1, UnchangedStrands DEF Settle, IsTerminal
<1>6. CASE ~HasActiveChildren(t) /\ ~IsTerminal(t) /\ Finalize(t)
  BY <1>1, <1>2, <1>6, EndsInv DEF Settle, EndsOne
<1> QED
  BY <1>4, <1>5, <1>6 DEF Settle

LEMMA AdoptInv ==
  ASSUME Inv, NEW p \in Tasks, Adopt(p)
  PROVE  Inv' /\ (SameFamilies \/ EndsOne)
<1>1. Calling("adopt", p) /\ UNCHANGED thread
  BY DEF Adopt
<1>2. CASE agenda' = Tail(agenda) /\ UNCHANGED <<strand, finished>>
  <2>1. agenda' \in Seq(Call) => TypeOK'
    BY <1>2 DEF Inv, TypeOK, Adopt
  <2> QED
    BY <1>1, <1>2, <2>1, CallQuietInv, UnchangedStrands
<1>3. CASE ChildrenAwaited(p) /\ Finalize(p)
  BY <1>1, <1>3, EndsInv DEF Adopt, ChildrenAwaited, IsTerminal, Terminal, EndsOne
<1> QED
  BY <1>2, <1>3 DEF Adopt
-----------------------------------------------------------------------------
(* Joining *)

\* A worker goes from the body of a strand to join_task, or back.
SwapsWith(w, s, p) ==
  /\ thread'[w].cur = thread[w].cur
  /\ thread'[w].pc = p
  /\ strand' \in [Tasks -> StrandRecord]
  /\ Becomes(strand'[thread[w].cur], strand[thread[w].cur], s)
  /\ \A u \in Tasks \ {thread[w].cur} : strand'[u] = strand[u]
  /\ \A x \in Threads \ {w} : thread'[x] = thread[x]

LEMMA SwapKeeps ==
  ASSUME Inv, NEW w \in Workers, NEW s, NEW p, thread[w].cur \in Tasks,
         SwapsWith(w, s, p),
         \/ s = "Waiting" /\ p = "join"
         \/ s = "Running" /\ p = "body"
  PROVE  Quiet /\ WorkersHoldStrands'
<1> DEFINE t == thread[w].cur
<1>1. strand[t].state \in {"Running", "Waiting"} /\ strand[t].pending = "New"
  BY HeldStates DEF Inv
<1>2. Quiet
  BY <1>1 DEF SwapsWith, Quiet, SameFamilies, SamePending, Unsettled, Becomes,
    IsTerminal, Terminal
<1>3. \A v \in Workers \ {w} : thread[v].cur \in Tasks =>
         strand'[thread[v].cur] = strand[thread[v].cur]
  BY NoneIsNoTask DEF Inv, WorkersHoldStrands, SwapsWith
<1>4. w \in Threads /\ {"join", "body"} \subseteq WorkerPlaces /\ Workers \subseteq Threads
      /\ Hosts \subseteq Threads
  BY DEF Threads, WorkerPlaces
<1>5. \A v \in Workers \ {w} : thread'[v] = thread[v]
  BY <1>4 DEF SwapsWith
<1>6. \A h \in Hosts : thread'[h] = thread[h]
  BY <1>4, ThreadsDistinct DEF SwapsWith
<1>7. /\ thread'[w].cur = t /\ thread'[w].pc = p
      /\ strand'[t].state = s /\ strand'[t].pending = "New"
  BY <1>1 DEF SwapsWith, Becomes
<1>8. WorkersHoldStrands'
  BY <1>3, <1>4, <1>5, <1>6, <1>7, NoneIsNoTask DEF Inv, WorkersHoldStrands
<1> QED
  BY <1>2, <1>8

LEMMA TaskJoinInv ==
  ASSUME Inv, NEW w \in Workers, NEW target \in Tasks, NEW timed \in BOOLEAN,
         TaskJoin(w, target, timed)
  PROVE  Inv' /\ SameFamilies
<1> DEFINE t == thread[w].cur
           r == [strand[t] EXCEPT !.state = "Waiting", !.worker = None]
<1>1. t \in Tasks
  BY DEF Inv, WorkersHoldStrands, TaskJoin, CanJoin, InBody
<1>2. /\ strand[t] \in StrandRecord /\ "Waiting" \in States
      /\ None \in Workers \cup {None}
  BY <1>1, FieldTypes, Literals DEF Inv
<1>3. Becomes(r, strand[t], "Waiting")
  BY <1>2, PlaceRecord, Zenon
<1>4. Update(t, r)
  BY DEF TaskJoin
<1>5. w \in Threads /\ "join" \in WorkerPlaces
  BY DEF Threads, WorkerPlaces
<1> HIDE DEF r
<1>6. thread' \in [Threads -> ThreadRecord]
  BY <1>5 DEF Inv, TypeOK, ThreadRecord, TaskJoin, Joining
<1>7. thread'[w].cur = t /\ thread'[w].pc = "join"
      /\ \A x \in Threads \ {w} : thread'[x] = thread[x]
  BY <1>5 DEF Inv, TypeOK, ThreadRecord, TaskJoin, Joining
<1>8. SwapsWith(w, "Waiting", "join")
  BY <1>1, <1>3, <1>4, <1>7, UpdateEffect DEF Inv, SwapsWith, Becomes
<1>9. Quiet /\ WorkersHoldStrands'
  BY <1>1, <1>8, SwapKeeps
<1>10. running' \in Nat /\ waiters' \in SUBSET Threads
  BY <1>5 DEF Inv, TypeOK, TaskJoin, Decrement
<1>11. TypeOK'
  BY <1>6, <1>8, <1>10 DEF Inv, TypeOK, TaskJoin, SwapsWith
<1> QED
  BY <1>9, <1>11, MutexFreeInv DEF TaskJoin

LEMMA JoinReturnInv ==
  ASSUME Inv, NEW th \in Threads, thread[th].pc = "join", JoinReturn(th)
  PROVE  Inv' /\ SameFamilies
<1> DEFINE t == thread[th].cur
           r == [strand[t] EXCEPT !.state = "Running", !.worker = th]
<1>1. CASE th \in Hosts
  <2>1. t = None
    BY <1>1 DEF Inv, WorkersHoldStrands
  <2>2. "free" \in HostPlaces
    BY DEF HostPlaces
  <2>3. thread' = [thread EXCEPT ![th] =
                     [@ EXCEPT !.pc = "free", !.target = None, !.timed = FALSE]]
    BY <2>1 DEF JoinReturn, Caller
  <2>4. thread' \in [Threads -> ThreadRecord]
    BY <2>2, <2>3 DEF Inv, TypeOK, ThreadRecord
  <2>5. Moves
    BY <1>1, <2>2, <2>3 DEF Inv, TypeOK, ThreadRecord, Moves
  <2>6. UNCHANGED <<strand, running>>
    BY <2>1 DEF JoinReturn, Caller
  <2>7. TypeOK'
    BY <2>4, <2>6 DEF Inv, TypeOK, JoinReturn
  <2> QED
    BY <2>5, <2>6, <2>7, MovesInv DEF JoinReturn
<1>2. CASE th \in Workers
  <2>1. t \in Tasks /\ t # None /\ strand[t].state = "Waiting"
    BY <1>2, NoneIsNoTask DEF Inv, WorkersHoldStrands
  <2>2. /\ strand[t] \in StrandRecord /\ "Running" \in States
        /\ th \in Workers \cup {None}
    BY <1>2, <2>1, FieldTypes, Literals DEF Inv
  <2>3. Becomes(r, strand[t], "Running")
    BY <2>2, PlaceRecord, Zenon
  <2>4. Update(t, r) /\ running' = running + 1
    BY <2>1 DEF JoinReturn, Caller
  <2> HIDE DEF r
  <2>5. "body" \in WorkerPlaces
    BY DEF WorkerPlaces
  <2>6. thread' = [thread EXCEPT ![th] =
                     [@ EXCEPT !.pc = "body", !.target = None, !.timed = FALSE]]
    BY <2>1 DEF JoinReturn, Caller
  <2>7. thread' \in [Threads -> ThreadRecord]
    BY <2>5, <2>6 DEF Inv, TypeOK, ThreadRecord
  <2>8. thread'[th].cur = t /\ thread'[th].pc = "body"
        /\ \A x \in Threads \ {th} : thread'[x] = thread[x]
    BY <2>6 DEF Inv, TypeOK, ThreadRecord
  <2>9. SwapsWith(th, "Running", "body")
    BY <2>1, <2>3, <2>4, <2>8, UpdateEffect DEF Inv, SwapsWith, Becomes
  <2>10. Quiet /\ WorkersHoldStrands'
    BY <1>2, <2>1, <2>9, SwapKeeps
  <2>11. running' \in Nat /\ waiters' \in SUBSET Threads
    BY <2>4 DEF Inv, TypeOK, JoinReturn
  <2>12. TypeOK'
    BY <2>7, <2>9, <2>11 DEF Inv, TypeOK, JoinReturn, SwapsWith
  <2> QED
    BY <2>10, <2>12, MutexFreeInv DEF JoinReturn
<1> QED
  BY <1>1, <1>2 DEF Threads

LEMMA JoinWakeInv ==
  ASSUME Inv, NEW th \in Threads, JoinWake(th) PROVE Inv' /\ SameFamilies
<1>1. CASE JoinReturn(th)
  BY <1>1, JoinReturnInv DEF JoinWake
<1>2. CASE /\ waiters' = waiters \cup {th}
           /\ UNCHANGED <<strand, queueVars, timerVars, running, finished, thread,
                          stopping, agenda>>
  <2>1. TypeOK'
    BY <1>2 DEF Inv, TypeOK
  <2> QED
    BY <1>2, <2>1, StillKeeps
<1> QED
  BY <1>1, <1>2 DEF JoinWake

LEMMA JoinTimeoutInv ==
  ASSUME Inv, NEW th \in Threads, JoinTimeout(th) PROVE Inv' /\ SameFamilies
BY JoinReturnInv DEF JoinTimeout
-----------------------------------------------------------------------------
(* Spawning *)

\* A task begins under an active parent, or under none.
Begins(t, p) ==
  /\ strand[t].state = "New" /\ strand'[t].state \notin Terminal \cup {"New"}
  /\ p # None => p # t /\ strand[p].state \notin Terminal \cup {"New"}
  /\ strand' \in [Tasks -> StrandRecord]
  /\ strand'[t].parent = p /\ strand'[t].pending = "New"
  /\ strand'[t].firstError = None
  /\ \A u \in Tasks \ {t} :
       /\ strand'[u].state = strand[u].state /\ strand'[u].parent = strand[u].parent
       /\ strand'[u].pending = strand[u].pending
       /\ strand'[u].firstError = strand[u].firstError
  /\ \A u \in Tasks \ {t, p} : strand'[u] = strand[u]

LEMMA BeginsInv ==
  ASSUME Inv, NEW t \in Tasks, NEW p \in Tasks \cup {None}, Begins(t, p),
         strand' \in [Tasks -> StrandRecord] => TypeOK',
         UNCHANGED <<thread, agenda>>
  PROVE  Inv'
<1>1. TypeOK'
  BY DEF Begins
<1>2. \A u \in Tasks : strand[u].parent # t
  BY NoneIsNoTask DEF Inv, FamilyExists, Begins
<1>3. strand[t] = NoStrand
  BY DEF Inv, FamilyExists, Begins
<1>4. Grows
  BY <1>3 DEF Grows, Begins, NoStrand
<1>5. AgendaValid'
  BY <1>4, QuietKeepsAgenda DEF Inv
<1>6. PendingSettles'
  BY DEF Inv, PendingSettles, Unsettled, Settling, Begins
<1>7. WorkersHoldStrands'
  <2>1. HeldKept
    BY HeldStates DEF Inv, HeldKept, Begins
  <2> QED
    BY <2>1, HeldKeptKeepsWorkers DEF Inv
<1>8. FamilyExists'
  <2> SUFFICES ASSUME NEW u \in Tasks
               PROVE  /\ strand'[u].parent # None =>
                           strand'[strand'[u].parent].state # "New"
                      /\ strand'[u].state = "New" => strand'[u] = NoStrand
    BY DEF FamilyExists
  <2>1. CASE u = t
    BY <2>1 DEF Begins
  <2>2. CASE u # t
    <3>1. strand[u].parent \in Tasks \cup {None} /\ strand[u].parent # t
      BY <1>2, FieldTypes DEF Inv
    <3>2. strand'[u].parent # None => strand'[strand'[u].parent].state # "New"
      BY <2>2, <3>1 DEF Begins, Inv, FamilyExists
    <3>3. strand'[u].state = "New" => strand'[u] = NoStrand
      BY <2>2, NoneIsNoTask DEF Begins, Inv, FamilyExists
    <3> QED
      BY <3>2, <3>3
  <2> QED
    BY <2>1, <2>2
<1>9. FailuresKnown'
  <2> SUFFICES ASSUME NEW c \in Tasks, strand'[c].parent # None,
                      strand'[c].state = "Failed",
                      strand'[strand'[c].parent].state \notin Terminal
               PROVE  strand'[strand'[c].parent].firstError # None
    BY DEF FailuresKnown, IsTerminal
  <2>1. c # t
    BY DEF Begins, Terminal
  <2>2. strand[c].parent \in Tasks \ {t}
    BY <1>2, <2>1, FieldTypes DEF Inv, Begins
  <2> QED
    BY <2>1, <2>2 DEF Inv, FailuresKnown, IsTerminal, Begins
<1>10. ChildrenEndFirst'
  <2> SUFFICES ASSUME NEW u \in Tasks, NEW c \in Tasks, strand'[c].parent = u,
                      strand'[u].state \in Terminal
               PROVE  strand'[c].state \in Terminal
    BY DEF ChildrenEndFirst, Children, IsTerminal
  <2>1. u # t /\ strand[u].state \in Terminal
    BY DEF Begins
  <2>2. c # t
    BY <2>1, NoneIsNoTask DEF Begins
  <2> QED
    BY <2>1, <2>2 DEF Begins, Inv, ChildrenEndFirst, Children, IsTerminal
<1>11. ChildFailureReachesParent'
  <2> SUFFICES ASSUME NEW c \in Tasks, NEW u \in Tasks, strand'[c].parent = u,
                      strand'[c].state = "Failed", strand'[u].state \in Terminal
               PROVE  strand'[u].state = "Failed"
    BY FieldTypes DEF Inv, Begins, ChildFailureReachesParent, IsTerminal, StrandRecord
  <2>1. u # t /\ c # t
    BY DEF Begins, Terminal
  <2> QED
    BY <2>1, NoneIsNoTask DEF Begins, Inv, ChildFailureReachesParent, IsTerminal
<1> QED
  BY <1>1, <1>5, <1>6, <1>7, <1>8, <1>9, <1>10, <1>11 DEF Inv

\* A record that a strand may begin with.
Fresh(r, p) ==
  /\ r \in StrandRecord /\ r.state \notin Terminal \cup {"New"} /\ r.parent = p
  /\ r.pending = "New" /\ r.firstError = None

LEMMA PlantedRecord ==
  ASSUME NEW s \in StrandRecord, s.pending = "New", s.firstError = None,
         NEW p \in Tasks \cup {None}
  PROVE  Fresh([s EXCEPT !.state = "Runnable", !.queued = TRUE, !.parent = p], p)
<1> DEFINE r == [s EXCEPT !.state = "Runnable", !.queued = TRUE, !.parent = p]
<1>1. r \in StrandRecord
  BY DEF StrandRecord, States
<1>2. r.parent = p /\ r.firstError = None /\ r.pending = "New" /\ r.state = "Runnable"
  BY DEF StrandRecord
<1> QED
  BY <1>1, <1>2 DEF Fresh, Terminal

LEMMA ChosenRecord ==
  ASSUME NEW s, NEW p, Fresh(s, p), NEW c \in BOOLEAN, NEW policy \in PolicyNames,
         NEW resumable \in BOOLEAN
  PROVE  Fresh([s EXCEPT !.cancel = c, !.policy = policy, !.resumable = resumable], p)
<1>1. Fresh([s EXCEPT !.cancel = c], p)
  BY DEF StrandRecord, Fresh
<1>2. ASSUME NEW r, Fresh(r, p)
      PROVE  Fresh([r EXCEPT !.policy = policy], p)
  BY <1>2 DEF StrandRecord, Fresh
<1>3. ASSUME NEW r, Fresh(r, p)
      PROVE  Fresh([r EXCEPT !.resumable = resumable], p)
  BY <1>3 DEF StrandRecord, Fresh
<1>4. Fresh([[[s EXCEPT !.cancel = c] EXCEPT !.policy = policy]
               EXCEPT !.resumable = resumable], p)
  BY <1>1, <1>2, <1>3, Zenon
<1> QED
  BY <1>4

LEMMA FreshStrandIsFresh ==
  ASSUME TypeOK, NEW parent \in Tasks \cup {None}, NEW policy \in PolicyNames,
         NEW resumable \in BOOLEAN
  PROVE  Fresh(FreshStrand(parent, policy, resumable), parent)
<1> DEFINE c == IF parent = None THEN FALSE ELSE strand[parent].cancel
           a == [NoStrand EXCEPT !.state = "Runnable", !.queued = TRUE,
                                 !.parent = parent]
<1>1. c \in BOOLEAN
  BY FieldTypes
<1>2. NoStrand \in StrandRecord /\ NoStrand.pending = "New" /\ NoStrand.firstError = None
  BY NoStrandType DEF NoStrand
<1>3. Fresh(a, parent)
  BY <1>2, PlantedRecord, Zenon
<1>4. FreshStrand(parent, policy, resumable) =
        [a EXCEPT !.cancel = c, !.policy = policy, !.resumable = resumable]
  BY DEF FreshStrand
<1> HIDE DEF a, c
<1>5. Fresh([a EXCEPT !.cancel = c, !.policy = policy, !.resumable = resumable], parent)
  BY <1>1, <1>3, ChosenRecord, Zenon
<1> QED
  BY <1>4, <1>5

LEMMA DelayedRecord ==
  ASSUME NEW s, NEW p, Fresh(s, p)
  PROVE  Fresh([s EXCEPT !.state = "Sleeping", !.queued = FALSE, !.gen = 1], p)
<1> DEFINE r == [s EXCEPT !.state = "Sleeping", !.queued = FALSE, !.gen = 1]
<1>1. s \in StrandRecord
  BY DEF Fresh
<1>2. r \in StrandRecord
  BY <1>1, Literals DEF StrandRecord, States
<1>3. r.parent = s.parent /\ r.firstError = s.firstError /\ r.pending = s.pending
      /\ r.state = "Sleeping"
  BY <1>1 DEF StrandRecord
<1> QED
  BY <1>2, <1>3 DEF Fresh, Terminal

LEMMA RecordBegins ==
  ASSUME Inv, NEW t \in Tasks, NEW p \in Tasks \cup {None}, NEW new,
         Fresh(new, p), Record(t, p, new), strand[t].state = "New",
         p # None => strand[p].state \notin Terminal \cup {"New"}
  PROVE  Begins(t, p)
<1>1. strand'[t] = new /\ (p # None => p # t)
  BY DEF Record
<1>2. ASSUME p \in Tasks
      PROVE  Becomes(strand'[p], strand[p], strand[p].state)
  <2> DEFINE o == Append(strand[p].order, t)
  <2>1. strand[p] \in StrandRecord /\ strand[p].order \in Seq(Tasks)
    BY <1>2, FieldTypes DEF Inv
  <2>2. o \in Seq(Tasks)
    BY <2>1
  <2>3. strand'[p] = [strand[p] EXCEPT !.order = o]
    BY <1>1, <1>2, NoneIsNoTask DEF Record
  <2> HIDE DEF o
  <2>4. Becomes([strand[p] EXCEPT !.order = o], strand[p], strand[p].state)
    BY <2>1, <2>2, OrderRecord, Zenon
  <2> QED
    BY <2>3, <2>4
<1>3. \A u \in Tasks \ {t, p} : strand'[u] = strand[u]
  BY DEF Record
<1>4. \A u \in Tasks : strand'[u] \in StrandRecord
  BY <1>1, <1>2, <1>3, FieldTypes DEF Fresh, Becomes, Inv
<1>5. strand' \in [Tasks -> StrandRecord]
  BY <1>4 DEF Record
<1> QED
  BY <1>1, <1>2, <1>3, <1>5, NoneIsNoTask DEF Begins, Fresh, Becomes

LEMMA SpawnInv ==
  ASSUME Inv, NEW t \in Tasks, NEW p \in Tasks \cup {None}, SpawnAny(t, p),
         p # None => strand[p].state \notin Terminal \cup {"New"}
  PROVE  Inv' /\ Begins(t, p)
<1>1. PICK policy \in Policies, resumable \in Resumable :
        \/ Spawn(t, p, policy, resumable)
        \/ SpawnSleeping(t, p, policy, resumable)
  BY DEF SpawnAny
<1>2. policy \in PolicyNames /\ resumable \in BOOLEAN
  BY PoliciesKnown, ResumableKnown
<1>3. Fresh(FreshStrand(p, policy, resumable), p)
  BY <1>2, FreshStrandIsFresh DEF Inv
<1>4. waiters' \in SUBSET Threads
  BY <1>1 DEF Inv, TypeOK, Spawn, SpawnSleeping, NotifyOne
<1>5. UNCHANGED <<thread, agenda>> /\ strand[t].state = "New"
  BY <1>1 DEF Spawn, SpawnSleeping
<1>6. CASE Spawn(t, p, policy, resumable)
  <2>1. Begins(t, p)
    BY <1>3, <1>5, <1>6, RecordBegins DEF Spawn
  <2>2. globalq' \in Seq(Tasks)
    BY <1>6 DEF Inv, TypeOK, Spawn
  <2>3. strand' \in [Tasks -> StrandRecord] => TypeOK'
    BY <1>4, <1>6, <2>2 DEF Inv, TypeOK, Spawn
  <2> QED
    BY <1>5, <2>1, <2>3, BeginsInv
<1>7. CASE SpawnSleeping(t, p, policy, resumable)
  <2> DEFINE new == [FreshStrand(p, policy, resumable) EXCEPT
                       !.state = "Sleeping", !.queued = FALSE, !.gen = 1]
  <2>1. Fresh(new, p)
    BY <1>3, DelayedRecord, Zenon
  <2>2. Record(t, p, new)
    BY <1>7 DEF SpawnSleeping
  <2> HIDE DEF new
  <2>3. Begins(t, p)
    BY <1>5, <2>1, <2>2, RecordBegins
  <2>4. timers' \in SUBSET TimerEntry /\ due \in SUBSET timers'
    BY <1>7 DEF Inv, TypeOK, SpawnSleeping, TimerEntry
  <2>5. strand' \in [Tasks -> StrandRecord] => TypeOK'
    BY <1>4, <1>7, <2>4 DEF Inv, TypeOK, SpawnSleeping
  <2> QED
    BY <1>5, <2>3, <2>5, BeginsInv
<1> QED
  BY <1>1, <1>6, <1>7

BeginsOne == \E t \in Tasks, p \in Tasks \cup {None} : Begins(t, p)

LEMMA HostSpawnInv == ASSUME Inv, HostSpawn PROVE Inv' /\ BeginsOne
BY SpawnInv DEF HostSpawn, BeginsOne

LEMMA TaskSpawnInv ==
  ASSUME Inv, NEW w \in Workers, TaskSpawn(w) PROVE Inv' /\ BeginsOne
<1>1. /\ thread[w].cur \in Tasks
      /\ strand[thread[w].cur].state = "Running"
  BY DEF Inv, WorkersHoldStrands, TaskSpawn, InBody
<1> QED
  BY <1>1, SpawnInv DEF TaskSpawn, Terminal, BeginsOne
-----------------------------------------------------------------------------
\* Every step keeps the invariant, and begins one task, ends one, or neither.
Visible == SameFamilies \/ EndsOne \/ BeginsOne

LEMMA NextInv == Inv /\ [Next]_vars => Inv' /\ Visible
<1> USE DEF Visible
<1> SUFFICES ASSUME Inv, [Next]_vars PROVE Inv' /\ Visible
  OBVIOUS
<1>1. CASE UNCHANGED vars
  <2>1. TypeOK'
    BY <1>1 DEF Inv, TypeOK, vars
  <2> QED
    BY <1>1, <2>1, StillKeeps DEF vars
<1>2. CASE Calls
  BY <1>2, RunLocalInv, RunGlobalInv, BlockInv, CallCancelInv, CancelRestInv,
    SettleInv, AdoptInv, CancelNotifyInv DEF Calls
<1>3. ASSUME NEW w \in Workers, WorkerStep(w) PROVE Inv' /\ Visible
  BY <1>3, ScanInv, ExitInv, ReturnParkedInv, NotifyAfterInv, ReturnFinishedInv
  DEF WorkerStep
<1>4. ASSUME NEW w \in Workers, Body(w) PROVE Inv' /\ Visible
  BY <1>4, TaskSpawnInv, ParkCurrentInv, TaskJoinAtOnceInv, TaskJoinInv DEF Body
<1>5. ASSUME NEW th \in Threads, JoinWake(th) \/ JoinTimeout(th) \/ WakeUp(th)
      PROVE  Inv' /\ Visible
  BY <1>5, JoinWakeInv, JoinTimeoutInv, WakeUpInv
<1>6. ASSUME NEW t \in Tasks, NEW to \in WakeTargets,
             WakeParking(t, to) \/ WakeSleeping(t, to)
      PROVE  Inv' /\ Visible
  BY <1>6, WakeParkingInv, WakeSleepingInv
<1> QED
  BY <1>1, <1>2, <1>3, <1>4, <1>5, <1>6, HostInv, HostSpawnInv, CancelTaskInv,
    ExpireInv DEF Next

LEMMA AlwaysInv == Spec => []Inv
BY InitInv, NextInv, PTL DEF Spec

\* The records, queues, timers, counters and threads of the scheduler, and the
\* calls that the holder of the mutex has still to make, keep their types.
THEOREM TypesKept == Spec => []TypeOK
<1>1. Inv => TypeOK
  BY DEF Inv
<1> QED
  BY <1>1, AlwaysInv, PTL

\* Structured concurrency: whatever is spawned, cancelled, parked, joined or
\* failing, no task of the scheduler ends before its children.
THEOREM TasksEndAfterChildren == Spec => []ChildrenEndFirst
<1>1. Inv => ChildrenEndFirst
  BY DEF Inv
<1> QED
  BY <1>1, AlwaysInv, PTL

\* The failure of a child is never lost: its parent ends Failed, whatever its own
\* completion was, whatever its policy and whoever was cancelled.
THEOREM FailuresPropagate == Spec => []ChildFailureReachesParent
<1>1. Inv => ChildFailureReachesParent
  BY DEF Inv
<1> QED
  BY <1>1, AlwaysInv, PTL
-----------------------------------------------------------------------------
(* The scheduler implements TaskLifecycle *)

USE DEF vars
LEMMA StatusOf ==
  \A t \in Tasks :
    /\ Status(t) = "absent" <=> strand[t].state = "New"
    /\ Status(t) \in Terminal <=> strand[t].state \in Terminal
    /\ strand[t].state \in Terminal => Status(t) = strand[t].state
    /\ Status(t) = "active" <=> strand[t].state \notin Terminal \cup {"New"}
BY DEF Status, IsTerminal, Terminal

\* A step that begins no task and ends none is a stutter.
LEMMA QuietIsStutter ==
  ASSUME SameFamilies PROVE UNCHANGED Lifecycle!vars
<1>1. \A t \in Tasks : Status(t)' = Status(t) /\ strand'[t].parent = strand[t].parent
  BY DEF SameFamilies, Status, IsTerminal, Terminal
<1> QED
  BY <1>1 DEF Lifecycle!vars

LEMMA BeginsIsCreate ==
  ASSUME NEW t \in Tasks, NEW p \in Tasks \cup {None}, Begins(t, p)
  PROVE  Lifecycle!Create(t, p)
<1>1. Status(t) = "absent" /\ Status(t)' = "active"
  BY DEF Begins, Status, IsTerminal, Terminal
<1>2. p # None => p \in Tasks /\ Status(p) = "active"
  BY DEF Begins, Status, IsTerminal
<1>3. \A u \in Tasks \ {t} : Status(u)' = Status(u) /\ strand'[u].parent = strand[u].parent
  BY DEF Begins, Status, IsTerminal, Terminal
<1>4. strand'[t].parent = p
  BY DEF Begins
<1> QED
  BY <1>1, <1>2, <1>3, <1>4 DEF Lifecycle!Create

LEMMA EndsIsEnd ==
  ASSUME Inv, NEW t \in Tasks, Ends(t), ~HasActiveChildren(t)
  PROVE  Lifecycle!End(t, FinalState(t))
<1>1. Status(t) = "active" /\ Status(t)' = FinalState(t)
  BY DEF Ends, Status, IsTerminal, Terminal
<1>2. \A u \in Tasks \ {t} : Status(u)' = Status(u)
  BY DEF Ends, Status, IsTerminal, Terminal
<1>3. \A u \in Tasks : strand'[u].parent = strand[u].parent
  BY DEF Ends
<1>4. ASSUME NEW c \in Tasks, strand[c].parent = t
      PROVE  /\ Status(c) # "active"
             /\ Status(c) = "Failed" => FinalState(t) = "Failed"
  <2>1. strand[c].state \in Terminal
    BY <1>4 DEF HasActiveChildren, ActiveChildren, Children, IsTerminal
  <2>2. strand[c].state = "Failed" => strand[t].firstError # None
    BY <1>4, NoneIsNoTask DEF Inv, FailuresKnown, Ends, IsTerminal
  <2> QED
    BY <2>1, <2>2 DEF Status, IsTerminal, Terminal, FinalState
<1> QED
  BY <1>1, <1>2, <1>3, <1>4 DEF Lifecycle!End

LEMMA InitIsInit == Init => Lifecycle!Init
<1> SUFFICES ASSUME Init PROVE Lifecycle!Init
  OBVIOUS
<1>1. \A t \in Tasks : strand[t].state = "New" /\ strand[t].parent = None
  BY DEF Init, NoStrand
<1>2. \A t \in Tasks : Status(t) = "absent"
  BY <1>1 DEF Status, IsTerminal, Terminal
<1> QED
  BY <1>1, <1>2 DEF Lifecycle!Init

LEMMA VisibleIsLifecycle ==
  ASSUME Inv, Visible PROVE [Lifecycle!Next]_(Lifecycle!vars)
<1>1. CASE SameFamilies
  BY <1>1, QuietIsStutter
<1>2. CASE EndsOne
  <2>1. PICK t \in Tasks : Ends(t) /\ ~HasActiveChildren(t)
    BY <1>2 DEF EndsOne
  <2>2. Lifecycle!End(t, FinalState(t)) /\ FinalState(t) \in Lifecycle!Outcomes
    BY <2>1, EndsIsEnd DEF Ends, Terminal, Lifecycle!Outcomes
  <2> QED
    BY <2>2 DEF Lifecycle!Next
<1>3. CASE BeginsOne
  BY <1>3, BeginsIsCreate DEF BeginsOne, Lifecycle!Next
<1> QED
  BY <1>1, <1>2, <1>3 DEF Visible

\* The scheduler implements TaskLifecycle: seen from outside, its queues, workers,
\* timers, parks, joins and re-entrant cancellations only create tasks under
\* active parents and end them once, after their children, with their failures.
THEOREM SchedulerImplementsLifecycle == Spec => ImplementsLifecycle
<1>1. Inv /\ [Next]_vars => [Lifecycle!Next]_(Lifecycle!vars)
  BY NextInv, VisibleIsLifecycle
<1> QED
  BY <1>1, InitIsInit, AlwaysInv, PTL DEF Spec, ImplementsLifecycle, Lifecycle!Spec
=============================================================================
