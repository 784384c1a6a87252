----------------------------- MODULE ReactorProofs -----------------------------
(***************************************************************************)
(* Theorems about the reactor, for any callers, descriptors and waits.     *)
(*                                                                         *)
(* The inductive invariant is about what is due to a strand: a wait of its *)
(* parked operation, or the completion that has been taken from one.  Most *)
(* steps leave what is due, and the phases, as they are (SameView).        *)
(***************************************************************************)
EXTENDS ReactorProperties, FiniteSetTheorems, TLAPS

WaitOf(w, p) == waiter[w].by = p /\ waiter[w].async

\* The wait w of p, or its completion, will wake p.
Due(w, p) == WaitOf(w, p) \/ <<w, p>> \in completions

SomeDue(p) == \E w \in Waits : Due(w, p)

OneDue(p) ==
  /\ \A w, v \in Waits : Due(w, p) /\ Due(v, p) => w = v
  /\ \A w \in Waits : ~(WaitOf(w, p) /\ <<w, p>> \in completions)

\* Nothing but the reactor has woken p.
Undisturbed(p) == p \notin resumed \cup cancelled

Watched(p) ==
  phase[p] \in {"parked", "sleeping"} /\ op[p].kind = "io" =>
    SomeDue(p) \/ (phase[p] = "parked" /\ wakePending[p])

Single(p) ==
  Undisturbed(p) =>
    /\ OneDue(p)
    /\ SomeDue(p) =>
         op[p].kind = "io" /\ phase[p] \in {"parked", "sleeping"} /\ ~wakePending[p]
    /\ phase[p] = "parking" => ~wakePending[p]

WaiterOK(w) ==
  /\ waiter[w].async => waiter[w].by \in Strands
  /\ Waiting(w) => waiter[w].fd \in Fds

CallerOK(p) ==
  /\ op[p].kind = "io" => op[p].fd \in Fds
  /\ op[p].parks => p \in Strands
  /\ phase[p] = "asking" /\ ~op[p].parks => op[p].kind = "io"
  /\ phase[p] = "parking" => op[p].kind = "io" /\ op[p].parks
  /\ wakePending[p] => HeldBack(p)

CollectsAfterCompletions == loop = "collect" => completions = {}

ReactorInv ==
  /\ TypeOK
  /\ CollectsAfterCompletions
  /\ \A w \in Waits : WaiterOK(w)
  /\ \A p \in Procs : CallerOK(p) /\ Watched(p) /\ Single(p)

\* What the invariant says of p reads the same after the step.
SameView(p) ==
  /\ phase'[p] = phase[p] /\ wakePending'[p] = wakePending[p]
  /\ op'[p].kind = op[p].kind /\ op'[p].fd = op[p].fd /\ op'[p].parks = op[p].parks
  /\ Undisturbed(p)' => Undisturbed(p)
  /\ \A w \in Waits : Due(w, p)' <=> Due(w, p)
  /\ \A w \in Waits :
       (WaitOf(w, p) /\ <<w, p>> \in completions)' =>
         WaitOf(w, p) /\ <<w, p>> \in completions

\* The same of its operation only.
SameDue(p) ==
  \A w \in Waits :
    /\ Due(w, p)' <=> Due(w, p)
    /\ (WaitOf(w, p) /\ <<w, p>> \in completions)' =>
         WaitOf(w, p) /\ <<w, p>> \in completions

CallerInv(p) == CallerOK(p) /\ Watched(p) /\ Single(p)
-----------------------------------------------------------------------------
LEMMA ViewKeeps ==
  ASSUME TypeOK, NEW p \in Procs, CallerInv(p), SameView(p)
  PROVE  CallerInv(p)'
<1>1. SomeDue(p)' <=> SomeDue(p)
  BY DEF SomeDue, SameView
<1>2. OneDue(p) => OneDue(p)'
  BY DEF OneDue, SameView
<1>3. CallerOK(p)'
  BY DEF CallerInv, CallerOK, SameView, HeldBack
<1>4. Watched(p)'
  BY <1>1 DEF CallerInv, Watched, SameView
<1>5. Single(p)'
  BY <1>1, <1>2 DEF CallerInv, Single, SameView
<1> QED
  BY <1>3, <1>4, <1>5 DEF CallerInv

LEMMA SameDueKeeps ==
  ASSUME NEW p \in Procs, SameDue(p)
  PROVE  (SomeDue(p)' <=> SomeDue(p)) /\ (OneDue(p) => OneDue(p)')
BY DEF SameDue, SomeDue, OneDue

LEMMA DueStays ==
  ASSUME waiter' = waiter, completions' = completions, NEW p \in Procs
  PROVE  SameDue(p)
BY DEF SameDue, Due, WaitOf

LEMMA WaitersStay ==
  ASSUME waiter' = waiter, NEW w \in Waits, WaiterOK(w)
  PROVE  WaiterOK(w)'
BY DEF WaiterOK, Waiting

\* The waits and the completions stay; the step is about one caller at most.
LEMMA CallerStepKeeps ==
  ASSUME ReactorInv, TypeOK', waiter' = waiter, completions' = completions,
         loop' = loop, NEW p \in Procs, CallerInv(p)',
         \A q \in Procs : q # p =>
           /\ phase'[q] = phase[q] /\ wakePending'[q] = wakePending[q]
           /\ op'[q] = op[q],
         cancelled \subseteq cancelled', resumed \subseteq resumed'
  PROVE  ReactorInv'
<1>1. \A w \in Waits : WaiterOK(w)'
  BY WaitersStay DEF ReactorInv
<1>2. CollectsAfterCompletions'
  BY DEF ReactorInv, CollectsAfterCompletions
<1>3. ASSUME NEW q \in Procs, q # p
      PROVE  CallerInv(q)'
  <2>1. SameView(q)
    BY <1>3, DueStays DEF SameView, SameDue, Undisturbed
  <2> QED
    BY <2>1, ViewKeeps DEF ReactorInv, CallerInv
<1> QED
  BY <1>1, <1>2, <1>3 DEF ReactorInv, CallerInv

\* A step of the reactor or of its surroundings: what is due stays due.
LEMMA QuietStepKeeps ==
  ASSUME ReactorInv, TypeOK', CollectsAfterCompletions',
         \A w \in Waits : WaiterOK(w)',
         \A p \in Procs : SameDue(p),
         phase' = phase, wakePending' = wakePending,
         cancelled' = cancelled, resumed' = resumed,
         \A p \in Procs :
           /\ op'[p].kind = op[p].kind /\ op'[p].fd = op[p].fd
           /\ op'[p].parks = op[p].parks
  PROVE  ReactorInv'
<1>1. ASSUME NEW p \in Procs
      PROVE  CallerInv(p)'
  <2>1. SameView(p)
    BY DEF SameView, SameDue, Undisturbed
  <2> QED
    BY <2>1, ViewKeeps DEF ReactorInv, CallerInv
<1> QED
  BY <1>1 DEF ReactorInv, CallerInv
-----------------------------------------------------------------------------
(* The scheduler and the callers *)

LEMMA OpTypes ==
  /\ NoOp \in OpRecord /\ NoOp.kind = "none" /\ ~NoOp.parks
  /\ FreeWaiter \in WaiterRecord /\ FreeWaiter.by = None /\ ~FreeWaiter.async
  /\ FreeWaiter.state = "free"
BY DEF NoOp, OpRecord, FreeWaiter, WaiterRecord, Outcomes

LEMMA WakeTyped ==
  ASSUME TypeOK, NEW p \in Procs, Wake(p)
  PROVE  /\ wakePending' \in [Procs -> BOOLEAN] /\ phase' \in [Procs -> Phases]
         /\ \A q \in Procs : q # p =>
              phase'[q] = phase[q] /\ wakePending'[q] = wakePending[q]
         /\ HeldBack(p) => wakePending'[p] /\ phase'[p] = phase[p]
         /\ ~HeldBack(p) => wakePending'[p] = wakePending[p]
         /\ phase[p] = "sleeping" => phase'[p] = "runnable"
         /\ phase[p] # "sleeping" => phase'[p] = phase[p]
BY DEF TypeOK, Wake, Phases, HeldBack

LEMMA WokenCaller ==
  ASSUME ReactorInv, NEW p \in Procs, Wake(p), op' = op, p \in resumed' \cup cancelled'
  PROVE  CallerInv(p)'
<1>1. /\ HeldBack(p) => wakePending'[p] /\ phase'[p] = phase[p]
      /\ ~HeldBack(p) => wakePending'[p] = wakePending[p]
      /\ phase[p] = "sleeping" => phase'[p] = "runnable"
      /\ phase[p] # "sleeping" => phase'[p] = phase[p]
  BY WakeTyped DEF ReactorInv
<1>2. CallerOK(p) /\ Watched(p)
  BY DEF ReactorInv
<1>3. CallerOK(p)'
  BY <1>1, <1>2 DEF CallerOK, HeldBack
<1>4. Watched(p)'
  BY <1>1 DEF Watched, HeldBack
<1>5. Single(p)'
  BY DEF Single, Undisturbed
<1> QED
  BY <1>3, <1>4, <1>5 DEF CallerInv

LEMMA ResumeKeeps ==
  ASSUME ReactorInv, NEW p \in Strands, Resume(p)
  PROVE  ReactorInv'
<1>1. p \in Procs
  BY DEF Procs
<1>2. TypeOK'
  BY <1>1, WakeTyped DEF ReactorInv, TypeOK, Resume, reactorVars
<1>3. CallerInv(p)'
  BY <1>1, WokenCaller DEF Resume
<1> QED
  BY <1>1, <1>2, <1>3, WakeTyped, CallerStepKeeps DEF Resume, reactorVars, ReactorInv

LEMMA CancelKeeps ==
  ASSUME ReactorInv, NEW p \in Strands, Cancel(p)
  PROVE  ReactorInv'
<1>1. p \in Procs
  BY DEF Procs
<1>2. TypeOK'
  BY <1>1, WakeTyped DEF ReactorInv, TypeOK, Cancel
<1>3. CallerInv(p)'
  BY <1>1, WokenCaller DEF Cancel
<1> QED
  BY <1>1, <1>2, <1>3, WakeTyped, CallerStepKeeps DEF Cancel, ReactorInv

LEMMA FallAsleepKeeps ==
  ASSUME ReactorInv, NEW p \in Procs, FallAsleep(p)
  PROVE  ReactorInv'
<1>1. TypeOK'
  BY DEF ReactorInv, TypeOK, FallAsleep, reactorVars, Phases
<1>2. /\ phase[p] = "parked" /\ op' = op /\ ~wakePending'[p]
      /\ phase'[p] = IF wakePending[p] THEN "runnable" ELSE "sleeping"
      /\ resumed' = resumed /\ cancelled' = cancelled
      /\ waiter' = waiter /\ completions' = completions
  BY DEF ReactorInv, TypeOK, FallAsleep, reactorVars
<1>3. (SomeDue(p)' <=> SomeDue(p)) /\ (OneDue(p) => OneDue(p)')
  BY <1>2, DueStays, SameDueKeeps
<1>4. CallerOK(p) /\ Watched(p) /\ Single(p)
  BY DEF ReactorInv
<1>5. CallerOK(p)' /\ Watched(p)'
  BY <1>2, <1>3, <1>4 DEF CallerOK, Watched, HeldBack
<1>6. Single(p)'
  BY <1>2, <1>3, <1>4 DEF Single, Undisturbed
<1> QED
  BY <1>1, <1>5, <1>6, CallerStepKeeps
     DEF CallerInv, FallAsleep, reactorVars, ReactorInv, TypeOK

LEMMA TimerFiresKeeps ==
  ASSUME ReactorInv, NEW p \in Procs, TimerFires(p)
  PROVE  ReactorInv'
<1>1. TypeOK'
  BY DEF ReactorInv, TypeOK, TimerFires, reactorVars, Phases
<1>2. /\ phase[p] = "sleeping" /\ op[p].kind = "sleep" /\ op' = op
      /\ wakePending' = wakePending /\ phase'[p] = "runnable"
      /\ resumed' = resumed /\ cancelled' = cancelled
      /\ waiter' = waiter /\ completions' = completions
  BY DEF ReactorInv, TypeOK, TimerFires, reactorVars
<1>3. (SomeDue(p)' <=> SomeDue(p)) /\ (OneDue(p) => OneDue(p)')
  BY <1>2, DueStays, SameDueKeeps
<1>4. CallerOK(p) /\ Watched(p) /\ Single(p)
  BY DEF ReactorInv
<1>5. CallerOK(p)' /\ Watched(p)'
  BY <1>2, <1>3, <1>4 DEF CallerOK, Watched, HeldBack
<1>6. Single(p)'
  BY <1>2, <1>3, <1>4 DEF Single, Undisturbed
<1> QED
  BY <1>1, <1>5, <1>6, CallerStepKeeps
     DEF CallerInv, TimerFires, reactorVars, ReactorInv, TypeOK

\* A caller that is neither parking nor parked goes from one phase to another.  Only a
\* sleep is parked without being registered.
LEMMA GoesOnKeeps ==
  ASSUME ReactorInv, NEW p \in Procs, NEW now \in Phases, NEW o \in OpRecord,
         phase[p] \in {"running", "asking", "runnable"},
         phase' = [phase EXCEPT ![p] = now], op' = [op EXCEPT ![p] = o],
         now # "sleeping", now = "parked" => o.kind # "io",
         o.kind = "io" => o.fd \in Fds,
         o.parks => p \in Strands,
         now = "asking" /\ ~o.parks => o.kind = "io",
         now = "parking" => o.kind = "io" /\ o.parks,
         UNCHANGED <<features, reactorVars, wakePending, cancelled, resumed, usable, ready>>
  PROVE  ReactorInv'
<1>1. TypeOK'
  BY DEF ReactorInv, TypeOK, reactorVars
<1>2. /\ op'[p] = o /\ phase'[p] = now /\ wakePending' = wakePending
      /\ resumed' = resumed /\ cancelled' = cancelled
      /\ waiter' = waiter /\ completions' = completions /\ loop' = loop
      /\ \A q \in Procs : q # p => phase'[q] = phase[q] /\ op'[q] = op[q]
  BY DEF ReactorInv, TypeOK, reactorVars
<1>3. (SomeDue(p)' <=> SomeDue(p)) /\ (OneDue(p) => OneDue(p)')
  BY <1>2, DueStays, SameDueKeeps
<1>4. CallerOK(p) /\ Single(p)
  BY DEF ReactorInv
<1>5. ~wakePending[p]
  BY <1>4 DEF CallerOK, HeldBack
<1>6. CallerOK(p)' /\ Watched(p)'
  BY <1>2, <1>5 DEF CallerOK, Watched
<1>7. Single(p)'
  BY <1>2, <1>3, <1>4, <1>5 DEF Single, Undisturbed
<1> QED
  BY <1>1, <1>2, <1>6, <1>7, CallerStepKeeps DEF CallerInv

LEMMA SameOp ==
  ASSUME TypeOK, NEW p \in Procs
  PROVE  op[p] \in OpRecord /\ op = [op EXCEPT ![p] = op[p]]
BY DEF TypeOK

LEMMA DispatchKeeps ==
  ASSUME ReactorInv, NEW p \in Procs, Dispatch(p)
  PROVE  ReactorInv'
<1> DEFINE o == IF op[p].kind = "sleep" THEN NoOp ELSE op[p]
<1>1. CallerOK(p) /\ TypeOK
  BY DEF ReactorInv
<1>2. /\ o \in OpRecord /\ (o.kind = "io" => o.fd \in Fds) /\ (o.parks => p \in Strands)
      /\ op' = [op EXCEPT ![p] = o]
  BY <1>1, SameOp, OpTypes DEF CallerOK, Dispatch
<1> HIDE DEF o
<1> QED
  BY <1>2, GoesOnKeeps DEF Dispatch, Phases

LEMMA AskKeeps ==
  ASSUME ReactorInv, NEW p \in Procs, NEW f \in Fds, NEW parks \in BOOLEAN,
         NEW timed \in BOOLEAN, Ask(p, f, parks, timed)
  PROVE  ReactorInv'
<1> DEFINE o == [kind |-> "io", fd |-> f, parks |-> parks, timed |-> timed,
                 gone |-> FALSE]
<1>1. o \in OpRecord /\ o.kind = "io" /\ o.fd \in Fds /\ (o.parks => p \in Strands)
  BY DEF OpRecord, Ask
<1>2. op' = [op EXCEPT ![p] = o]
  BY DEF Ask
<1> HIDE DEF o
<1> QED
  BY <1>1, <1>2, GoesOnKeeps DEF Ask, Phases

LEMMA SleepKeeps ==
  ASSUME ReactorInv, NEW p \in Procs, Sleep(p)
  PROVE  ReactorInv'
<1> DEFINE o == [NoOp EXCEPT !.kind = "sleep", !.parks = TRUE]
<1>1. o \in OpRecord /\ o.kind = "sleep" /\ o.parks
  BY DEF OpRecord, NoOp
<1>2. op' = [op EXCEPT ![p] = o] /\ p \in Strands
  BY DEF Sleep
<1> HIDE DEF o
<1> QED
  BY <1>1, <1>2, GoesOnKeeps DEF Sleep, Phases

LEMMA RetryKeeps ==
  ASSUME ReactorInv, NEW p \in Procs, Retry(p)
  PROVE  ReactorInv'
<1>1. CallerOK(p) /\ TypeOK
  BY DEF ReactorInv
<1>2. CASE Served(p)
  <2>1. phase' = [phase EXCEPT ![p] = "running"]
    BY <1>1, <1>2 DEF Retry, TypeOK
  <2>2. op' = [op EXCEPT ![p] = NoOp]
    BY <1>2 DEF Retry
  <2> QED
    BY <2>1, <2>2, OpTypes, GoesOnKeeps DEF Retry, Phases
<1>3. CASE ~Served(p)
  <2>1. /\ op' = [op EXCEPT ![p] = op[p]] /\ op[p] \in OpRecord
        /\ phase' = [phase EXCEPT ![p] = "asking"]
    BY <1>1, <1>3, SameOp DEF Retry
  <2> QED
    BY <1>1, <2>1, GoesOnKeeps DEF Retry, CallerOK, Phases
<1> QED
  BY <1>2, <1>3

LEMMA ParkCurrentKeeps ==
  ASSUME ReactorInv, NEW p \in Procs, ParkCurrent(p)
  PROVE  ReactorInv'
<1> DEFINE now == IF op[p].kind = "io" THEN "parking" ELSE "parked"
<1>1. CallerOK(p) /\ TypeOK
  BY DEF ReactorInv
<1>2. /\ op' = [op EXCEPT ![p] = op[p]] /\ op[p] \in OpRecord
      /\ phase' = [phase EXCEPT ![p] = now]
  BY <1>1, SameOp DEF ParkCurrent
<1>3. /\ now \in Phases /\ now # "sleeping" /\ now # "asking"
      /\ now = "parked" => op[p].kind # "io"
      /\ now = "parking" => op[p].kind = "io"
  BY DEF Phases
<1> HIDE DEF now
<1>4. /\ phase[p] = "asking" /\ op[p].parks
      /\ op[p].kind = "io" => op[p].fd \in Fds
      /\ op[p].parks => p \in Strands
      /\ UNCHANGED <<features, reactorVars, wakePending, cancelled, resumed, usable, ready>>
  BY <1>1 DEF ParkCurrent, CallerOK
<1> QED
  BY <1>2, <1>3, <1>4, GoesOnKeeps

LEMMA NewWaiterIs ==
  ASSUME TypeOK, NEW p \in Procs, NEW async \in BOOLEAN
  PROVE  LET n == NewWaiter(p, async)
         IN  /\ n \in WaiterRecord /\ n.by = p /\ n.async = async
             /\ n.state = "waiting" /\ n.fd = op[p].fd
BY DEF TypeOK, NewWaiter, FreeWaiter, WaiterRecord, OpRecord, Outcomes

\* Somebody has the wait w now, or has it no longer; p is in its call.
LEMMA WaiterStepKeeps ==
  ASSUME ReactorInv, TypeOK', NEW p \in Procs, NEW w \in Waits, NEW r,
         waiter' = [waiter EXCEPT ![w] = r], completions' = completions,
         loop' = loop,
         ~waiter[w].async \/ waiter[w].by \notin Procs \ {p},
         ~r.async \/ r.by \notin Procs \ {p},
         WaiterOK(w)', CallerInv(p)',
         \A q \in Procs : q # p =>
           phase'[q] = phase[q] /\ wakePending'[q] = wakePending[q] /\ op'[q] = op[q],
         cancelled' = cancelled, resumed' = resumed
  PROVE  ReactorInv'
<1>1. waiter'[w] = r /\ \A v \in Waits : v # w => waiter'[v] = waiter[v]
  BY DEF ReactorInv, TypeOK
<1>2. \A v \in Waits : WaiterOK(v)'
  <2> SUFFICES ASSUME NEW v \in Waits, v # w PROVE WaiterOK(v)'
    OBVIOUS
  <2>1. WaiterOK(v) /\ waiter'[v] = waiter[v]
    BY <1>1 DEF ReactorInv
  <2> QED
    BY <2>1 DEF WaiterOK, Waiting
<1>3. CollectsAfterCompletions'
  BY DEF ReactorInv, CollectsAfterCompletions
<1>4. ASSUME NEW q \in Procs, q # p
      PROVE  CallerInv(q)'
  <2>1. \A v \in Waits : WaitOf(v, q)' <=> WaitOf(v, q)
    BY <1>1, <1>4 DEF WaitOf
  <2>2. SameView(q)
    BY <1>4, <2>1 DEF SameView, Due, Undisturbed
  <2> QED
    BY <2>2, ViewKeeps DEF ReactorInv, CallerInv
<1> QED
  BY <1>2, <1>3, <1>4 DEF ReactorInv, CallerInv

LEMMA WaitAsyncKeeps ==
  ASSUME ReactorInv, NEW p \in Procs, NEW w \in Waits, WaitAsync(p, w)
  PROVE  ReactorInv'
<1> DEFINE r == NewWaiter(p, TRUE)
<1>1. /\ phase[p] = "parking" /\ waiter[w] = FreeWaiter /\ op' = op
      /\ phase' = [phase EXCEPT ![p] = "parked"] /\ phase'[p] = "parked"
      /\ resumed' = resumed /\ cancelled' = cancelled /\ completions' = completions
      /\ loop' = loop
      /\ \A q \in Procs : q # p =>
           phase'[q] = phase[q] /\ op'[q] = op[q]
  BY DEF WaitAsync, ReactorInv, TypeOK
<1>2. /\ CallerOK(p) /\ Watched(p) /\ Single(p) /\ op[p].kind = "io" /\ op[p].fd \in Fds
      /\ p \in Strands
  BY <1>1 DEF ReactorInv, CallerOK
<1>3. Undisturbed(p) => ~SomeDue(p) /\ OneDue(p) /\ ~wakePending[p]
  BY <1>1, <1>2 DEF Single
<1>4. CASE running
  <2>1. /\ waiter' = [waiter EXCEPT ![w] = r] /\ wakePending' = wakePending
        /\ r \in WaiterRecord /\ r.by = p /\ r.async /\ r.fd = op[p].fd
    BY <1>4, NewWaiterIs DEF WaitAsync, ReactorInv
  <2> HIDE DEF r
  <2>2. TypeOK'
    BY <1>4, <2>1 DEF WaitAsync, ReactorInv, TypeOK, Phases
  <2>3. waiter'[w] = r /\ \A v \in Waits : v # w => waiter'[v] = waiter[v]
    BY <2>1 DEF ReactorInv, TypeOK
  <2>4. WaiterOK(w)'
    BY <1>2, <2>1, <2>3 DEF WaiterOK, Waiting
  <2>5. Due(w, p)' /\ SomeDue(p)'
    BY <2>1, <2>3 DEF Due, WaitOf, SomeDue
  <2>6. CallerOK(p)' /\ Watched(p)'
    BY <1>1, <1>2, <2>1, <2>5 DEF CallerOK, Watched, HeldBack
  <2>7. Single(p)'
    <3> SUFFICES ASSUME Undisturbed(p) PROVE OneDue(p)'
      BY <1>1, <1>2, <1>3, <2>1 DEF Single, Undisturbed
    <3>1. \A v \in Waits : ~WaitOf(v, p) /\ <<v, p>> \notin completions
      BY <1>3 DEF SomeDue, Due
    <3>2. \A v \in Waits : v # w => ~WaitOf(v, p)'
      BY <2>3, <3>1 DEF WaitOf
    <3> QED
      BY <1>1, <3>1, <3>2 DEF OneDue, Due
  <2> QED
    BY <1>1, <2>1, <2>2, <2>4, <2>6, <2>7, OpTypes, WaiterStepKeeps DEF CallerInv
<1>5. CASE ~running
  <2>1. /\ wakePending' = [wakePending EXCEPT ![p] = TRUE] /\ waiter' = waiter
        /\ wakePending'[p] /\ \A q \in Procs : q # p => wakePending'[q] = wakePending[q]
    BY <1>5 DEF WaitAsync, ReactorInv, TypeOK
  <2>2. TypeOK'
    BY <1>5, <2>1 DEF WaitAsync, ReactorInv, TypeOK, Phases
  <2>3. (SomeDue(p)' <=> SomeDue(p)) /\ (OneDue(p) => OneDue(p)')
    BY <1>1, <2>1, DueStays, SameDueKeeps
  <2>4. CallerOK(p)' /\ Watched(p)' /\ Single(p)'
    BY <1>1, <1>2, <1>3, <2>1, <2>3
       DEF CallerOK, Watched, Single, HeldBack, Undisturbed
  <2> QED
    BY <1>1, <2>1, <2>2, <2>4, CallerStepKeeps DEF CallerInv
<1> QED
  BY <1>4, <1>5

LEMMA WaitKeeps ==
  ASSUME ReactorInv, NEW p \in Procs, NEW w \in Waits, Wait(p, w)
  PROVE  ReactorInv'
<1> DEFINE r == NewWaiter(p, FALSE)
<1>1. /\ phase[p] = "asking" /\ waiter[w] = FreeWaiter /\ ~op[p].parks
      /\ resumed' = resumed /\ cancelled' = cancelled /\ completions' = completions
      /\ loop' = loop /\ wakePending' = wakePending
  BY DEF Wait
<1>2. CallerOK(p) /\ Single(p) /\ op[p].kind = "io" /\ op[p].fd \in Fds
  BY <1>1 DEF ReactorInv, CallerOK
<1>3. CASE running
  <2>1. /\ waiter' = [waiter EXCEPT ![w] = r] /\ op' = op
        /\ phase' = [phase EXCEPT ![p] = "blocked"]
        /\ r \in WaiterRecord /\ r.by = p /\ ~r.async /\ r.fd = op[p].fd
    BY <1>3, NewWaiterIs DEF Wait, ReactorInv
  <2> HIDE DEF r
  <2>2. TypeOK'
    BY <1>3, <2>1 DEF Wait, ReactorInv, TypeOK, Phases
  <2>3. /\ waiter'[w] = r /\ phase'[p] = "blocked"
        /\ \A v \in Waits : v # w => waiter'[v] = waiter[v]
        /\ \A q \in Procs : q # p => phase'[q] = phase[q]
    BY <2>1 DEF ReactorInv, TypeOK
  <2>4. WaiterOK(w)'
    BY <1>2, <2>1, <2>3 DEF WaiterOK, Waiting
  <2>5. SameDue(p)
    <3>1. \A v \in Waits : WaitOf(v, p)' <=> WaitOf(v, p)
      BY <1>1, <2>1, <2>3, OpTypes DEF WaitOf
    <3> QED
      BY <1>1, <3>1 DEF SameDue, Due
  <2>6. (SomeDue(p)' <=> SomeDue(p)) /\ (OneDue(p) => OneDue(p)')
    BY <2>5, SameDueKeeps
  <2>7. CallerOK(p)' /\ Watched(p)' /\ Single(p)'
    BY <1>1, <1>2, <2>1, <2>3, <2>6
       DEF CallerOK, Watched, Single, HeldBack, Undisturbed
  <2> QED
    BY <1>1, <2>1, <2>2, <2>3, <2>4, <2>7, OpTypes, WaiterStepKeeps DEF CallerInv
<1>4. CASE ~running
  BY <1>4, OpTypes, GoesOnKeeps DEF Wait, Phases, reactorVars
<1> QED
  BY <1>3, <1>4

LEMMA UnblockKeeps ==
  ASSUME ReactorInv, NEW p \in Procs, NEW w \in Waits, Unblock(p, w)
  PROVE  ReactorInv'
<1>1. /\ phase[p] = "blocked" /\ waiter[w].by = p /\ ~waiter[w].async
      /\ waiter' = [waiter EXCEPT ![w] = FreeWaiter]
      /\ phase' = [phase EXCEPT ![p] = "running"] /\ op' = [op EXCEPT ![p] = NoOp]
      /\ resumed' = resumed /\ cancelled' = cancelled /\ completions' = completions
      /\ loop' = loop /\ wakePending' = wakePending
  BY DEF Unblock
<1>2. TypeOK'
  BY OpTypes DEF Unblock, ReactorInv, TypeOK, Phases
<1>3. /\ waiter'[w] = FreeWaiter /\ phase'[p] = "running" /\ op'[p] = NoOp
      /\ \A v \in Waits : v # w => waiter'[v] = waiter[v]
      /\ \A q \in Procs : q # p => phase'[q] = phase[q] /\ op'[q] = op[q]
  BY <1>1 DEF ReactorInv, TypeOK
<1>4. WaiterOK(w)'
  BY <1>3, OpTypes DEF WaiterOK, Waiting
<1>5. SameDue(p)
  <2>1. \A v \in Waits : WaitOf(v, p)' <=> WaitOf(v, p)
    BY <1>1, <1>3, OpTypes DEF WaitOf
  <2> QED
    BY <1>1, <2>1 DEF SameDue, Due
<1>6. (SomeDue(p)' <=> SomeDue(p)) /\ (OneDue(p) => OneDue(p)')
  BY <1>5, SameDueKeeps
<1>7. CallerOK(p) /\ Single(p)
  BY DEF ReactorInv
<1>8. CallerOK(p)' /\ Watched(p)' /\ Single(p)'
  BY <1>1, <1>3, <1>6, <1>7, OpTypes
     DEF CallerOK, Watched, Single, HeldBack, Undisturbed
<1> QED
  BY <1>1, <1>2, <1>3, <1>4, <1>8, OpTypes, WaiterStepKeeps DEF CallerInv
-----------------------------------------------------------------------------
(* The reactor thread *)

\* What the waiters become in a scan or a collection, before the harvest.
SameWaits(after) ==
  /\ after \in [Waits -> WaiterRecord]
  /\ \A w \in Waits :
       /\ after[w].by = waiter[w].by /\ after[w].async = waiter[w].async
       /\ after[w].fd = waiter[w].fd
       /\ after[w].state = "waiting" => Waiting(w)

LEMMA HarvestKeeps ==
  ASSUME ReactorInv, completions = {}, NEW after, SameWaits(after), Harvest(after)
  PROVE  /\ waiter' \in [Waits -> WaiterRecord]
         /\ completions' \in SUBSET (Waits \X Strands)
         /\ \A w \in Waits : WaiterOK(w)'
         /\ \A p \in Procs : SameDue(p)
<1>1. \A w \in Waits : waiter'[w] = IF Finished(after[w]) THEN FreeWaiter ELSE after[w]
  BY DEF Harvest, Kept
<1>2. /\ waiter' \in [Waits -> WaiterRecord]
      /\ \A w \in Waits : WaiterOK(w)'
  <2>1. \A w \in Waits : waiter'[w] \in WaiterRecord
    BY <1>1, OpTypes DEF SameWaits
  <2>2. ASSUME NEW w \in Waits
        PROVE  WaiterOK(w)'
    BY <1>1, OpTypes DEF SameWaits, ReactorInv, WaiterOK, Waiting
  <2> QED
    BY <2>1, <2>2 DEF Harvest
<1>3. \A w \in Waits, p \in Procs :
        <<w, p>> \in completions' <=> Finished(after[w]) /\ after[w].by = p
  BY DEF Harvest
<1>4. completions' \in SUBSET (Waits \X Strands)
  BY DEF Harvest, Finished, SameWaits, ReactorInv, WaiterOK
<1>5. ASSUME NEW p \in Procs, NEW w \in Waits
      PROVE  /\ Due(w, p)' <=> Due(w, p)
             /\ ~(WaitOf(w, p) /\ <<w, p>> \in completions)'
  <2>1. CASE Finished(after[w])
    <3>1. ~WaitOf(w, p)'
      BY <1>1, <2>1, OpTypes DEF WaitOf
    <3>2. <<w, p>> \in completions' <=> WaitOf(w, p)
      BY <1>3, <2>1 DEF WaitOf, SameWaits, Finished
    <3> QED
      BY <3>1, <3>2 DEF Due
  <2>2. CASE ~Finished(after[w])
    <3>1. WaitOf(w, p)' <=> WaitOf(w, p)
      BY <1>1, <2>2 DEF WaitOf, SameWaits
    <3> QED
      BY <1>3, <2>2, <3>1 DEF Due
  <2> QED
    BY <2>1, <2>2
<1>6. \A p \in Procs : SameDue(p)
  BY <1>5 DEF SameDue
<1> QED
  BY <1>2, <1>4, <1>6

LEMMA CompleteIs ==
  ASSUME TypeOK, NEW w \in Waits, NEW outcome \in Outcomes
  PROVE  LET c == Complete(w, outcome)
         IN  /\ c \in WaiterRecord /\ c.by = waiter[w].by /\ c.async = waiter[w].async
             /\ c.fd = waiter[w].fd /\ c.state = "done"
<1>1. waiter[w] \in WaiterRecord
  BY DEF TypeOK
<1> QED
  BY <1>1 DEF Complete, WaiterRecord

LEMMA ScannedWaits ==
  ASSUME TypeOK
  PROVE  SameWaits([w \in Waits |-> Scanned(w)])
<1> SUFFICES ASSUME NEW w \in Waits
             PROVE  /\ Scanned(w) \in WaiterRecord
                    /\ Scanned(w).by = waiter[w].by
                    /\ Scanned(w).async = waiter[w].async
                    /\ Scanned(w).fd = waiter[w].fd
                    /\ Scanned(w).state = "waiting" => Waiting(w)
  BY DEF SameWaits
<1>1. waiter[w] \in WaiterRecord
  BY DEF TypeOK
<1>2. Verdict(w) # "none" => Verdict(w) \in Outcomes
  BY DEF Verdict, Outcomes
<1>3. "Closed" \in Outcomes
  BY DEF Outcomes
<1> QED
  BY <1>1, <1>2, <1>3, CompleteIs DEF Scanned, Waiting

LEMMA CollectedWaits ==
  ASSUME TypeOK
  PROVE  SameWaits([w \in Waits |-> Collected(w)])
<1> SUFFICES ASSUME NEW w \in Waits
             PROVE  /\ Collected(w) \in WaiterRecord
                    /\ Collected(w).by = waiter[w].by
                    /\ Collected(w).async = waiter[w].async
                    /\ Collected(w).fd = waiter[w].fd
                    /\ Collected(w).state = "waiting" => Waiting(w)
  BY DEF SameWaits
<1>1. waiter[w] \in WaiterRecord /\ "Ready" \in Outcomes
  BY DEF TypeOK, Outcomes
<1> QED
  BY <1>1, CompleteIs DEF Collected, Waiting

LEMMA ScanKeeps ==
  ASSUME ReactorInv, Scan
  PROVE  ReactorInv'
<1> DEFINE after == [w \in Waits |-> Scanned(w)]
<1>1. SameWaits(after) /\ Harvest(after) /\ completions = {}
  BY ScannedWaits DEF Scan, ReactorInv
<1> HIDE DEF after
<1>2. /\ waiter' \in [Waits -> WaiterRecord]
      /\ completions' \in SUBSET (Waits \X Strands)
      /\ \A w \in Waits : WaiterOK(w)'
      /\ \A p \in Procs : SameDue(p)
  BY <1>1, HarvestKeeps
<1>3. Desired \subseteq Fds
  BY DEF Desired, Undecided, ReactorInv, WaiterOK
<1>4. rescans' \in BOOLEAN /\ loop' = "poll" /\ registered' \in SUBSET Fds
      /\ interest' \in SUBSET registered'
  BY <1>3 DEF Scan, Rescans
<1>5. TypeOK' /\ CollectsAfterCompletions'
  BY <1>2, <1>4 DEF Scan, ReactorInv, TypeOK, callerVars, CollectsAfterCompletions
<1> QED
  BY <1>2, <1>5, QuietStepKeeps DEF Scan, callerVars

LEMMA CollectKeeps ==
  ASSUME ReactorInv, Collect
  PROVE  ReactorInv'
<1> DEFINE after == [w \in Waits |-> Collected(w)]
<1>1. SameWaits(after) /\ Harvest(after) /\ completions = {}
  BY CollectedWaits DEF Collect, ReactorInv, CollectsAfterCompletions
<1> HIDE DEF after
<1>2. /\ waiter' \in [Waits -> WaiterRecord]
      /\ completions' \in SUBSET (Waits \X Strands)
      /\ \A w \in Waits : WaiterOK(w)'
      /\ \A p \in Procs : SameDue(p)
  BY <1>1, HarvestKeeps
<1>3. TypeOK' /\ CollectsAfterCompletions'
  BY <1>2 DEF Collect, ReactorInv, TypeOK, callerVars, CollectsAfterCompletions
<1> QED
  BY <1>2, <1>3, QuietStepKeeps DEF Collect, callerVars

LEMMA RunCompletionKeeps ==
  ASSUME ReactorInv, NEW c \in completions, RunCompletion(c)
  PROVE  ReactorInv'
<1>1. PICK w \in Waits, q \in Strands : c = <<w, q>>
  BY DEF ReactorInv, TypeOK
<1>2. /\ q \in Procs /\ Wake(q) /\ completions' = completions \ {<<w, q>>}
      /\ waiter' = waiter /\ op' = op /\ resumed' = resumed /\ cancelled' = cancelled
      /\ loop' = loop
  BY <1>1 DEF RunCompletion, Procs
<1>3. /\ \A p \in Procs : p # q =>
           phase'[p] = phase[p] /\ wakePending'[p] = wakePending[p]
      /\ HeldBack(q) => wakePending'[q] /\ phase'[q] = phase[q]
      /\ ~HeldBack(q) => wakePending'[q] = wakePending[q]
      /\ phase[q] = "sleeping" => phase'[q] = "runnable"
      /\ phase[q] # "sleeping" => phase'[q] = phase[q]
  BY <1>2, WakeTyped DEF ReactorInv
<1>4. TypeOK'
  BY <1>2, WakeTyped DEF RunCompletion, ReactorInv, TypeOK
<1>5. CollectsAfterCompletions' /\ \A v \in Waits : WaiterOK(v)'
  BY <1>2, WaitersStay DEF ReactorInv, CollectsAfterCompletions
<1>6. ASSUME NEW p \in Procs, p # q
      PROVE  CallerInv(p)'
  <2>1. \A v \in Waits : /\ WaitOf(v, p)' <=> WaitOf(v, p)
                         /\ <<v, p>> \in completions' <=> <<v, p>> \in completions
    BY <1>2, <1>6 DEF WaitOf
  <2>2. SameView(p)
    BY <1>2, <1>3, <1>6, <2>1 DEF SameView, Due, Undisturbed
  <2> QED
    BY <2>2, ViewKeeps DEF ReactorInv, CallerInv
<1>7. CallerInv(q)'
  <2>1. CallerOK(q) /\ Single(q)
    BY <1>2 DEF ReactorInv
  <2>2. CallerOK(q)'
    BY <1>2, <1>3, <2>1 DEF CallerOK, HeldBack
  <2>3. Watched(q)'
    BY <1>2, <1>3 DEF Watched, HeldBack
  <2>4. Single(q)'
    <3> SUFFICES ASSUME Undisturbed(q)
                 PROVE  ~SomeDue(q)' /\ OneDue(q)' /\ phase'[q] # "parking"
      BY <1>2 DEF Single, Undisturbed
    <3>1. Due(w, q) /\ SomeDue(q)
      BY <1>1 DEF Due, SomeDue
    <3>2. \A v \in Waits : ~Due(v, q)'
      <4> SUFFICES ASSUME NEW v \in Waits, Due(v, q)' PROVE FALSE
        OBVIOUS
      <4>1. Due(v, q) /\ (v = w => WaitOf(w, q))
        BY <1>2 DEF Due, WaitOf
      <4> QED
        BY <1>1, <2>1, <3>1, <4>1 DEF Single, OneDue
    <3> QED
      BY <1>3, <2>1, <3>1, <3>2 DEF SomeDue, OneDue, Due, Single
  <2> QED
    BY <2>2, <2>3, <2>4 DEF CallerInv
<1> QED
  BY <1>4, <1>5, <1>6, <1>7 DEF ReactorInv, CallerInv

\* Steps that leave the waits and the callers alone.
LEMMA SurroundingsKeep ==
  ASSUME ReactorInv, TypeOK', UNCHANGED <<waiter, completions, callerVars>>,
         loop' # "collect" \/ completions = {}
  PROVE  ReactorInv'
<1>1. waiter' = waiter /\ completions' = completions /\ phase' = phase
      /\ wakePending' = wakePending /\ op' = op /\ cancelled' = cancelled
      /\ resumed' = resumed
  BY DEF callerVars
<1>2. CollectsAfterCompletions' /\ \A w \in Waits : WaiterOK(w)'
  BY <1>1, WaitersStay DEF ReactorInv, CollectsAfterCompletions
<1>3. \A p \in Procs : SameDue(p)
  BY <1>1, DueStays
<1> QED
  BY <1>1, <1>2, <1>3, QuietStepKeeps

LEMMA LoopKeeps ==
  ASSUME ReactorInv, End \/ PollReturns
  PROVE  ReactorInv'
<1>1. TypeOK'
  BY DEF ReactorInv, TypeOK, End, PollReturns, callerVars
<1> QED
  BY <1>1, SurroundingsKeep DEF End, PollReturns

LEMMA DescriptorsKeep ==
  ASSUME ReactorInv, NEW f \in Fds, Arrives(f) \/ Drain(f) \/ CloseFd(f) \/ Open(f)
  PROVE  ReactorInv'
<1>1. TypeOK'
  BY DEF ReactorInv, TypeOK, Arrives, Drain, CloseFd, Open, reactorVars, callerVars
<1>2. UNCHANGED <<waiter, completions, callerVars>> /\ loop' = loop
  BY DEF Arrives, Drain, CloseFd, Open, reactorVars, callerVars
<1> QED
  BY <1>1, <1>2, SurroundingsKeep DEF ReactorInv, CollectsAfterCompletions

LEMMA StopKeeps ==
  ASSUME ReactorInv, Stop \/ UNCHANGED vars
  PROVE  ReactorInv'
<1>1. TypeOK'
  BY DEF ReactorInv, TypeOK, Stop, vars, reactorVars, callerVars
<1>2. UNCHANGED <<waiter, completions, callerVars>> /\ loop' = loop
  BY DEF Stop, vars, reactorVars, callerVars
<1> QED
  BY <1>1, <1>2, SurroundingsKeep DEF ReactorInv, CollectsAfterCompletions

\* The waiters are marked.
LEMMA MarkedKeep ==
  ASSUME ReactorInv, TypeOK', completions' = completions, loop' = loop,
         \A w \in Waits :
           /\ waiter'[w].by = waiter[w].by /\ waiter'[w].async = waiter[w].async
           /\ waiter'[w].fd = waiter[w].fd /\ waiter'[w].state = waiter[w].state,
         phase' = phase, wakePending' = wakePending,
         cancelled' = cancelled, resumed' = resumed,
         \A p \in Procs :
           /\ op'[p].kind = op[p].kind /\ op'[p].fd = op[p].fd
           /\ op'[p].parks = op[p].parks
  PROVE  ReactorInv'
<1>1. CollectsAfterCompletions' /\ \A w \in Waits : WaiterOK(w)'
  BY DEF ReactorInv, CollectsAfterCompletions, WaiterOK, Waiting
<1>2. \A p \in Procs : SameDue(p)
  BY DEF SameDue, Due, WaitOf
<1> QED
  BY <1>1, <1>2, QuietStepKeeps

LEMMA NotifyClosedKeeps ==
  ASSUME ReactorInv, NEW f \in Fds, NotifyClosed(f)
  PROVE  ReactorInv'
<1>1. ASSUME NEW w \in Waits
      PROVE  /\ waiter'[w] \in WaiterRecord
             /\ waiter'[w].by = waiter[w].by /\ waiter'[w].async = waiter[w].async
             /\ waiter'[w].fd = waiter[w].fd /\ waiter'[w].state = waiter[w].state
  <2>1. waiter[w] \in WaiterRecord
    BY DEF ReactorInv, TypeOK
  <2>2. waiter'[w] = [waiter[w] EXCEPT
                        !.pendingClosed = @ \/ (waiter[w].fd = f /\ Waiting(w))]
    BY DEF NotifyClosed
  <2> QED
    BY <2>1, <2>2 DEF WaiterRecord, Waiting
<1>2. ASSUME NEW p \in Procs
      PROVE  /\ op'[p] \in OpRecord
             /\ op'[p].kind = op[p].kind /\ op'[p].fd = op[p].fd
             /\ op'[p].parks = op[p].parks
  <2>1. op[p] \in OpRecord
    BY DEF ReactorInv, TypeOK
  <2>2. op'[p] = op[p] \/ op'[p] = [op[p] EXCEPT !.gone = TRUE]
    BY DEF NotifyClosed
  <2> QED
    BY <2>1, <2>2 DEF OpRecord
<1>3. waiter' \in [Waits -> WaiterRecord] /\ op' \in [Procs -> OpRecord]
  BY <1>1, <1>2 DEF NotifyClosed
<1>4. TypeOK'
  BY <1>3 DEF NotifyClosed, ReactorInv, TypeOK
<1> QED
  BY <1>1, <1>2, <1>4, MarkedKeep DEF NotifyClosed

LEMMA ExpireKeeps ==
  ASSUME ReactorInv, NEW w \in Waits, Expire(w)
  PROVE  ReactorInv'
<1>1. waiter \in [Waits -> WaiterRecord]
  BY DEF ReactorInv, TypeOK
<1>2. /\ waiter' \in [Waits -> WaiterRecord]
      /\ \A v \in Waits :
           /\ waiter'[v].by = waiter[v].by /\ waiter'[v].async = waiter[v].async
           /\ waiter'[v].fd = waiter[v].fd /\ waiter'[v].state = waiter[v].state
  <2>1. waiter[w] \in WaiterRecord
    BY <1>1
  <2>2. LET x == [waiter[w] EXCEPT !.expired = TRUE]
        IN  /\ x \in WaiterRecord /\ x.by = waiter[w].by /\ x.async = waiter[w].async
            /\ x.fd = waiter[w].fd /\ x.state = waiter[w].state
    BY <2>1 DEF WaiterRecord
  <2>3. waiter' = [waiter EXCEPT ![w] = [waiter[w] EXCEPT !.expired = TRUE]]
    BY DEF Expire
  <2> QED
    BY <1>1, <2>2, <2>3
<1>3. TypeOK'
  BY <1>2 DEF Expire, ReactorInv, TypeOK, callerVars
<1> QED
  BY <1>2, <1>3, MarkedKeep DEF Expire, callerVars
-----------------------------------------------------------------------------
(* The invariant, and what follows from it *)

LEMMA InitHolds ==
  ASSUME Init
  PROVE  ReactorInv
<1>1. TypeOK
  BY OpTypes DEF Init, TypeOK, Phases
<1>2. CollectsAfterCompletions /\ \A w \in Waits : WaiterOK(w)
  BY OpTypes DEF Init, CollectsAfterCompletions, WaiterOK, Waiting
<1>3. ASSUME NEW p \in Procs
      PROVE  CallerOK(p) /\ Watched(p) /\ Single(p)
  <2>1. phase[p] = "running" /\ ~wakePending[p] /\ op[p] = NoOp
    BY DEF Init
  <2>2. \A w \in Waits : ~Due(w, p)
    BY OpTypes DEF Init, Due, WaitOf
  <2> QED
    BY <2>1, <2>2, OpTypes
       DEF CallerOK, Watched, Single, OneDue, SomeDue, Due
<1> QED
  BY <1>1, <1>2, <1>3 DEF ReactorInv

LEMMA NextHolds ==
  ASSUME ReactorInv, [Next]_vars
  PROVE  ReactorInv'
<1>1. CASE ReactorStep
  BY <1>1, ScanKeeps, LoopKeeps, CollectKeeps, RunCompletionKeeps DEF ReactorStep
<1>2. ASSUME NEW p \in Procs, Continue(p)
      PROVE  ReactorInv'
  BY <1>2, RetryKeeps, ParkCurrentKeeps, FallAsleepKeeps, TimerFiresKeeps,
     DispatchKeeps, WaitAsyncKeeps, WaitKeeps, UnblockKeeps DEF Continue
<1>3. ASSUME NEW p \in Strands, Resume(p) \/ Cancel(p)
      PROVE  ReactorInv'
  BY <1>3, ResumeKeeps, CancelKeeps
<1>4. ASSUME NEW f \in Fds,
             Arrives(f) \/ Drain(f) \/ NotifyClosed(f) \/ CloseFd(f) \/ Open(f)
      PROVE  ReactorInv'
  BY <1>4, DescriptorsKeep, NotifyClosedKeeps
<1> QED
  BY <1>1, <1>2, <1>3, <1>4, SleepKeeps, AskKeeps, ExpireKeeps, StopKeeps DEF Next

LEMMA Invariance == Spec => []ReactorInv
<1>1. Init => ReactorInv
  BY InitHolds
<1>2. ReactorInv /\ [Next]_vars => ReactorInv'
  BY NextHolds
<1> QED
  BY <1>1, <1>2, PTL DEF Spec

\* The tables of RuntimeReactor and the states of its callers keep their types; epoll
\* watches no descriptor that the reactor does not know.
THEOREM ReactorKeepsTypes == Spec => []TypeOK
<1>1. ReactorInv => TypeOK
  BY DEF ReactorInv
<1> QED
  BY <1>1, Invariance, PTL

\* The wake of a parked strand is not lost between park_current, wait_async and the
\* worker that lets it sleep.
THEOREM NoWakeIsLost == Spec => []SleepersAreWatched
<1>1. ASSUME ReactorInv
      PROVE  SleepersAreWatched
  <2> SUFFICES ASSUME NEW p \in Strands, phase[p] = "sleeping", op[p].kind = "io"
               PROVE  Outstanding(p) # {}
    BY DEF SleepersAreWatched
  <2>1. SomeDue(p)
    BY <1>1 DEF ReactorInv, Watched, Procs
  <2>2. PICK w \in Waits : Due(w, p)
    BY <2>1 DEF SomeDue
  <2>3. w \in Outstanding(p) \/ <<w, p>> \in Outstanding(p)
    BY <2>2 DEF Due, WaitOf, Outstanding
  <2> QED
    BY <2>3
<1> QED
  BY <1>1, Invariance, PTL

\* No completion of an old operation wakes a later one, or cuts a sleep short.
THEOREM CompletionsAreNotStray == Spec => []NoStrayCompletion
<1>1. ASSUME ReactorInv
      PROVE  NoStrayCompletion
  <2> SUFFICES ASSUME NEW p \in Strands \ (resumed \cup cancelled)
               PROVE  /\ Cardinality(Outstanding(p)) <= 1
                      /\ Outstanding(p) # {} =>
                           op[p].kind = "io" /\ phase[p] \in {"parked", "sleeping"}
    BY DEF NoStrayCompletion
  <2>1. Single(p) /\ Undisturbed(p)
    BY <1>1 DEF ReactorInv, Undisturbed, Procs
  <2>2. \A x \in Outstanding(p) : \E w \in Waits :
          /\ Due(w, p)
          /\ \/ x = w /\ WaitOf(w, p)
             \/ x = <<w, p>> /\ <<w, p>> \in completions
    <3> SUFFICES ASSUME NEW x \in Outstanding(p)
                 PROVE  \E w \in Waits :
                          \/ x = w /\ WaitOf(w, p)
                          \/ x = <<w, p>> /\ <<w, p>> \in completions
      BY DEF Due
    <3>1. CASE x \in {w \in Waits : waiter[w].by = p /\ waiter[w].async}
      BY <3>1 DEF WaitOf
    <3>2. CASE x \in {c \in completions : c[2] = p}
      <4>1. PICK w \in Waits, q \in Strands : x = <<w, q>>
        BY <1>1, <3>2 DEF ReactorInv, TypeOK
      <4> QED
        BY <3>2, <4>1
    <3> QED
      BY <3>1, <3>2 DEF Outstanding
  <2>3. \A x, y \in Outstanding(p) : x = y
    BY <2>1, <2>2 DEF Single, OneDue
  <2>4. Cardinality(Outstanding(p)) <= 1
    <3>1. CASE Outstanding(p) = {}
      BY <3>1, FS_EmptySet
    <3>2. CASE Outstanding(p) # {}
      <4>1. PICK x \in Outstanding(p) : TRUE
        BY <3>2
      <4>2. Outstanding(p) = {x}
        BY <2>3, <4>1
      <4>3. Cardinality({x}) = 1
        BY FS_Singleton
      <4> QED
        BY <4>2, <4>3
    <3> QED
      BY <3>1, <3>2
  <2>5. Outstanding(p) # {} => SomeDue(p)
    BY <2>2 DEF SomeDue
  <2> QED
    BY <2>1, <2>4, <2>5 DEF Single
<1> QED
  BY <1>1, Invariance, PTL
=============================================================================
