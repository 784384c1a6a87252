------------------------------- MODULE Channel -------------------------------
(***************************************************************************)
(* RuntimeChannel and RuntimeMoveSlot of src/runtime/concurrency.cpp: a    *)
(* FIFO channel of bounded capacity (0 is a rendezvous), whose senders and *)
(* receivers wait with timeouts, notice cancellation and close, and may    *)
(* send the content of a move slot, which only one of them then owns.      *)
(*                                                                         *)
(* An action is what a caller does while it holds the mutex of the         *)
(* channel; commit_move and release_move take the mutex of the slot inside *)
(* it, reserve_move and reset take it alone.  A blocked caller wakes every *)
(* millisecond at the latest and looks again (cv_.wait_for), so that there *)
(* is no wait set: a poll that changes nothing is not an action.           *)
(*                                                                         *)
(* Sends are numbered in the order in which they entered the channel, and  *)
(* the number stands for the value.  Names that start with Bug are the     *)
(* mutants.                                                                *)
(***************************************************************************)
EXTENDS Integers, SequencesExt

CONSTANTS
  Procs,       \* the strands and threads that use the channel
  Slots,       \* the move slots they send from
  None,        \* no slot, no holder
  Settings,    \* the channels that are made, and how they are used
  Cancellable, \* those whose task may be cancelled
  MaxSends,    \* bound on the sends that enter a channel
  MaxResets    \* bound on the resets of a slot

TimeoutNames == {"never", "later", "zero"}

ASSUME FiniteProcs == IsFiniteSet(Procs)
ASSUME NoneIsNothing == None \notin Procs \cup Slots
ASSUME CancellableAreProcs == Cancellable \subseteq Procs
\* The capacity, how many sends may enter, the slots that are sent from, and the
\* kinds of timeouts that calls are made with.
ASSUME SettingsKnown ==
  Settings \subseteq [capacity : Nat, sends : 0..MaxSends, slots : SUBSET Slots,
                     timeouts : SUBSET TimeoutNames]
ASSUME BoundsNat == MaxSends \in Nat /\ MaxResets \in Nat

VARIABLES
  setting,    \* capacity_, and how the channel is used
  buffer,     \* buffer_: the sends whose values it holds
  pending,    \* pending_sends_
  waiters,    \* recv_waiters_: the callers of recv that wait
  closed,     \* closed_
  sent,       \* every send that entered: its PendingSend, and its answer
  received,   \* the sends whose values were received, in the order of recv
  call,       \* the call each caller is in
  slot,       \* the move slots
  cancelled   \* the callers whose task was asked to cancel

vars == <<setting, buffer, pending, waiters, closed, sent, received, call,
          slot, cancelled>>
-----------------------------------------------------------------------------
capacity == setting.capacity

Numbers == 1..MaxSends

\* consumed and failed of a PendingSend, and then what its caller was told.
SendStates == {"pending", "consumed", "failed", "ok", "refused"}

SendRecord == [by : Procs, slot : Slots \cup {None}, content : 0..MaxResets,
               state : SendStates]

CallRecord == [pc : {"idle", "reserved", "send", "recv"},
               id : {0} \cup Numbers, slot : Slots \cup {None}, timed : BOOLEAN]

Idle == [pc |-> "idle", id |-> 0, slot |-> None, timed |-> FALSE]

\* The active reservation of a slot is known by its holder; content numbers the
\* values the slot has had.
SlotRecord == [state : {"Ready", "Reserved", "Moved"},
               holder : Procs \cup {None}, content : 0..MaxResets]

TypeOK ==
  /\ setting \in Settings
  /\ buffer \in Seq(Numbers) /\ Len(buffer) <= capacity
  /\ pending \in Seq(Numbers)
  /\ waiters \in Seq(Procs)
  /\ closed \in BOOLEAN
  /\ sent \in Seq(SendRecord) /\ Len(sent) <= MaxSends
  /\ received \in Seq(Numbers)
  /\ call \in [Procs -> CallRecord]
  /\ slot \in [Slots -> SlotRecord]
  /\ cancelled \in SUBSET Cancellable

Init ==
  /\ setting \in Settings
  /\ buffer = <<>>
  /\ pending = <<>>
  /\ waiters = <<>>
  /\ closed = FALSE
  /\ sent = <<>>
  /\ received = <<>>
  /\ call = [p \in Procs |-> Idle]
  /\ slot = [s \in Slots |-> [state |-> "Ready", holder |-> None, content |-> 0]]
  /\ cancelled = {}
-----------------------------------------------------------------------------
(* Moving values: promote_pending_sends_locked and take_value_locked *)

\* commit_move of the slot that p sends from succeeds: the reservation of p is
\* the active one, no reset came in between.
Committable(p, s) == s = None \/ slot[s].holder = p

\* commit_pending_move succeeds.
Deliverable(i) == Committable(sent[i].by, sent[i].slot)

\* A sender that leaves keeps its reservation.
BugReleased(p, s, slots) == slots

\* The slots after release_move_reservation, which does nothing when a reset came
\* in between.
Released(p, s, slots) ==
  IF s # None /\ Committable(p, s)
  THEN [slots EXCEPT ![s] = [@ EXCEPT !.state = "Ready", !.holder = None]]
  ELSE slots

\* The slot stays with its owner when the value is handed over.
BugCommitted(s) == [slot[s] EXCEPT !.state = "Ready", !.holder = None]

Committed(s) == [slot[s] EXCEPT !.state = "Moved", !.holder = None]

Accepting == ~closed

\* The values of the first n pending sends, one after the other: those whose commit
\* fails are dropped on the way.
Delivered ==
  LET values[n \in 0..Len(pending)] ==
        IF n = 0 THEN <<>>
        ELSE IF Deliverable(pending[n]) THEN Append(values[n - 1], pending[n])
        ELSE values[n - 1]
  IN  values

\* How many pending sends leave the queue when there is room for so many values.
\* A receive makes room for one more value than the buffer holds, and so takes the
\* value of a sender directly when the capacity is 0.
Leaving(room) ==
  IF Accepting
  THEN Min({n \in 0..Len(pending) : Len(Delivered[n]) = room} \cup {Len(pending)})
  ELSE 0

Room == capacity - Len(buffer)

RoomToTake == Room + 1

\* Values are promoted in front of those in the buffer.
BugStream(n) == Delivered[n] \o buffer

\* The values in the channel once n pending sends have left their queue.
Stream(n) == buffer \o Delivered[n]

Left(n) == {pending[k] : k \in 1..n}

SentAfter(n) ==
  [i \in DOMAIN sent |->
     IF i \in Left(n)
     THEN [sent[i] EXCEPT !.state = IF Deliverable(i) THEN "consumed"
                                                      ELSE "failed"]
     ELSE sent[i]]

SlotAfter(n) ==
  [s \in Slots |->
     IF \E i \in Left(n) : sent[i].slot = s /\ Deliverable(i)
     THEN Committed(s)
     ELSE slot[s]]

\* n pending sends leave, and nothing else happens to the sends and slots.
Leave(n) ==
  /\ pending' = SubSeq(pending, n + 1, Len(pending))
  /\ sent' = SentAfter(n)
  /\ slot' = SlotAfter(n)
-----------------------------------------------------------------------------
(* recv *)

\* Only a receiver that finds nobody waiting may look for a value at once.
MayTake == waiters = <<>>

\* A receiver takes the first value.
Take(n) ==
  /\ Stream(n) # <<>>
  /\ received' = Append(received, Head(Stream(n)))
  /\ buffer' = Tail(Stream(n))
  /\ Leave(n)

\* recv that returns a value at once.
RecvNow(p) ==
  /\ call[p].pc = "idle"
  /\ MayTake
  /\ Take(Leaving(RoomToTake))
  /\ UNCHANGED <<setting, waiters, closed, call, cancelled>>

\* recv that waits, unless it is cancelled or must not wait.  (On a closed and
\* empty channel where nobody waits it changes nothing.)
RecvWait(p, timeout) ==
  LET n == Leaving(IF MayTake THEN RoomToTake ELSE Room) IN
  /\ call[p].pc = "idle"
  /\ MayTake => Stream(n) = <<>> /\ ~closed
  /\ buffer' = Stream(n)
  /\ Leave(n)
  /\ IF p \in cancelled \/ timeout = "zero"
     THEN UNCHANGED <<waiters, call>>
     ELSE /\ waiters' = Append(waiters, p)
          /\ call' = [call EXCEPT ![p] =
                        [Idle EXCEPT !.pc = "recv", !.timed = timeout = "later"]]
  /\ UNCHANGED <<setting, closed, received, cancelled>>

AtFront(p) == waiters # <<>> /\ Head(waiters) = p

\* The first waiter takes a value, or learns that the channel is closed.
RecvServed(p) ==
  /\ call[p].pc = "recv"
  /\ AtFront(p)
  /\ \/ Take(Leaving(RoomToTake))
     \/ /\ closed /\ buffer = <<>>
        /\ UNCHANGED <<buffer, pending, sent, received, slot>>
  /\ waiters' = Tail(waiters)
  /\ call' = [call EXCEPT ![p] = Idle]
  /\ UNCHANGED <<setting, closed, cancelled>>

\* The waiter id stays in the queue.
BugWithout(p) == waiters

\* remove_waiter_locked
Without(p) == RemoveFirst(waiters, p)

\* A receiver that is not served looks at its task and at the clock, and leaves or
\* waits on.  The first one has dropped the sends that could not be committed.
RecvUnserved(p) ==
  /\ call[p].pc = "recv"
  /\ IF AtFront(p)
     THEN /\ Stream(Leaving(RoomToTake)) = <<>> /\ ~closed
          /\ Leave(Leaving(RoomToTake))
     ELSE UNCHANGED <<pending, sent, slot>>
  /\ IF p \in cancelled \/ call[p].timed
     THEN waiters' = Without(p) /\ call' = [call EXCEPT ![p] = Idle]
     ELSE UNCHANGED <<waiters, call>>
  /\ UNCHANGED <<setting, buffer, closed, received, cancelled>>
-----------------------------------------------------------------------------
(* send *)

\* reserve_move at the start of send(slot).  A slot that is Reserved or Moved is
\* refused, and nothing changes.
Reserve(p, s) ==
  /\ call[p].pc = "idle"
  /\ s \in setting.slots
  /\ slot[s].state = "Ready"
  /\ slot' = [slot EXCEPT ![s] = [@ EXCEPT !.state = "Reserved", !.holder = p]]
  /\ call' = [call EXCEPT ![p] = [Idle EXCEPT !.pc = "reserved", !.slot = s]]
  /\ UNCHANGED <<setting, buffer, pending, waiters, closed, sent, received,
                 cancelled>>

\* p enters send_payload with a plain value or with the slot it has reserved.
Sending(p, s) ==
  \/ call[p].pc = "idle" /\ s = None
  \/ call[p].pc = "reserved" /\ s = call[p].slot

NewSend(p, s, state) ==
  [by |-> p, slot |-> s, content |-> IF s = None THEN 0 ELSE slot[s].content,
   state |-> state]

SendClosed(p) ==
  /\ call[p].pc = "reserved"
  /\ closed
  /\ slot' = Released(p, call[p].slot, slot)
  /\ call' = [call EXCEPT ![p] = Idle]
  /\ UNCHANGED <<setting, buffer, pending, waiters, closed, sent, received,
                 cancelled>>

\* One value more than the capacity.
BugFitsBuffer(n) == n = Len(pending) /\ Len(Stream(n)) <= capacity

\* There is room in the buffer once the pending sends are promoted.
FitsBuffer(n) == n = Len(pending) /\ Len(Stream(n)) < capacity

\* The value goes to the buffer, or the commit fails after a reset of the slot.
SendBuffered(p, s) ==
  LET n == Leaving(Room) IN
  /\ Sending(p, s)
  /\ ~closed
  /\ FitsBuffer(n)
  /\ Len(sent) < setting.sends
  /\ pending' = <<>>
  /\ IF Committable(p, s)
     THEN /\ sent' = Append(SentAfter(n), NewSend(p, s, "ok"))
          /\ buffer' = Append(Stream(n), Len(sent) + 1)
          /\ slot' = IF s = None THEN SlotAfter(n)
                     ELSE [SlotAfter(n) EXCEPT ![s] = Committed(s)]
     ELSE /\ sent' = SentAfter(n)
          /\ buffer' = Stream(n)
          /\ slot' = SlotAfter(n)
  /\ call' = [call EXCEPT ![p] = Idle]
  /\ UNCHANGED <<setting, waiters, closed, received, cancelled>>

\* The value has to wait for a receiver.
SendWait(p, s, timeout) ==
  LET n == Leaving(Room) IN
  /\ Sending(p, s)
  /\ ~closed
  /\ ~FitsBuffer(n)
  /\ Len(sent) < setting.sends
  /\ p \notin cancelled /\ timeout # "zero"
  /\ buffer' = Stream(n)
  /\ pending' = Append(SubSeq(pending, n + 1, Len(pending)), Len(sent) + 1)
  /\ sent' = Append(SentAfter(n), NewSend(p, s, "pending"))
  /\ slot' = SlotAfter(n)
  /\ call' = [call EXCEPT ![p] = [pc |-> "send", id |-> Len(sent) + 1, slot |-> s,
                                  timed |-> timeout = "later"]]
  /\ UNCHANGED <<setting, waiters, closed, received, cancelled>>

\* It would have to wait, but the task is cancelled or the timeout is zero: the
\* PendingSend is removed before the mutex is ever released.
SendGivesUp(p, s, timeout) ==
  LET n == Leaving(Room) IN
  /\ Sending(p, s)
  /\ ~closed
  /\ ~FitsBuffer(n)
  /\ Len(sent) < setting.sends
  /\ p \in cancelled \/ timeout = "zero"
  /\ buffer' = Stream(n)
  /\ pending' = SubSeq(pending, n + 1, Len(pending))
  /\ sent' = Append(SentAfter(n), NewSend(p, s, "refused"))
  /\ slot' = Released(p, s, SlotAfter(n))
  /\ call' = [call EXCEPT ![p] = Idle]
  /\ UNCHANGED <<setting, waiters, closed, received, cancelled>>

\* A waiting sender finds its send consumed: that counts before anything else.
SendAnswered(p) ==
  LET i == call[p].id IN
  /\ call[p].pc = "send"
  /\ sent[i].state \in {"consumed", "failed"}
  /\ sent' = [sent EXCEPT ![i].state = IF @ = "consumed" THEN "ok" ELSE "refused"]
  /\ call' = [call EXCEPT ![p] = Idle]
  /\ UNCHANGED <<setting, buffer, pending, waiters, closed, received, slot,
                 cancelled>>

\* Cancellation and the deadline count before the answer.
BugStillPending(i) == TRUE

StillPending(i) == sent[i].state = "pending"

\* What makes a waiting sender leave.
MustLeave(p) == closed \/ p \in cancelled \/ call[p].timed

SendUnanswered(p) ==
  LET i == call[p].id IN
  /\ call[p].pc = "send"
  /\ StillPending(i)
  /\ MustLeave(p)
  /\ pending' = RemoveFirst(pending, i)
  /\ sent' = [sent EXCEPT ![i].state = "refused"]
  /\ slot' = Released(p, call[p].slot, slot)
  /\ call' = [call EXCEPT ![p] = Idle]
  /\ UNCHANGED <<setting, buffer, waiters, closed, received, cancelled>>
-----------------------------------------------------------------------------
Close ==
  /\ ~closed
  /\ closed' = TRUE
  /\ UNCHANGED <<setting, buffer, pending, waiters, sent, received, call, slot,
                 cancelled>>

\* The scheduler sets the cancellation flag of a task (Scheduler!CancelTask).
Cancel(p) ==
  /\ p \in Cancellable \ cancelled
  /\ cancelled' = cancelled \cup {p}
  /\ UNCHANGED <<setting, buffer, pending, waiters, closed, sent, received, call,
                 slot>>

\* reset puts a new value in a slot, whatever state it is in.
Reset(s) ==
  /\ s \in setting.slots
  /\ slot[s].content < MaxResets
  /\ slot' = [slot EXCEPT ![s] = [state |-> "Ready", holder |-> None,
                                  content |-> @.content + 1]]
  /\ UNCHANGED <<setting, buffer, pending, waiters, closed, sent, received, call,
                 cancelled>>
-----------------------------------------------------------------------------
\* What a caller does by itself once it waits.
Poll(p) ==
  RecvServed(p) \/ RecvUnserved(p) \/ SendAnswered(p) \/ SendUnanswered(p)

Calls(p) ==
  \/ RecvNow(p)
  \/ \E timeout \in setting.timeouts : RecvWait(p, timeout)
  \/ \E s \in Slots : Reserve(p, s)
  \/ SendClosed(p)
  \/ \E s \in Slots \cup {None} : SendBuffered(p, s)
  \/ \E s \in Slots \cup {None}, timeout \in setting.timeouts :
       SendWait(p, s, timeout) \/ SendGivesUp(p, s, timeout)

Next ==
  \/ \E p \in Procs : Poll(p) \/ Calls(p) \/ Cancel(p)
  \/ \E s \in Slots : Reset(s)
  \/ Close

Spec == Init /\ [][Next]_vars

\* Waiting callers look again, deadlines pass, and a caller goes on from
\* reserve_move to the channel.  Nobody needs to call, close, cancel or reset.
Fairness ==
  \A p \in Procs :
    /\ WF_vars(Poll(p))
    /\ WF_vars(call[p].pc = "reserved" /\ Calls(p))

FairSpec == Spec /\ Fairness
=============================================================================
