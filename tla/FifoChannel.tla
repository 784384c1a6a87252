----------------------------- MODULE FifoChannel -----------------------------
(***************************************************************************)
(* What a FIFO channel promises, without callers, waiters, timeouts,       *)
(* cancellation or move slots (RuntimeChannel, src/runtime/concurrency.h). *)
(* Sends are numbered as they enter the channel.  The fate of a send is    *)
(* decided once; accepted values form a line, and are received from its    *)
(* front.  One step of a channel may decide about several sends, because   *)
(* whoever holds its mutex also moves the values of those who wait.        *)
(***************************************************************************)
EXTENDS Integers, SequencesExt

VARIABLES
  capacity, \* how many accepted values may be left to receive
  closed,
  fate,     \* of each send: waits, accepted or refused
  line,     \* the sends whose values were accepted, in the order of receiving
  taken     \* how many of them were received

vars == <<capacity, closed, fate, line, taken>>

Fates == {"waits", "accepted", "refused"}

Init ==
  /\ capacity \in Nat
  /\ closed = FALSE
  /\ fate = <<>>
  /\ line = <<>>
  /\ taken = 0

\* At most one send enters, and a send that does not wait has its fate for good.
Decided ==
  /\ Len(fate') \in {Len(fate), Len(fate) + 1}
  /\ \A i \in DOMAIN fate' : fate'[i] \in Fates
  /\ \A i \in DOMAIN fate : fate[i] # "waits" => fate'[i] = fate[i]

Accepted(f) == {i \in DOMAIN f : f[i] = "accepted"}

Waits(f) == {i \in DOMAIN f : f[i] = "waits"}

\* The line is what was accepted, in the order of the sends; it grows at its end, and
\* nobody in it came after a sender who waits.
LineGrows ==
  /\ IsPrefix(line, line')
  /\ ToSet(line') = Accepted(fate')
  /\ \A k, l \in DOMAIN line' : k < l => line'[k] < line'[l]
  /\ \A i \in Accepted(fate'), j \in Waits(fate') : i < j

\* At most one value is received, none that was not accepted, and no more of them
\* are left to receive than the channel holds.
Received ==
  /\ taken' \in {taken, taken + 1}
  /\ taken' <= Len(line')
  /\ Len(line') <= taken' + capacity

\* Nobody waits while the channel has room.
FullIfWaiting ==
  ~closed' /\ Waits(fate') # {} => Len(line') = taken' + capacity

\* A closed channel accepts nothing and is not opened again.
ClosedForGood == closed => closed' /\ line' = line

Next ==
  /\ Decided
  /\ LineGrows
  /\ Received
  /\ FullIfWaiting
  /\ ClosedForGood
  /\ UNCHANGED capacity

Spec == Init /\ [][Next]_vars
=============================================================================
