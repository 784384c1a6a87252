-------------------------- MODULE ChannelProperties --------------------------
(***************************************************************************)
(* What RuntimeChannel and RuntimeMoveSlot promise.                        *)
(***************************************************************************)
EXTENDS Channel

\* The sends whose values the channel has accepted.
Taken == ToSet(received) \cup ToSet(buffer)

\* Values are received in the order in which their senders entered the channel,
\* each at most once, whoever gives up, fails to commit or races to receive.
ValuesInOrder ==
  LET line == received \o buffer \o pending
  IN  \A k, l \in DOMAIN line : k < l => line[k] < line[l]

\* What a sender is told is true: ok if and only if its value was received or will
\* be, never for a value that was dropped, also when a receiver took the value
\* while the sender was timing out or being cancelled.
AnswersTrue ==
  \A i \in DOMAIN sent :
    /\ (sent[i].state \in {"ok", "consumed"}) = (i \in Taken)
    /\ (sent[i].state = "pending") = (i \in ToSet(pending))

\* A slot is Moved if and only if the channel took its content, and no content is
\* taken twice.
MovedOnce ==
  /\ \A s \in Slots :
       (slot[s].state = "Moved") =
         \E i \in Taken : sent[i].slot = s /\ sent[i].content = slot[s].content
  /\ \A i, j \in Taken :
       (/\ sent[i].slot # None
        /\ sent[i].slot = sent[j].slot
        /\ sent[i].content = sent[j].content) => i = j

\* A slot is Reserved only while somebody is on the way to the channel with it or
\* waits there: no way out of send leaves it reserved for ever.
ReservationsHeld ==
  \A s \in Slots :
    /\ (slot[s].state = "Reserved") = (slot[s].holder # None)
    /\ slot[s].holder # None =>
         LET c == call[slot[s].holder] IN
         /\ c.slot = s
         /\ \/ c.pc = "reserved"
            \/ c.pc = "send" /\ sent[c.id].state = "pending"

\* The content of a slot has one owner at any time, whatever resets, failing commits
\* and senders that leave do in between: the program, the one who is sending it, or
\* whoever received it.
SlotsOwned == MovedOnce /\ ReservationsHeld
\* What the channel has decided about a send, told or not.
Fate(state) ==
  CASE state \in {"consumed", "ok"} -> "accepted"
    [] state = "pending" -> "waits"
    [] OTHER -> "refused"

Fifo ==
  INSTANCE FifoChannel WITH
    fate <- [i \in DOMAIN sent |-> Fate(sent[i].state)],
    line <- received \o buffer,
    taken <- Len(received)

\* Seen through its decisions and its values alone, the channel is a FIFO queue of
\* bounded capacity: whoever gives up, is cancelled, fails to commit or comes from
\* another thread, a value that was accepted keeps its place and its sender is told
\* ok, nobody is overtaken, and nobody waits to send while there is room.
ImplementsFifo == Fifo!Spec
-----------------------------------------------------------------------------
Waits(pc) == {p \in Procs : call[p].pc = pc}

\* Somebody waits on the other side, or the channel is closed.
NeedNotWait(p) ==
  \/ p \in Waits("send") /\ Waits("recv") # {}
  \/ p \in Waits("recv") /\ Waits("send") # {}
  \/ closed /\ call[p].pc # "idle"

\* Nobody waits for ever without need: not while others wait on the other side, however
\* they come and go, and not after close, whoever gave up, was cancelled or came first.
WaitersServed ==
  \A p \in Procs : NeedNotWait(p) ~> ~NeedNotWait(p)
=============================================================================
