------------------------------ MODULE MCChannel ------------------------------
(* A finite instance of Channel for TLC. *)
EXTENDS ChannelProperties

CONSTANTS p1, p2, p3, s1

ThreeProcs == {p1, p2, p3}
OnlyP1 == {p1}
OneSlot == {s1}

\* Two sends of plain values or of a slot, or three of plain values.
SlotsOrThree ==
  [capacity : {0, 1}, sends : {2}, slots : {OneSlot}, timeouts : {{"never"}}]
    \cup
  [capacity : {0, 2}, sends : {3}, slots : {{}}, timeouts : {{"never", "zero"}}]
    \cup
  [capacity : {1}, sends : {3}, slots : {{}}, timeouts : {{"later", "zero"}}]
=============================================================================
