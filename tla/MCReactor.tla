------------------------------ MODULE MCReactor ------------------------------
(* Finite instances of Reactor for TLC. *)
EXTENDS ReactorProperties, TLC

CONSTANTS s1, h1, f1, q1, q2

OneStrand == {s1}
OneThread == {h1}
OneFd == {f1}
TwoWaits == {q1, q2}

\* Each with what it could go wrong together with.
EachWithIts ==
  {{"sleep", "resume", "cancel"}, {"close", "cancel", "sleep"},
   {"close", "resume"}, {"timeout", "cancel", "stop"}}
=============================================================================
